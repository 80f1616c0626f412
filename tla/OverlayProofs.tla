---------------------------- MODULE OverlayProofs ----------------------------
(***************************************************************************)
(* Theorems about Overlay, for every number of processes, every sequence   *)
(* of ledgers and every fault: the types, the peers that the WireGuard     *)
(* interface may have, what a start that succeeds has configured, and that *)
(* FRR announces only over a data plane.                                   *)
(***************************************************************************)
EXTENDS Overlay, TLAPS

-----------------------------------------------------------------------------
(* The inductive invariant *)

\* w and f are rendered from one of the first v ledgers, which start accepts.
Rendered(v, w, f) ==
    \E i \in 1 .. v : /\ Startable(Ledgers[i])
                      /\ w = WireGuardConf(Ledgers[i])
                      /\ f = FRRConf(Ledgers[i])

\* The peers, or some of the peers, of one such ledger.
PeersOK(v, xs) ==
    \E i \in 1 .. v : /\ Startable(Ledgers[i])
                      /\ xs \subseteq WireGuardConf(Ledgers[i]).peers

SourcesOK ==
    /\ wgFile # Absent => PeersOK(version, wgFile.peers)
    /\ wg # Absent => PeersOK(version, wg.peers)
    /\ \A p \in Proc :
        /\ cmd[p].pc \in Starting => Rendered(version, cmd[p].wg, cmd[p].frr)
        /\ cmd[p].pc = "sync" => PeersOK(version, cmd[p].got)
        /\ cmd[p].pc \in Starting \ {"wg conf"} => wgFile # Absent

\* The commands that follow the addition of the VXLAN device to the bridge,
\* that of the bridge, that of the device, and WireGuard.
AfterMaster == {"knobs", "vxlan up", "bridge up", "frr conf", "reload"}
AfterBridge == {"master"} \cup AfterMaster
AfterVxlan == {"bridge?", "bridge add"} \cup AfterBridge
AfterWg == {"vxlan?", "vxlan add"} \cup AfterVxlan

\* What a command that runs undisturbed has achieved.
Reached(c) ==
    /\ c.pc \in {"wg?", "wg up", "strip"} => wgFile = c.wg
    /\ c.pc \in {"strip", "sync"} \cup AfterWg => wg # Absent
    /\ c.pc = "sync" => c.got = c.wg.peers
    /\ c.pc \in AfterWg /\ c.run = "clean" => wg.peers \in Installed(c.wg.peers)
    /\ c.pc \in AfterVxlan => vxlan # Absent
    /\ c.pc \in AfterBridge => bridge # Absent
    /\ c.pc \in AfterMaster => vxlan.master
    /\ c.pc \in AfterMaster \ {"knobs"} => vxlan.knobs
    /\ c.pc \in {"bridge up", "frr conf", "reload"} => vxlan.up
    /\ c.pc \in {"frr conf", "reload"} => bridge.up
    /\ c.pc = "reload" => frrFile = c.frr
    /\ c.pc \in Stopping \ {"vtysh"} /\ ~ disturbed => frr = Absent

Alone(p) == \A q \in Proc \ {p} : cmd[q].pc = "idle"

Undisturbed(p) == cmd[p].run = "clean" \/ ~ disturbed

Progress ==
    \A p \in Proc : cmd[p].pc # "idle" /\ Undisturbed(p) =>
                        Alone(p) /\ Reached(cmd[p])

IInv == TypeOK /\ SourcesOK /\ Progress /\ AnnouncesOverDataPlane

-----------------------------------------------------------------------------
(* Lemmas about rendering *)

\* What a ledger that start accepts renders to.
LEMMA RenderedTypes ==
    ASSUME NEW i \in DOMAIN Ledgers, Startable(Ledgers[i])
    PROVE  /\ WireGuardConf(Ledgers[i]) \in WgConf
           /\ FRRConf(Ledgers[i]) \in FrrConf
  <1> DEFINE l == Ledgers[i]
  <1>1. l.members \subseteq Member
    <2>1. l \in Ledger
      BY LedgersAssumption
    <2>2. QED
      BY <2>1 DEF Ledger
  <1>2. SelfIn(l) \in Member
    BY <1>1 DEF Startable, SelfIn
  <1>3. {[key |-> m.wg, host |-> m.ip.host] : m \in Others(l)} \subseteq Peer
    BY <1>1 DEF Others, Member, Peer
  <1>4. {m.ip.host : m \in Others(l)} \subseteq Host
    BY <1>1 DEF Others, Member
  <1>5. SelfIn(l).ip \in [host : Host, bits : Bits] /\ SelfIn(l).ip.host \in Host
    BY <1>2 DEF Member
  <1>6. QED
    BY <1>3, <1>4, <1>5 DEF WireGuardConf, FRRConf, WgConf, FrrConf

\* What a start has rendered is typed, and none of it is absent.
LEMMA RenderedIsThere ==
    ASSUME NEW v \in DOMAIN Ledgers, NEW w, NEW f, Rendered(v, w, f)
    PROVE  /\ w \in WgConf /\ f \in FrrConf
           /\ w # Absent /\ f # Absent
           /\ PeersOK(v, w.peers)
  <1>1. PICK i \in 1 .. v : /\ Startable(Ledgers[i])
                            /\ w = WireGuardConf(Ledgers[i])
                            /\ f = FRRConf(Ledgers[i])
    BY DEF Rendered
  <1>2. i \in DOMAIN Ledgers
    BY LedgersAssumption
  <1>3. w \in WgConf /\ f \in FrrConf
    BY <1>1, <1>2, RenderedTypes
  <1>4. QED
    BY <1>1, <1>3, AbsentAssumption DEF PeersOK

\* Fewer peers will do.
LEMMA FewerPeers ==
    ASSUME NEW v, NEW xs, PeersOK(v, xs), NEW ys \in SUBSET xs
    PROVE  PeersOK(v, ys)
  BY DEF PeersOK

\* An interface takes some of the peers that it is given.
LEMMA InstalledFewer ==
    ASSUME NEW c \in WgConf, NEW d \in WgConf, NEW xs \in Installed(c.peers)
    PROVE  [d EXCEPT !.peers = xs] \in WgConf
  BY DEF Installed, WgConf

\* What it takes is there: whatever it is given, it can have peers of it.
LEMMA InstalledIsPossible ==
    ASSUME NEW xs PROVE Installed(xs) # {}
  <1> DEFINE of(k) == CHOOSE x \in xs : x.key = k
             keys == {x.key : x \in xs}
             ys == {of(k) : k \in keys \ {OwnKey}}
  <1>1. ASSUME NEW k \in keys PROVE of(k) \in xs /\ of(k).key = k
    BY <1>1
  <1> HIDE DEF of
  <1>2. ys \subseteq xs
    BY <1>1
  <1>3. ASSUME NEW x \in ys, NEW y \in ys, x.key = y.key PROVE x = y
    BY <1>1, <1>3
  <1>4. {y.key : y \in ys} = keys \ {OwnKey}
    BY <1>1
  <1>5. ys \in Installed(xs)
    BY <1>2, <1>3, <1>4 DEF Installed
  <1>6. QED
    BY <1>5

\* Peers that have keys of their own are all there.
LEMMA InstalledIsAll ==
    ASSUME NEW xs, \A x, y \in xs : x.key = y.key => x = y,
           \A x \in xs : x.key # OwnKey
    PROVE  Installed(xs) = {xs}
  <1>1. ASSUME NEW ys \in Installed(xs) PROVE ys = xs
    <2>1. ys \subseteq xs
      BY DEF Installed
    <2>2. ASSUME NEW x \in xs PROVE x \in ys
      <3>1. PICK y \in ys : y.key = x.key
        <4>1. x.key \in {y.key : y \in ys}
          BY DEF Installed
        <4>2. QED
          BY <4>1
      <3>2. QED
        BY <2>1, <3>1
    <2>3. QED
      BY <2>1, <2>2
  <1>2. xs \in Installed(xs)
    BY DEF Installed
  <1>3. QED
    BY <1>1, <1>2

\* Addresses of one ledger lead to one key each.
LEMMA UniqueKeys ==
    ASSUME NEW l, EnsureUniqueOverlay(l),
           NEW x \in WireGuardConf(l).peers, NEW y \in WireGuardConf(l).peers,
           x.host = y.host
    PROVE  x = y
  <1>1. PICK m \in Others(l) : x = [key |-> m.wg, host |-> m.ip.host]
    BY DEF WireGuardConf
  <1>2. PICK k \in Others(l) : y = [key |-> k.wg, host |-> k.ip.host]
    BY DEF WireGuardConf
  <1>3. m = k
    BY <1>1, <1>2 DEF EnsureUniqueOverlay, Others
  <1>4. QED
    BY <1>1, <1>2, <1>3

-----------------------------------------------------------------------------
(* Lemmas about the processes *)

\* What a step of p does to the other processes: nothing.
OnlyMoves(p) ==
    /\ cmd' \in [Proc -> Command]
    /\ \A q \in Proc \ {p} : cmd'[q] = cmd[q]

\* A step of an active process keeps all others in order.
LEMMA MoveKeepsProgress ==
    ASSUME IInv, NEW p \in Proc, cmd[p].pc # "idle", OnlyMoves(p),
           disturbed' \in {disturbed, TRUE, disturbed /\ cmd[p].run = "spoilt"},
           cmd'[p].pc # "idle" /\ Undisturbed(p)' => Undisturbed(p) /\ Reached(cmd[p])'
    PROVE  Progress'
  <1> SUFFICES ASSUME NEW q \in Proc, cmd'[q].pc # "idle", Undisturbed(q)'
               PROVE  Alone(q)' /\ Reached(cmd[q])'
    BY DEF Progress
  <1>1. CASE q = p
    <2>1. Undisturbed(p) /\ Reached(cmd[p])'
      BY <1>1
    <2>2. Alone(p)
      BY <2>1 DEF IInv, Progress
    <2>3. QED
      BY <1>1, <2>1, <2>2 DEF Alone, OnlyMoves
  <1>2. CASE q # p
    <2>1. cmd'[q] = cmd[q] /\ cmd[q].pc # "idle"
      BY <1>2 DEF OnlyMoves
    <2>2. CASE Undisturbed(q)
      BY <1>2, <2>1, <2>2 DEF IInv, Progress, Alone
    <2>3. CASE ~ Undisturbed(q)
      <3>1. cmd[p].run = "clean"
        <4>1. cmd[p].run \in {"clean", "spoilt"} /\ disturbed \in BOOLEAN
          BY DEF IInv, TypeOK, Command
        <4>2. disturbed /\ ~ disturbed'
          BY <2>1, <2>3 DEF Undisturbed
        <4>3. QED
          BY <4>1, <4>2
      <3>2. QED
        BY <1>2, <2>1, <3>1 DEF IInv, Progress, Alone, Undisturbed
    <2>4. QED
      BY <2>2, <2>3
  <1>3. QED
    BY <1>1, <1>2

LEMMA GotoMoves ==
    ASSUME TypeOK, NEW p \in Proc, NEW c \in Command, Goto(p, c)
    PROVE  OnlyMoves(p) /\ cmd'[p] = c
  BY DEF TypeOK, OnlyMoves, Goto

\* A command that has advanced to pc.
Advanced(c, pc, xs, run) ==
    [pc |-> pc, wg |-> c.wg, frr |-> c.frr, got |-> xs, run |-> run]

LEMMA AdvancedIs ==
    ASSUME NEW c \in Command, NEW pc, NEW xs
    PROVE  /\ [c EXCEPT !.pc = pc, !.got = xs] = Advanced(c, pc, xs, c.run)
           /\ Spoilt([c EXCEPT !.pc = pc, !.got = xs]) = Advanced(c, pc, xs, "spoilt")
           /\ Spoilt(c) = Advanced(c, c.pc, c.got, "spoilt")
  <1> DEFINE d == [c EXCEPT !.pc = pc]
             e == [d EXCEPT !.got = xs]
  <1>1. c = [pc |-> c.pc, wg |-> c.wg, frr |-> c.frr, got |-> c.got, run |-> c.run]
    BY DEF Command
  <1>2. d = [pc |-> pc, wg |-> c.wg, frr |-> c.frr, got |-> c.got, run |-> c.run]
    BY <1>1
  <1> HIDE DEF d
  <1>3. e = [pc |-> pc, wg |-> c.wg, frr |-> c.frr, got |-> xs, run |-> c.run]
    BY <1>2
  <1> HIDE DEF e
  <1>4. Spoilt(e) = Advanced(c, pc, xs, "spoilt")
    BY <1>3 DEF Spoilt, Advanced
  <1>5. Spoilt(c) = Advanced(c, c.pc, c.got, "spoilt")
    BY <1>1 DEF Spoilt, Advanced
  <1>6. [c EXCEPT !.pc = pc, !.got = xs] = e
    BY DEF d, e
  <1>7. QED
    BY <1>3, <1>4, <1>5, <1>6 DEF Advanced

LEMMA AdvancedIsCommand ==
    ASSUME NEW c \in Command, NEW pc \in Starting \cup Stopping,
           NEW xs \in SUBSET Peer, NEW run \in {"clean", "spoilt"}
    PROVE  Advanced(c, pc, xs, run) \in Command
  BY DEF Advanced, Command

LEMMA AdvancedFields ==
    ASSUME NEW c, NEW pc, NEW xs, NEW run
    PROVE  /\ Advanced(c, pc, xs, run).pc = pc
           /\ Advanced(c, pc, xs, run).wg = c.wg
           /\ Advanced(c, pc, xs, run).frr = c.frr
           /\ Advanced(c, pc, xs, run).got = xs
           /\ Advanced(c, pc, xs, run).run = run
  BY DEF Advanced

\* p goes on at pc.
GoesOn(p, pc, xs, run) ==
    /\ OnlyMoves(p)
    /\ cmd'[p].pc = pc
    /\ cmd'[p].wg = cmd[p].wg /\ cmd'[p].frr = cmd[p].frr
    /\ cmd'[p].got = xs
    /\ cmd'[p].run = run

LEMMA GoingOn ==
    ASSUME TypeOK, NEW p \in Proc, NEW pc \in Starting \cup Stopping,
           NEW xs \in SUBSET Peer
    PROVE  /\ Goto(p, [cmd[p] EXCEPT !.pc = pc, !.got = xs])
                => GoesOn(p, pc, xs, cmd[p].run)
           /\ Warn(p, pc) => GoesOn(p, pc, {}, "spoilt")
  <1>1. cmd[p] \in Command /\ cmd[p].run \in {"clean", "spoilt"}
    BY DEF TypeOK, Command
  <1>2. /\ [cmd[p] EXCEPT !.pc = pc, !.got = xs] = Advanced(cmd[p], pc, xs, cmd[p].run)
        /\ Spoilt([cmd[p] EXCEPT !.pc = pc, !.got = {}])
             = Advanced(cmd[p], pc, {}, "spoilt")
    BY <1>1, AdvancedIs
  <1>3. /\ Advanced(cmd[p], pc, xs, cmd[p].run) \in Command
        /\ Advanced(cmd[p], pc, {}, "spoilt") \in Command
    BY <1>1, AdvancedIsCommand
  <1>4. ASSUME Goto(p, [cmd[p] EXCEPT !.pc = pc, !.got = xs])
        PROVE  GoesOn(p, pc, xs, cmd[p].run)
    <2>1. OnlyMoves(p) /\ cmd'[p] = Advanced(cmd[p], pc, xs, cmd[p].run)
      BY <1>2, <1>3, <1>4, GotoMoves
    <2>2. QED
      BY <2>1, AdvancedFields DEF GoesOn
  <1>5. ASSUME Warn(p, pc) PROVE GoesOn(p, pc, {}, "spoilt")
    <2>1. OnlyMoves(p) /\ cmd'[p] = Advanced(cmd[p], pc, {}, "spoilt")
      BY <1>2, <1>3, <1>5, GotoMoves DEF Warn
    <2>2. QED
      BY <2>1, AdvancedFields DEF GoesOn
  <1>6. QED
    BY <1>4, <1>5

LEMMA Moving ==
    ASSUME TypeOK, NEW p \in Proc, NEW pc \in Starting \cup Stopping, Move(p, pc)
    PROVE  GoesOn(p, pc, {}, cmd[p].run)
  BY GoingOn DEF Move

LEMMA Ending ==
    ASSUME TypeOK, NEW p \in Proc, End(p)
    PROVE  OnlyMoves(p) /\ cmd'[p].pc = "idle"
  <1>1. Idle \in Command /\ Idle.pc = "idle"
    BY DEF Idle, Command
  <1>2. QED
    BY <1>1, GotoMoves DEF End

\* What a step of p that keeps the ledger and both files leaves to show.
LEMMA SourcesStay ==
    ASSUME IInv, NEW p \in Proc, OnlyMoves(p),
           UNCHANGED <<version, wgFile>>,
           wg' # Absent => PeersOK(version, wg'.peers),
           cmd'[p].pc \in Starting =>
               /\ cmd[p].pc \in Starting
               /\ cmd'[p].wg = cmd[p].wg /\ cmd'[p].frr = cmd[p].frr
               /\ cmd[p].pc # "wg conf",
           cmd'[p].pc = "sync" => PeersOK(version, cmd'[p].got)
    PROVE  SourcesOK'
  <1>1. ASSUME NEW q \in Proc
        PROVE  /\ cmd'[q].pc \in Starting => Rendered(version', cmd'[q].wg, cmd'[q].frr)
               /\ cmd'[q].pc = "sync" => PeersOK(version', cmd'[q].got)
               /\ cmd'[q].pc \in Starting \ {"wg conf"} => wgFile' # Absent
    <2>1. CASE q = p
      BY <2>1 DEF IInv, SourcesOK
    <2>2. CASE q # p
      BY <2>2 DEF IInv, SourcesOK, OnlyMoves
    <2>3. QED
      BY <2>1, <2>2
  <1>2. QED
    BY <1>1 DEF IInv, SourcesOK

\* What is known of a start that is under way.
LEMMA StartFacts ==
    ASSUME IInv, NEW p \in Proc, cmd[p].pc \in Starting
    PROVE  /\ version \in DOMAIN Ledgers
           /\ cmd[p].wg \in WgConf /\ cmd[p].frr \in FrrConf
           /\ cmd[p].wg # Absent /\ cmd[p].frr # Absent
           /\ Rendered(version, cmd[p].wg, cmd[p].frr)
           /\ PeersOK(version, cmd[p].wg.peers)
           /\ cmd[p].run \in {"clean", "spoilt"}
           /\ cmd[p].got \in SUBSET Peer
           /\ cmd[p].pc # "idle"
           /\ cmd[p].pc # "wg conf" => /\ wgFile \in WgConf /\ wgFile # Absent
                                       /\ PeersOK(version, wgFile.peers)
  BY RenderedIsThere DEF IInv, SourcesOK, TypeOK, Command, Starting

\* A start that only advances.
LEMMA Advancing ==
    ASSUME IInv, NEW p \in Proc, cmd[p].pc \in Starting \ {"wg conf"},
           NEW pc \in Starting \ {"wg conf", "sync"},
           NEW run \in {cmd[p].run, "spoilt"},
           GoesOn(p, pc, {}, run),
           UNCHANGED <<version, wgFile>>,
           wg' # Absent => PeersOK(version, wg'.peers)
    PROVE  SourcesOK'
  BY SourcesStay DEF GoesOn

\* It keeps everything in order when the devices stay as they are.
LEMMA Probing ==
    ASSUME IInv, NEW p \in Proc, NEW pc \in Starting, Move(p, pc) \/ Warn(p, pc),
           UNCHANGED <<version, files, devices, frr, disturbed>>,
           \/ cmd[p].pc = "wg?" /\ pc = (IF wg = Absent THEN "wg up" ELSE "strip")
           \/ cmd[p].pc = "vxlan?"
              /\ pc = (IF vxlan = Absent THEN "vxlan add" ELSE "bridge?")
           \/ cmd[p].pc = "bridge?"
              /\ pc = (IF bridge = Absent THEN "bridge add" ELSE "master")
           \/ cmd[p].pc \in {"strip", "sync"} /\ pc = "vxlan?" /\ Warn(p, pc)
    PROVE  IInv'
  <1>1. cmd[p].pc \in Starting \ {"wg conf"} /\ pc \in Starting \ {"wg conf", "sync"}
    BY DEF Starting
  <1>2. PICK run \in {cmd[p].run, "spoilt"} :
            GoesOn(p, pc, {}, run) /\ (Warn(p, pc) => run = "spoilt")
    BY <1>1, Moving, GoingOn DEF IInv
  <1>3. TypeOK'
    BY <1>2 DEF IInv, TypeOK, GoesOn, OnlyMoves, files, devices
  <1>4. SourcesOK'
    BY <1>1, <1>2, Advancing DEF IInv, SourcesOK, files, devices
  <1>5. Progress'
    <2>1. ASSUME Undisturbed(p)' PROVE Undisturbed(p)
      BY <1>2, <2>1 DEF Undisturbed, GoesOn
    <2>2. ASSUME Undisturbed(p), Undisturbed(p)' PROVE Reached(cmd[p])'
      <3>1. Reached(cmd[p])
        BY <1>1, <2>2 DEF IInv, Progress, Starting
      <3>2. QED
        BY <1>1, <1>2, <3>1
           DEF Reached, GoesOn, files, devices, AfterWg, AfterVxlan, AfterBridge,
               AfterMaster, Starting, Stopping
    <2>3. QED
      BY <1>1, <1>2, <2>1, <2>2, MoveKeepsProgress DEF Starting, GoesOn
  <1>6. AnnouncesOverDataPlane'
    BY DEF IInv, AnnouncesOverDataPlane, devices
  <1>7. QED
    BY <1>3, <1>4, <1>5, <1>6 DEF IInv

-----------------------------------------------------------------------------
(* The steps of start *)

\* A command of p that succeeds, and what that leaves to show.
LEMMA Succeeding ==
    ASSUME IInv, NEW p \in Proc, NEW pc \in Starting \cup Stopping, Move(p, pc),
           cmd[p].pc # "idle",
           pc \in Starting => /\ cmd[p].pc \in Starting \ {"wg conf"}
                              /\ pc \notin {"wg conf", "sync"},
           UNCHANGED <<version, wgFile, disturbed>>,
           frrFile' \in FrrConf \cup {Absent}, frr' \in FrrConf \cup {Absent},
           wg' \in WgConf \cup {Absent}, wg' # Absent => PeersOK(version, wg'.peers),
           vxlan' \in Vxlan \cup {Absent}, bridge' \in Bridge \cup {Absent},
           /\ GoesOn(p, pc, {}, cmd[p].run) /\ Undisturbed(p) /\ Alone(p)
           /\ Reached(cmd[p])
           => Reached(cmd[p])',
           AnnouncesOverDataPlane'
    PROVE  IInv'
  <1>1. GoesOn(p, pc, {}, cmd[p].run)
    BY Moving DEF IInv
  <1>2. TypeOK'
    BY <1>1 DEF IInv, TypeOK, GoesOn, OnlyMoves
  <1>3. SourcesOK'
    BY <1>1, SourcesStay DEF GoesOn, Starting, Stopping
  <1>4. Progress'
    <2>1. ASSUME Undisturbed(p)' PROVE Undisturbed(p)
      BY <1>1, <2>1 DEF Undisturbed, GoesOn
    <2>2. ASSUME Undisturbed(p) PROVE Reached(cmd[p])'
      BY <1>1, <2>2 DEF IInv, Progress
    <2>3. QED
      BY <1>1, <2>1, <2>2, MoveKeepsProgress DEF GoesOn
  <1>5. QED
    BY <1>2, <1>3, <1>4 DEF IInv

\* The devices and FRR are typed.
LEMMA DeviceTypes ==
    ASSUME IInv
    PROVE  /\ wg \in WgConf \cup {Absent}
           /\ wg # Absent => PeersOK(version, wg.peers)
           /\ vxlan \in Vxlan \cup {Absent} /\ bridge \in Bridge \cup {Absent}
           /\ frr \in FrrConf \cup {Absent} /\ frrFile \in FrrConf \cup {Absent}
           /\ disturbed \in BOOLEAN
  BY DEF IInv, TypeOK, SourcesOK

LEMMA WgUpStep ==
    ASSUME IInv, NEW p \in Proc, WgUp(p)
    PROVE  IInv'
  <1>1. PICK xs \in Installed(wgFile.peers) :
            /\ cmd[p].pc = "wg up" /\ Move(p, "vxlan?")
            /\ wg' = [wgFile EXCEPT !.peers = xs]
            /\ UNCHANGED <<version, wgFile, frrFile, vxlan, bridge, frr, disturbed>>
    BY DEF WgUp, files
  <1>2. wgFile \in WgConf /\ wgFile # Absent /\ PeersOK(version, wgFile.peers)
    BY <1>1, StartFacts DEF Starting
  <1>3. wg' \in WgConf /\ wg' # Absent /\ wg'.peers = xs /\ PeersOK(version, xs)
    <2>1. wg' \in WgConf
      BY <1>1, <1>2, InstalledFewer
    <2>2. wg'.peers = xs
      BY <1>1, <1>2 DEF WgConf
    <2>3. PeersOK(version, xs)
      BY <1>2, FewerPeers DEF Installed
    <2>4. QED
      BY <2>1, <2>2, <2>3, AbsentAssumption
  <1>4. AnnouncesOverDataPlane'
    BY <1>1, <1>3 DEF IInv, AnnouncesOverDataPlane
  <1>5. /\ GoesOn(p, "vxlan?", {}, cmd[p].run) /\ Reached(cmd[p])
        => Reached(cmd[p])'
    BY <1>1, <1>3 DEF Reached, GoesOn, AfterWg, AfterVxlan, AfterBridge, AfterMaster,
                      Stopping
  <1>6. QED
    BY <1>1, <1>4, <1>5, <1>3, DeviceTypes, Succeeding DEF Starting

LEMMA SyncConfStep ==
    ASSUME IInv, NEW p \in Proc, SyncConf(p)
    PROVE  IInv'
  <1>1. PICK xs \in Installed(cmd[p].got) :
            /\ cmd[p].pc = "sync" /\ Move(p, "vxlan?") /\ wg # Absent
            /\ wg' = [wg EXCEPT !.peers = xs]
            /\ UNCHANGED <<version, wgFile, frrFile, vxlan, bridge, frr, disturbed>>
    BY DEF SyncConf, Possible, files
  <1>2. xs \in SUBSET Peer /\ PeersOK(version, xs)
    <2>1. /\ cmd[p].got \in SUBSET Peer /\ PeersOK(version, cmd[p].got)
          /\ xs \in SUBSET cmd[p].got
      BY <1>1 DEF IInv, TypeOK, SourcesOK, Command, Installed
    <2>2. QED
      BY <2>1, FewerPeers
  <1>3. wg' \in WgConf /\ wg' # Absent /\ wg'.peers = xs
    <2>1. wg \in WgConf
      BY <1>1, DeviceTypes
    <2>2. wg' \in WgConf /\ wg'.peers = xs
      BY <1>1, <1>2, <2>1 DEF WgConf
    <2>3. QED
      BY <2>2, AbsentAssumption
  <1>4. AnnouncesOverDataPlane'
    BY <1>1, <1>3 DEF IInv, AnnouncesOverDataPlane
  <1>5. /\ GoesOn(p, "vxlan?", {}, cmd[p].run) /\ Reached(cmd[p])
        => Reached(cmd[p])'
    BY <1>1, <1>3 DEF Reached, GoesOn, AfterWg, AfterVxlan, AfterBridge, AfterMaster,
                      Stopping
  <1>6. QED
    BY <1>1, <1>2, <1>3, <1>4, <1>5, DeviceTypes, Succeeding DEF Starting

LEMMA AddVxlanStep ==
    ASSUME IInv, NEW p \in Proc, AddVxlan(p)
    PROVE  IInv'
  <1>1. /\ cmd[p].pc = "vxlan add" /\ Move(p, "bridge?") /\ vxlan = Absent
        /\ vxlan' = [local |-> cmd[p].frr.source, master |-> FALSE,
                     knobs |-> FALSE, up |-> FALSE]
        /\ UNCHANGED <<version, wgFile, frrFile, wg, bridge, frr, disturbed>>
    BY DEF AddVxlan, Possible, files
  <1>2. cmd[p].frr \in FrrConf
    BY <1>1, StartFacts DEF Starting
  <1>3. vxlan' \in Vxlan
    BY <1>1, <1>2 DEF Vxlan, FrrConf
  <1>4. vxlan' # Absent
    BY <1>3, AbsentAssumption
  <1>5. AnnouncesOverDataPlane'
    BY <1>1 DEF IInv, AnnouncesOverDataPlane
  <1>6. /\ GoesOn(p, "bridge?", {}, cmd[p].run) /\ Reached(cmd[p])
        => Reached(cmd[p])'
    BY <1>1, <1>4 DEF Reached, GoesOn, AfterWg, AfterVxlan, AfterBridge, AfterMaster,
                      Stopping
  <1>7. QED
    BY <1>1, <1>3, <1>5, <1>6, DeviceTypes, Succeeding DEF Starting

LEMMA AddBridgeStep ==
    ASSUME IInv, NEW p \in Proc, AddBridge(p)
    PROVE  IInv'
  <1>1. /\ cmd[p].pc = "bridge add" /\ Move(p, "master") /\ bridge = Absent
        /\ bridge' = [up |-> FALSE]
        /\ UNCHANGED <<version, wgFile, frrFile, wg, vxlan, frr, disturbed>>
    BY DEF AddBridge, Possible, files
  <1>2. bridge' \in Bridge
    BY <1>1 DEF Bridge
  <1>3. bridge' # Absent
    BY <1>2, AbsentAssumption
  <1>4. AnnouncesOverDataPlane'
    BY <1>1 DEF IInv, AnnouncesOverDataPlane
  <1>5. /\ GoesOn(p, "master", {}, cmd[p].run) /\ Reached(cmd[p])
        => Reached(cmd[p])'
    BY <1>1, <1>3 DEF Reached, GoesOn, AfterWg, AfterVxlan, AfterBridge, AfterMaster,
                      Stopping
  <1>6. QED
    BY <1>1, <1>2, <1>4, <1>5, DeviceTypes, Succeeding DEF Starting

LEMMA VxlanSteps ==
    ASSUME IInv, NEW p \in Proc, SetMaster(p) \/ SetKnobs(p) \/ VxlanUp(p)
    PROVE  IInv'
  <1> DEFINE Facts(pc) ==
        /\ cmd[p].pc \in Starting \ {"wg conf"} /\ Move(p, pc) /\ vxlan # Absent
        /\ UNCHANGED <<version, wgFile, frrFile, wg, bridge, frr, disturbed>>
  <1>1. vxlan # Absent => vxlan \in Vxlan
    BY DeviceTypes
  <1>2. CASE SetMaster(p)
    <2>1. /\ Facts("knobs") /\ vxlan' = [vxlan EXCEPT !.master = TRUE]
          /\ cmd[p].pc = "master"
      BY <1>2 DEF SetMaster, Possible, files, Starting
    <2>2. /\ vxlan' \in Vxlan /\ vxlan'.master /\ vxlan'.up = vxlan.up
      BY <1>1, <2>1 DEF Vxlan
    <2>3. vxlan' # Absent
      BY <2>2, AbsentAssumption
    <2>4. AnnouncesOverDataPlane'
      BY <2>1, <2>2, <2>3 DEF IInv, AnnouncesOverDataPlane
    <2>5. /\ GoesOn(p, "knobs", {}, cmd[p].run) /\ Reached(cmd[p])
          => Reached(cmd[p])'
      BY <2>1, <2>2, <2>3
         DEF Reached, GoesOn, AfterWg, AfterVxlan, AfterBridge, AfterMaster, Stopping
    <2>6. QED
      BY <2>1, <2>2, <2>4, <2>5, DeviceTypes, Succeeding DEF Starting
  <1>3. CASE SetKnobs(p)
    <2>1. /\ Facts("vxlan up") /\ vxlan' = [vxlan EXCEPT !.knobs = TRUE]
          /\ cmd[p].pc = "knobs"
      BY <1>3 DEF SetKnobs, Possible, files, Starting
    <2>2. /\ vxlan' \in Vxlan /\ vxlan'.knobs /\ vxlan'.up = vxlan.up
          /\ vxlan'.master = vxlan.master
      BY <1>1, <2>1 DEF Vxlan
    <2>3. vxlan' # Absent
      BY <2>2, AbsentAssumption
    <2>4. AnnouncesOverDataPlane'
      BY <2>1, <2>2, <2>3 DEF IInv, AnnouncesOverDataPlane
    <2>5. /\ GoesOn(p, "vxlan up", {}, cmd[p].run) /\ Reached(cmd[p])
          => Reached(cmd[p])'
      BY <2>1, <2>2, <2>3
         DEF Reached, GoesOn, AfterWg, AfterVxlan, AfterBridge, AfterMaster, Stopping
    <2>6. QED
      BY <2>1, <2>2, <2>4, <2>5, DeviceTypes, Succeeding DEF Starting
  <1>4. CASE VxlanUp(p)
    <2>1. /\ Facts("bridge up") /\ vxlan' = [vxlan EXCEPT !.up = TRUE]
          /\ cmd[p].pc = "vxlan up"
      BY <1>4 DEF VxlanUp, Possible, files, Starting
    <2>2. /\ vxlan' \in Vxlan /\ vxlan'.up /\ vxlan'.knobs = vxlan.knobs
          /\ vxlan'.master = vxlan.master
      BY <1>1, <2>1 DEF Vxlan
    <2>3. vxlan' # Absent
      BY <2>2, AbsentAssumption
    <2>4. AnnouncesOverDataPlane'
      BY <2>1, <2>2, <2>3 DEF IInv, AnnouncesOverDataPlane
    <2>5. /\ GoesOn(p, "bridge up", {}, cmd[p].run) /\ Reached(cmd[p])
          => Reached(cmd[p])'
      BY <2>1, <2>2, <2>3
         DEF Reached, GoesOn, AfterWg, AfterVxlan, AfterBridge, AfterMaster, Stopping
    <2>6. QED
      BY <2>1, <2>2, <2>4, <2>5, DeviceTypes, Succeeding DEF Starting
  <1>5. QED
    BY <1>2, <1>3, <1>4

LEMMA BridgeUpStep ==
    ASSUME IInv, NEW p \in Proc, BridgeUp(p)
    PROVE  IInv'
  <1>1. /\ cmd[p].pc = "bridge up" /\ Move(p, "frr conf") /\ bridge' = [up |-> TRUE]
        /\ UNCHANGED <<version, wgFile, frrFile, wg, vxlan, frr, disturbed>>
    BY DEF BridgeUp, files
  <1>2. bridge' \in Bridge /\ bridge'.up
    BY <1>1 DEF Bridge
  <1>3. bridge' # Absent
    BY <1>2, AbsentAssumption
  <1>4. AnnouncesOverDataPlane'
    BY <1>1, <1>2, <1>3 DEF IInv, AnnouncesOverDataPlane
  <1>5. /\ GoesOn(p, "frr conf", {}, cmd[p].run) /\ Reached(cmd[p])
        => Reached(cmd[p])'
    BY <1>1, <1>2, <1>3
       DEF Reached, GoesOn, AfterWg, AfterVxlan, AfterBridge, AfterMaster, Stopping
  <1>6. QED
    BY <1>1, <1>2, <1>4, <1>5, DeviceTypes, Succeeding DEF Starting

LEMMA WriteFrrConfStep ==
    ASSUME IInv, NEW p \in Proc, WriteFrrConf(p)
    PROVE  IInv'
  <1>1. /\ cmd[p].pc = "frr conf" /\ Move(p, "reload") /\ frrFile' = cmd[p].frr
        /\ UNCHANGED <<version, wgFile, wg, vxlan, bridge, frr, disturbed>>
    BY DEF WriteFrrConf, devices
  <1>2. cmd[p].frr \in FrrConf
    BY <1>1, StartFacts DEF Starting
  <1>3. AnnouncesOverDataPlane'
    BY <1>1 DEF IInv, AnnouncesOverDataPlane
  <1>4. /\ GoesOn(p, "reload", {}, cmd[p].run) /\ Reached(cmd[p])
        => Reached(cmd[p])'
    BY <1>1
       DEF Reached, GoesOn, AfterWg, AfterVxlan, AfterBridge, AfterMaster, Stopping
  <1>5. QED
    BY <1>1, <1>2, <1>3, <1>4, DeviceTypes, Succeeding DEF Starting

\* The stripped file is the one that p has written, unless it is disturbed.
LEMMA StripStep ==
    ASSUME IInv, NEW p \in Proc, Strip(p)
    PROVE  IInv'
  <1>1. /\ cmd[p].pc = "strip"
        /\ Goto(p, [cmd[p] EXCEPT !.pc = "sync", !.got = wgFile.peers])
        /\ UNCHANGED <<version, wgFile, frrFile, wg, vxlan, bridge, frr, disturbed>>
    BY DEF Strip, files, devices
  <1>2. /\ wgFile \in WgConf /\ PeersOK(version, wgFile.peers)
    BY <1>1, StartFacts DEF Starting
  <1>3. GoesOn(p, "sync", wgFile.peers, cmd[p].run)
    <2>1. wgFile.peers \in SUBSET Peer
      BY <1>2 DEF WgConf
    <2>2. QED
      BY <1>1, <2>1, GoingOn DEF IInv, Starting
  <1>4. TypeOK'
    BY <1>1, <1>3 DEF IInv, TypeOK, GoesOn, OnlyMoves
  <1>5. SourcesOK'
    <2>1. wg' # Absent => PeersOK(version, wg'.peers)
      BY <1>1, DeviceTypes
    <2>2. QED
      BY <1>1, <1>2, <1>3, <2>1, SourcesStay DEF GoesOn, Starting
  <1>6. Progress'
    <2>1. ASSUME Undisturbed(p)' PROVE Undisturbed(p)
      BY <1>1, <1>3, <2>1 DEF Undisturbed, GoesOn
    <2>2. ASSUME Undisturbed(p) PROVE Reached(cmd[p])'
      <3>1. Reached(cmd[p])
        BY <1>1, <2>2 DEF IInv, Progress
      <3>2. QED
        BY <1>1, <1>3, <3>1
           DEF Reached, GoesOn, AfterWg, AfterVxlan, AfterBridge, AfterMaster, Stopping
    <2>3. QED
      BY <1>1, <1>3, <2>1, <2>2, MoveKeepsProgress DEF GoesOn
  <1>7. AnnouncesOverDataPlane'
    BY <1>1 DEF IInv, AnnouncesOverDataPlane
  <1>8. QED
    BY <1>4, <1>5, <1>6, <1>7 DEF IInv

\* The commands of a start that leave everything else alone.
LEMMA ProbeSteps ==
    ASSUME IInv, NEW p \in Proc,
           ProbeWg(p) \/ ProbeVxlan(p) \/ ProbeBridge(p) \/ HotReloadFails(p)
    PROVE  IInv'
  <1>1. CASE ProbeWg(p)
    BY <1>1, Probing DEF ProbeWg, Starting
  <1>2. CASE ProbeVxlan(p)
    BY <1>2, Probing DEF ProbeVxlan, Starting
  <1>3. CASE ProbeBridge(p)
    BY <1>3, Probing DEF ProbeBridge, Starting
  <1>4. CASE HotReloadFails(p)
    BY <1>4, Probing DEF HotReloadFails, Starting
  <1>5. QED
    BY <1>1, <1>2, <1>3, <1>4

\* A step that writes the WireGuard file.
LEMMA Writing ==
    ASSUME IInv, NEW p \in Proc, cmd[p].pc = "wg conf", OnlyMoves(p),
           wgFile' \in WgConf, PeersOK(version, wgFile'.peers),
           UNCHANGED <<version, frrFile, devices, frr, disturbed>>,
           \/ cmd'[p].pc = "idle"
           \/ UNCHANGED cmd
           \/ GoesOn(p, "wg?", {}, cmd[p].run) /\ wgFile' = cmd[p].wg
    PROVE  IInv'
  <1>1. TypeOK'
    BY DEF IInv, TypeOK, OnlyMoves, devices
  <1>2. wgFile' # Absent
    BY AbsentAssumption
  <1>3. SourcesOK'
    <2>1. ASSUME NEW q \in Proc
          PROVE  /\ cmd'[q].pc \in Starting =>
                      Rendered(version', cmd'[q].wg, cmd'[q].frr)
                 /\ cmd'[q].pc = "sync" => PeersOK(version', cmd'[q].got)
      <3>1. CASE q # p \/ UNCHANGED cmd
        BY <3>1 DEF IInv, SourcesOK, OnlyMoves
      <3>2. CASE q = p /\ cmd'[p].pc = "idle"
        BY <3>2 DEF Starting
      <3>3. CASE q = p /\ GoesOn(p, "wg?", {}, cmd[p].run)
        BY <3>3 DEF IInv, SourcesOK, GoesOn, Starting
      <3>4. QED
        BY <3>1, <3>2, <3>3
    <2>2. QED
      BY <1>2, <2>1 DEF IInv, SourcesOK, devices
  <1>4. Progress'
    <2>1. ASSUME cmd'[p].pc # "idle", Undisturbed(p)'
          PROVE  Undisturbed(p) /\ Reached(cmd[p])'
      <3>1. Undisturbed(p)
        BY <2>1 DEF Undisturbed, GoesOn
      <3>2. CASE UNCHANGED cmd
        BY <3>1, <3>2
           DEF Reached, AfterWg, AfterVxlan, AfterBridge, AfterMaster, Stopping
      <3>3. CASE GoesOn(p, "wg?", {}, cmd[p].run) /\ wgFile' = cmd[p].wg
        BY <3>1, <3>3
           DEF Reached, GoesOn, AfterWg, AfterVxlan, AfterBridge, AfterMaster, Stopping
      <3>4. QED
        BY <2>1, <3>1, <3>2, <3>3
    <2>2. QED
      BY <2>1, MoveKeepsProgress
  <1>5. AnnouncesOverDataPlane'
    BY DEF IInv, AnnouncesOverDataPlane, devices
  <1>6. QED
    BY <1>1, <1>3, <1>4, <1>5 DEF IInv

LEMMA WriteWgConfStep ==
    ASSUME IInv, NEW p \in Proc, WriteWgConf(p)
    PROVE  IInv'
  <1>1. /\ cmd[p].pc = "wg conf" /\ wgFile' = cmd[p].wg /\ Move(p, "wg?")
        /\ UNCHANGED <<version, frrFile, devices, frr, disturbed>>
    BY DEF WriteWgConf
  <1>2. wgFile' \in WgConf /\ PeersOK(version, wgFile'.peers)
    BY <1>1, StartFacts DEF Starting
  <1>3. GoesOn(p, "wg?", {}, cmd[p].run) /\ OnlyMoves(p)
    BY <1>1, Moving DEF IInv, Starting, GoesOn
  <1>4. QED
    BY <1>1, <1>2, <1>3, Writing

\* A file that is written by half has some of the peers.
LEMMA WriteSomeStep ==
    ASSUME IInv, NEW p \in Proc, WriteSome(p)
    PROVE  IInv'
  <1>1. /\ cmd[p].pc \in {"wg conf", "frr conf"}
        /\ UNCHANGED cmd \/ End(p)
        /\ UNCHANGED <<version, devices, frr, disturbed>>
    BY DEF WriteSome
  <1>2. OnlyMoves(p) /\ (UNCHANGED cmd \/ cmd'[p].pc = "idle")
    <2>1. CASE UNCHANGED cmd
      BY <2>1 DEF IInv, TypeOK, OnlyMoves
    <2>2. CASE End(p)
      BY <2>2, Ending DEF IInv
    <2>3. QED
      BY <1>1, <2>1, <2>2
  <1>3. CASE cmd[p].pc = "wg conf"
    <2>1. PICK xs \in SUBSET cmd[p].wg.peers :
              wgFile' = NoPeers \/ wgFile' = [cmd[p].wg EXCEPT !.peers = xs]
      BY <1>3 DEF WriteSome
    <2>2. cmd[p].wg \in WgConf /\ PeersOK(version, cmd[p].wg.peers)
      BY <1>3, StartFacts DEF Starting
    <2>3. wgFile' \in WgConf /\ wgFile'.peers \subseteq cmd[p].wg.peers
      BY <2>1, <2>2 DEF WgConf, NoPeers
    <2>4. PeersOK(version, wgFile'.peers)
      BY <2>2, <2>3, FewerPeers
    <2>5. UNCHANGED frrFile
      BY <1>3 DEF WriteSome
    <2>6. QED
      BY <1>1, <1>2, <1>3, <2>3, <2>4, <2>5, Writing
  <1>4. CASE cmd[p].pc = "frr conf"
    <2>1. PICK xs \in SUBSET cmd[p].frr.peers :
              frrFile' = Absent \/ frrFile' = [cmd[p].frr EXCEPT !.peers = xs]
      BY <1>4 DEF WriteSome
    <2>2. cmd[p].frr \in FrrConf
      BY <1>4, StartFacts DEF Starting
    <2>3. frrFile' \in FrrConf \cup {Absent}
      BY <2>1, <2>2 DEF FrrConf
    <2>4. UNCHANGED wgFile
      BY <1>4 DEF WriteSome
    <2>5. TypeOK'
      BY <1>1, <1>2, <2>3, <2>4 DEF IInv, TypeOK, OnlyMoves, devices
    <2>6. SourcesOK'
      <3>1. CASE UNCHANGED cmd
        BY <1>1, <2>4, <3>1 DEF IInv, SourcesOK, devices
      <3>2. CASE cmd'[p].pc = "idle"
        <4>1. wg' # Absent => PeersOK(version, wg'.peers)
          BY <1>1, DeviceTypes DEF devices
        <4>2. QED
          BY <1>1, <1>2, <2>4, <3>2, <4>1, SourcesStay DEF Starting
      <3>3. QED
        BY <1>2, <3>1, <3>2
    <2>7. Progress'
      <3>1. ASSUME cmd'[p].pc # "idle", Undisturbed(p)'
            PROVE  Undisturbed(p) /\ Reached(cmd[p])'
        <4>1. UNCHANGED cmd
          BY <1>2, <3>1
        <4>2. Undisturbed(p)
          BY <1>1, <3>1, <4>1 DEF Undisturbed
        <4>3. Reached(cmd[p])
          BY <1>4, <4>2 DEF IInv, Progress
        <4>4. QED
          BY <1>1, <1>4, <2>4, <4>1, <4>2, <4>3
             DEF Reached, devices, AfterWg, AfterVxlan, AfterBridge, AfterMaster, Stopping
      <3>2. QED
        BY <1>1, <1>2, <1>4, <3>1, MoveKeepsProgress
    <2>8. AnnouncesOverDataPlane'
      BY <1>1 DEF IInv, AnnouncesOverDataPlane, devices
    <2>9. QED
      BY <2>5, <2>6, <2>7, <2>8 DEF IInv
  <1>5. QED
    BY <1>1, <1>3, <1>4

-----------------------------------------------------------------------------
(* The steps that begin and end a process *)

LEMMA EndKeeps ==
    ASSUME IInv, NEW p \in Proc, cmd[p].pc # "idle", End(p),
           UNCHANGED <<version, files, vxlan, bridge>>,
           wg' \in {wg, Absent}, frr' \in FrrConf \cup {Absent},
           disturbed' \in {disturbed, disturbed /\ cmd[p].run = "spoilt"},
           AnnouncesOverDataPlane'
    PROVE  IInv'
  <1>1. OnlyMoves(p) /\ cmd'[p].pc = "idle"
    BY Ending DEF IInv
  <1>2. TypeOK'
    <2>1. disturbed' \in BOOLEAN
      BY DeviceTypes
    <2>2. QED
      BY <1>1, <2>1 DEF IInv, TypeOK, OnlyMoves, files
  <1>3. SourcesOK'
    <2>1. wg' # Absent => PeersOK(version, wg'.peers)
      BY DeviceTypes
    <2>2. QED
      BY <1>1, <2>1, SourcesStay DEF Starting, files
  <1>4. Progress'
    BY <1>1, MoveKeepsProgress
  <1>5. QED
    BY <1>2, <1>3, <1>4 DEF IInv

\* What is known of the end of a start that FRR gets its configuration from.
LEMMA AtReload ==
    ASSUME IInv, NEW p \in Proc, Reload(p), Undisturbed(p)
    PROVE  /\ wg # Absent /\ (cmd[p].run = "clean" => wg.peers \in Installed(cmd[p].wg.peers))
           /\ frrFile = cmd[p].frr
           /\ vxlan # Absent /\ vxlan.master /\ vxlan.knobs /\ vxlan.up
           /\ bridge # Absent /\ bridge.up
  <1>1. cmd[p].pc = "reload"
    BY DEF Reload
  <1>2. Reached(cmd[p])
    BY <1>1 DEF IInv, Progress
  <1>3. QED
    BY <1>1, <1>2 DEF Reached, AfterWg, AfterVxlan, AfterBridge, AfterMaster

LEMMA ReloadStep ==
    ASSUME IInv, NEW p \in Proc, Reload(p)
    PROVE  IInv'
  <1>1. /\ cmd[p].pc = "reload" /\ End(p) /\ frr' = frrFile
        /\ disturbed' = (disturbed /\ cmd[p].run = "spoilt")
        /\ UNCHANGED <<version, files, wg, vxlan, bridge>>
    BY DEF Reload, devices
  <1>2. AnnouncesOverDataPlane'
    <2>1. ASSUME ~ disturbed' PROVE Undisturbed(p)
      <3>1. cmd[p].run \in {"clean", "spoilt"} /\ disturbed \in BOOLEAN
        BY DEF IInv, TypeOK, Command
      <3>2. ~ disturbed \/ ~ (cmd[p].run = "spoilt")
        BY <1>1, <2>1
      <3>3. QED
        BY <3>1, <3>2 DEF Undisturbed
    <2>2. QED
      BY <1>1, <2>1, AtReload DEF AnnouncesOverDataPlane
  <1>3. QED
    BY <1>1, <1>2, DeviceTypes, EndKeeps

LEMMA FailSteps ==
    ASSUME IInv, NEW p \in Proc, CommandFails(p) \/ Crash(p)
    PROVE  IInv'
  <1>1. /\ cmd[p].pc # "idle" /\ End(p)
        /\ UNCHANGED <<version, files, wg, vxlan, bridge, frr, disturbed>>
    BY DEF CommandFails, Crash, devices
  <1>2. AnnouncesOverDataPlane'
    BY <1>1 DEF IInv, AnnouncesOverDataPlane
  <1>3. QED
    BY <1>1, <1>2, DeviceTypes, EndKeeps

LEMMA SpoiltIsCommand ==
    ASSUME NEW c \in Command
    PROVE  /\ Spoilt(c) \in Command
           /\ Spoilt(c).pc = c.pc /\ Spoilt(c).wg = c.wg /\ Spoilt(c).frr = c.frr
           /\ Spoilt(c).got = c.got /\ Spoilt(c).run = "spoilt"
  <1>1. Spoilt(c) = Advanced(c, c.pc, c.got, "spoilt")
    BY AdvancedIs
  <1>2. Advanced(c, c.pc, c.got, "spoilt") \in Command
    BY DEF Advanced, Command
  <1>3. QED
    BY <1>1, <1>2, AdvancedFields

\* A process that begins where others run spoils them, and itself.
LEMMA BeginKeeps ==
    ASSUME IInv, NEW p \in Proc, NEW c \in Command, Begin(p, c),
           c.pc \in {"wg conf", "vtysh"},
           c.pc = "wg conf" => Rendered(version, c.wg, c.frr),
           UNCHANGED <<version, files, devices, frr>>
    PROVE  IInv'
  <1>1. cmd \in [Proc -> Command]
    BY DEF IInv, TypeOK
  <1>2. ASSUME NEW q \in Proc
        PROVE  /\ cmd'[q] \in Command
               /\ LET d == IF q = p THEN c ELSE cmd[q]
                  IN  /\ cmd'[q].pc = d.pc /\ cmd'[q].wg = d.wg
                      /\ cmd'[q].frr = d.frr /\ cmd'[q].got = d.got
               /\ (q = p \/ cmd[q].pc # "idle") /\ Active(p) # {}
                    => cmd'[q].run = "spoilt"
               /\ q # p /\ Active(p) = {} => cmd'[q] = cmd[q] /\ cmd[q].pc = "idle"
    <2>1. cmd[q] \in Command
      BY <1>1
    <2>2. CASE q = p
      BY <2>2, SpoiltIsCommand DEF Begin
    <2>3. CASE q # p /\ q \in Active(p)
      BY <2>1, <2>3, SpoiltIsCommand DEF Begin
    <2>4. CASE q # p /\ q \notin Active(p)
      <3>1. cmd[q].pc = "idle"
        BY <2>4 DEF Active
      <3>2. cmd'[q] = cmd[q]
        BY <2>4 DEF Begin
      <3>3. QED
        BY <2>1, <2>4, <3>1, <3>2
    <2>5. QED
      BY <2>2, <2>3, <2>4
  <1>3. disturbed' \in BOOLEAN /\ (Active(p) # {} => disturbed')
        /\ (disturbed => disturbed')
    BY DeviceTypes DEF Begin
  <1>4. TypeOK'
    <2>1. cmd' \in [Proc -> Command]
      <3>1. DOMAIN cmd' = Proc /\ cmd' = [q \in Proc |-> cmd'[q]]
        BY DEF Begin
      <3>2. QED
        BY <1>2, <3>1
    <2>2. QED
      BY <1>3, <2>1 DEF IInv, TypeOK, files, devices
  <1>5. SourcesOK'
    <2>1. ASSUME NEW q \in Proc
          PROVE  /\ cmd'[q].pc \in Starting =>
                      Rendered(version', cmd'[q].wg, cmd'[q].frr)
                 /\ cmd'[q].pc = "sync" => PeersOK(version', cmd'[q].got)
                 /\ cmd'[q].pc \in Starting \ {"wg conf"} => wgFile' # Absent
      <3>1. CASE q = p
        <4>1. cmd'[q].pc = c.pc /\ cmd'[q].wg = c.wg /\ cmd'[q].frr = c.frr
          BY <1>2, <3>1
        <4>2. QED
          BY <4>1 DEF Starting
      <3>2. CASE q # p
        <4>1. /\ cmd'[q].pc = cmd[q].pc /\ cmd'[q].wg = cmd[q].wg
              /\ cmd'[q].frr = cmd[q].frr /\ cmd'[q].got = cmd[q].got
          BY <1>2, <3>2
        <4>2. QED
          BY <4>1 DEF IInv, SourcesOK, files
      <3>3. QED
        BY <3>1, <3>2
    <2>2. QED
      BY <2>1 DEF IInv, SourcesOK, files, devices
  <1>6. Progress'
    <2>1. SUFFICES ASSUME NEW q \in Proc, cmd'[q].pc # "idle", Undisturbed(q)'
                   PROVE  Alone(q)' /\ Reached(cmd[q])'
      BY DEF Progress
    <2>2. Active(p) = {}
      <3>1. SUFFICES ASSUME Active(p) # {} PROVE FALSE
        OBVIOUS
      <3>2. cmd'[q].run = "spoilt"
        BY <1>2, <2>1, <3>1
      <3>3. QED
        BY <1>3, <2>1, <3>1, <3>2 DEF Undisturbed
    <2>3. q = p /\ Alone(q)'
      BY <1>2, <2>1, <2>2 DEF Alone
    <2>4. cmd'[q].pc \in {"wg conf", "vtysh"}
      BY <1>2, <2>3
    <2>5. Reached(cmd[q])'
      BY <2>4 DEF Reached, AfterWg, AfterVxlan, AfterBridge, AfterMaster, Stopping
    <2>6. QED
      BY <2>3, <2>5
  <1>7. AnnouncesOverDataPlane'
    BY <1>3 DEF IInv, AnnouncesOverDataPlane, devices
  <1>8. QED
    BY <1>4, <1>5, <1>6, <1>7 DEF IInv

LEMMA Beginning ==
    ASSUME NEW pc, NEW w, NEW f
    PROVE  [Idle EXCEPT !.pc = pc, !.wg = w, !.frr = f] =
               [pc |-> pc, wg |-> w, frr |-> f, got |-> {}, run |-> "clean"]
  <1> DEFINE a == [Idle EXCEPT !.pc = pc]
             b == [a EXCEPT !.wg = w]
             c == [b EXCEPT !.frr = f]
  <1>1. Idle = [pc |-> "idle", wg |-> Absent, frr |-> Absent, got |-> {},
                run |-> "clean"]
    BY DEF Idle
  <1>2. a = [pc |-> pc, wg |-> Absent, frr |-> Absent, got |-> {}, run |-> "clean"]
    BY <1>1
  <1> HIDE DEF a
  <1>3. b = [pc |-> pc, wg |-> w, frr |-> Absent, got |-> {}, run |-> "clean"]
    BY <1>2
  <1> HIDE DEF b
  <1>4. c = [pc |-> pc, wg |-> w, frr |-> f, got |-> {}, run |-> "clean"]
    BY <1>3
  <1>5. [Idle EXCEPT !.pc = pc, !.wg = w, !.frr = f] = c
    BY DEF a, b
  <1>6. QED
    BY <1>4, <1>5

LEMMA StartStepKeeps ==
    ASSUME IInv, NEW p \in Proc, Start(p)
    PROVE  IInv'
  <1> DEFINE l == Ledgers[version]
             c == [Idle EXCEPT !.pc = "wg conf", !.wg = WireGuardConf(l),
                               !.frr = FRRConf(l)]
             d == [pc |-> "wg conf", wg |-> WireGuardConf(l), frr |-> FRRConf(l),
                   got |-> {}, run |-> "clean"]
  <1>1. version \in DOMAIN Ledgers /\ Startable(l)
    BY DEF Start, IInv, TypeOK
  <1>2. c = d
    BY Beginning
  <1>3. WireGuardConf(l) \in WgConf /\ FRRConf(l) \in FrrConf
    BY <1>1, RenderedTypes
  <1>4. d \in Command /\ d.pc = "wg conf" /\ d.wg = WireGuardConf(l)
        /\ d.frr = FRRConf(l)
    BY <1>3 DEF Command, Starting
  <1>5. version \in 1 .. version
    BY <1>1, LedgersAssumption
  <1>6. Rendered(version, d.wg, d.frr)
    BY <1>1, <1>4, <1>5 DEF Rendered
  <1>7. Begin(p, d) /\ UNCHANGED <<version, files, devices, frr>>
    BY <1>2 DEF Start
  <1> HIDE DEF d
  <1>8. QED
    BY <1>4, <1>6, <1>7, BeginKeeps

LEMMA StopKeeps ==
    ASSUME IInv, NEW p \in Proc, Stop(p)
    PROVE  IInv'
  <1> DEFINE d == [pc |-> "vtysh", wg |-> Absent, frr |-> Absent, got |-> {},
                   run |-> "clean"]
  <1>1. [Idle EXCEPT !.pc = "vtysh"] = d
    BY DEF Idle
  <1>2. d \in Command /\ d.pc = "vtysh"
    BY DEF Command, Stopping
  <1>3. Begin(p, d) /\ UNCHANGED <<version, files, devices, frr>>
    BY <1>1 DEF Stop
  <1> HIDE DEF d
  <1>4. QED
    BY <1>2, <1>3, BeginKeeps

-----------------------------------------------------------------------------
(* The steps of stop *)

\* Behind vtysh FRR announces nothing, unless the host was disturbed.
LEMMA NothingAnnounced ==
    ASSUME IInv, NEW p \in Proc, cmd[p].pc \in Stopping \ {"vtysh"}, ~ disturbed
    PROVE  frr = Absent
  <1>1. cmd[p].pc # "idle" /\ Undisturbed(p)
    BY DEF Undisturbed, Stopping
  <1>2. Reached(cmd[p])
    BY <1>1 DEF IInv, Progress
  <1>3. QED
    BY <1>2 DEF Reached

LEMMA VtyshStep ==
    ASSUME IInv, NEW p \in Proc, Vtysh(p)
    PROVE  IInv'
  <1>1. /\ cmd[p].pc = "vtysh" /\ Move(p, "vxlan del")
        /\ frr' = Absent /\ frrFile' = Absent
        /\ UNCHANGED <<version, wgFile, wg, vxlan, bridge, disturbed>>
    BY DEF Vtysh, devices
  <1>2. AnnouncesOverDataPlane'
    BY <1>1 DEF AnnouncesOverDataPlane
  <1>3. GoesOn(p, "vxlan del", {}, cmd[p].run) => Reached(cmd[p])'
    BY <1>1
       DEF Reached, GoesOn, AfterWg, AfterVxlan, AfterBridge, AfterMaster, Stopping
  <1>4. QED
    BY <1>1, <1>2, <1>3, DeviceTypes, Succeeding DEF Stopping, Starting

LEMMA VtyshFailsStep ==
    ASSUME IInv, NEW p \in Proc, VtyshFails(p)
    PROVE  IInv'
  <1>1. /\ cmd[p].pc = "vtysh" /\ Move(p, "vxlan del")
        /\ frr' \in {frr, Absent} /\ disturbed' = TRUE
        /\ UNCHANGED <<version, wgFile, frrFile, wg, vxlan, bridge>>
    BY DEF VtyshFails, files, devices
  <1>2. GoesOn(p, "vxlan del", {}, cmd[p].run)
    BY <1>1, Moving DEF IInv, Stopping
  <1>3. TypeOK'
    BY <1>1, <1>2 DEF IInv, TypeOK, GoesOn, OnlyMoves
  <1>4. SourcesOK'
    <2>1. wg' # Absent => PeersOK(version, wg'.peers)
      BY <1>1, DeviceTypes
    <2>2. QED
      BY <1>1, <1>2, <2>1, SourcesStay DEF GoesOn, Starting
  <1>5. Progress'
    <2>1. ASSUME Undisturbed(p)' PROVE Undisturbed(p)
      BY <1>1, <1>2, <2>1 DEF Undisturbed, GoesOn
    <2>2. Reached(cmd[p])'
      BY <1>1, <1>2
         DEF Reached, GoesOn, AfterWg, AfterVxlan, AfterBridge, AfterMaster, Stopping
    <2>3. QED
      BY <1>1, <1>2, <2>1, <2>2, MoveKeepsProgress DEF GoesOn
  <1>6. AnnouncesOverDataPlane'
    BY <1>1 DEF AnnouncesOverDataPlane
  <1>7. QED
    BY <1>3, <1>4, <1>5, <1>6 DEF IInv

\* A deletion that is tried, and done or not.
LEMMA Deleting ==
    ASSUME IInv, NEW p \in Proc, NEW pc \in {"bridge del", "wg down"}, Move(p, pc),
           cmd[p].pc \in {"vxlan del", "bridge del"},
           UNCHANGED <<version, files, wg, frr, disturbed>>,
           vxlan' \in Vxlan \cup {Absent}, bridge' \in Bridge \cup {Absent}
    PROVE  IInv'
  <1>1. ~ disturbed => frr = Absent
    BY NothingAnnounced DEF Stopping
  <1>2. AnnouncesOverDataPlane'
    BY <1>1 DEF AnnouncesOverDataPlane
  <1>3. GoesOn(p, pc, {}, cmd[p].run) => Reached(cmd[p])'
    BY <1>1
       DEF Reached, GoesOn, AfterWg, AfterVxlan, AfterBridge, AfterMaster, Stopping
  <1>4. QED
    BY <1>2, <1>3, DeviceTypes, Succeeding DEF Stopping, Starting, files

LEMMA DownTypes ==
    ASSUME IInv
    PROVE  /\ Down(vxlan) \in Vxlan \cup {Absent}
           /\ Down(bridge) \in Bridge \cup {Absent}
           /\ Unbridged \in Vxlan \cup {Absent}
  <1>1. vxlan \in Vxlan \cup {Absent} /\ bridge \in Bridge \cup {Absent}
    BY DeviceTypes
  <1>2. Down(vxlan) \in Vxlan \cup {Absent}
    BY <1>1 DEF Down, Vxlan
  <1>3. Down(bridge) \in Bridge \cup {Absent}
    BY <1>1 DEF Down, Bridge
  <1>4. Unbridged \in Vxlan \cup {Absent}
    <2>1. CASE vxlan = Absent
      BY <2>1 DEF Unbridged
    <2>2. CASE vxlan # Absent
      <3>1. vxlan \in Vxlan
        BY <1>1, <2>2
      <3> DEFINE d == [vxlan EXCEPT !.master = FALSE]
      <3>2. d \in Vxlan
        BY <3>1 DEF Vxlan
      <3> HIDE DEF d
      <3>3. [d EXCEPT !.knobs = FALSE] \in Vxlan
        BY <3>2 DEF Vxlan
      <3>4. Unbridged = [d EXCEPT !.knobs = FALSE]
        BY <2>2 DEF Unbridged, d
      <3>5. QED
        BY <3>3, <3>4
    <2>3. QED
      BY <2>1, <2>2
  <1>5. QED
    BY <1>2, <1>3, <1>4

LEMMA WgDownKeeps ==
    ASSUME IInv, NEW p \in Proc, cmd[p].pc = "wg down", End(p), wg' \in {wg, Absent},
           UNCHANGED <<version, files, vxlan, bridge, frr, disturbed>>
    PROVE  IInv'
  <1>1. ~ disturbed => frr = Absent
    BY NothingAnnounced DEF Stopping
  <1>2. AnnouncesOverDataPlane'
    BY <1>1 DEF AnnouncesOverDataPlane
  <1>3. QED
    BY <1>2, DeviceTypes, EndKeeps

LEMMA StopSteps ==
    ASSUME IInv, NEW p \in Proc,
           DelVxlan(p) \/ DelBridge(p) \/ WgDown(p) \/ StopFails(p)
    PROVE  IInv'
  <1>1. CASE DelVxlan(p)
    <2>1. bridge \in Bridge \cup {Absent}
      BY DeviceTypes
    <2>2. QED
      BY <1>1, <2>1, Deleting DEF DelVxlan
  <1>2. CASE DelBridge(p)
    <2>1. vxlan' \in Vxlan \cup {Absent}
      BY <1>2, DownTypes, DeviceTypes DEF DelBridge
    <2>2. QED
      BY <1>2, <2>1, Deleting DEF DelBridge
  <1>3. CASE WgDown(p)
    BY <1>3, WgDownKeeps DEF WgDown
  <1>4. CASE StopFails(p)
    <2>1. CASE cmd[p].pc = "vxlan del"
      <3>1. /\ vxlan' \in {vxlan, Down(vxlan)} /\ UNCHANGED bridge
            /\ Move(p, "bridge del")
            /\ UNCHANGED <<version, files, wg, frr, disturbed>>
        BY <1>4, <2>1 DEF StopFails
      <3>2. QED
        BY <2>1, <3>1, DownTypes, DeviceTypes, Deleting
    <2>2. CASE cmd[p].pc = "bridge del"
      <3>1. /\ bridge' \in {bridge, Down(bridge)} /\ UNCHANGED vxlan
            /\ Move(p, "wg down")
            /\ UNCHANGED <<version, files, wg, frr, disturbed>>
        BY <1>4, <2>2 DEF StopFails
      <3>2. QED
        BY <2>2, <3>1, DownTypes, DeviceTypes, Deleting
    <2>3. CASE cmd[p].pc = "wg down"
      BY <1>4, <2>3, WgDownKeeps DEF StopFails
    <2>4. QED
      BY <1>4, <2>1, <2>2, <2>3 DEF StopFails
  <1>5. QED
    BY <1>1, <1>2, <1>3, <1>4

-----------------------------------------------------------------------------
(* The steps of the host, and all of them together *)

LEMMA RebootStep == ASSUME IInv, Reboot PROVE IInv'
  <1>1. /\ wg' = Absent /\ vxlan' = Absent /\ bridge' = Absent /\ frr' = frrFile
        /\ cmd' = [p \in Proc |-> Idle] /\ disturbed' = TRUE
        /\ UNCHANGED <<version, wgFile, frrFile>>
    BY DEF Reboot, files
  <1>2. Idle \in Command /\ Idle.pc = "idle"
    BY DEF Idle, Command
  <1>3. TypeOK'
    BY <1>1, <1>2 DEF IInv, TypeOK
  <1>4. SourcesOK'
    BY <1>1, <1>2 DEF IInv, SourcesOK, Starting
  <1>5. Progress'
    BY <1>1, <1>2 DEF Progress
  <1>6. AnnouncesOverDataPlane'
    BY <1>1 DEF AnnouncesOverDataPlane
  <1>7. QED
    BY <1>3, <1>4, <1>5, <1>6 DEF IInv

\* What is rendered from an earlier ledger stays so.
LEMMA LedgerMovesStep == ASSUME IInv, LedgerMoves PROVE IInv'
  <1>1. /\ version < Len(Ledgers) /\ version' = version + 1
        /\ UNCHANGED <<wgFile, frrFile, wg, vxlan, bridge, frr, cmd, disturbed>>
    BY DEF LedgerMoves, files, devices
  <1>2. version' \in DOMAIN Ledgers /\ 1 .. version \subseteq 1 .. version'
    BY <1>1, LedgersAssumption DEF IInv, TypeOK
  <1>3. ASSUME NEW xs, PeersOK(version, xs) PROVE PeersOK(version', xs)
    BY <1>2, <1>3 DEF PeersOK
  <1>4. ASSUME NEW w, NEW f, Rendered(version, w, f) PROVE Rendered(version', w, f)
    BY <1>2, <1>4 DEF Rendered
  <1>5. TypeOK'
    BY <1>1, <1>2 DEF IInv, TypeOK
  <1>6. SourcesOK'
    BY <1>1, <1>3, <1>4 DEF IInv, SourcesOK
  <1>7. Progress' /\ AnnouncesOverDataPlane'
    BY <1>1
       DEF IInv, Progress, Reached, Alone, Undisturbed, AnnouncesOverDataPlane
  <1>8. QED
    BY <1>5, <1>6, <1>7 DEF IInv

LEMMA InitHolds == Init => IInv
  <1> SUFFICES ASSUME Init PROVE IInv
    OBVIOUS
  <1>1. Idle \in Command /\ Idle.pc = "idle"
    BY DEF Idle, Command
  <1>2. version \in DOMAIN Ledgers
    BY LedgersAssumption DEF Init
  <1>3. TypeOK
    BY <1>1, <1>2 DEF Init, TypeOK
  <1>4. SourcesOK
    BY <1>1 DEF Init, SourcesOK, Starting
  <1>5. Progress /\ AnnouncesOverDataPlane
    BY <1>1 DEF Init, Progress, AnnouncesOverDataPlane
  <1>6. QED
    BY <1>3, <1>4, <1>5 DEF IInv

LEMMA NextKeeps == IInv /\ [Next]_vars => IInv'
  <1> SUFFICES ASSUME IInv, [Next]_vars PROVE IInv'
    OBVIOUS
  <1>1. ASSUME NEW p \in Proc, StartStep(p) PROVE IInv'
    BY <1>1, StartStepKeeps, WriteWgConfStep, ProbeSteps, WgUpStep, StripStep,
       SyncConfStep, AddVxlanStep, AddBridgeStep, VxlanSteps, BridgeUpStep,
       WriteFrrConfStep, ReloadStep, FailSteps, WriteSomeStep DEF StartStep
  <1>2. ASSUME NEW p \in Proc, StopStep(p) PROVE IInv'
    BY <1>2, StopKeeps, VtyshStep, VtyshFailsStep, StopSteps DEF StopStep
  <1>3. ASSUME NEW p \in Proc, Crash(p) PROVE IInv'
    BY <1>3, FailSteps
  <1>4. CASE Reboot
    BY <1>4, RebootStep
  <1>5. CASE LedgerMoves
    BY <1>5, LedgerMovesStep
  <1>6. CASE UNCHANGED vars
    <2>1. UNCHANGED <<version, wgFile, frrFile, wg, vxlan, bridge, frr, cmd, disturbed>>
      BY <1>6 DEF vars, files, devices
    <2>2. QED
      BY <2>1 DEF IInv, TypeOK, SourcesOK, Progress, Reached, Alone, Undisturbed,
                  AnnouncesOverDataPlane
  <1>7. QED
    BY <1>1, <1>2, <1>3, <1>4, <1>5, <1>6 DEF Next

LEMMA Invariance == Spec => []IInv
  BY InitHolds, NextKeeps, PTL DEF Spec

-----------------------------------------------------------------------------
(* Theorems *)

\* Devices, files and processes keep their types: wg-quick, for one, never reads
\* a file that has not been written.
THEOREM TypeCorrect == Spec => []TypeOK
  <1>1. IInv => TypeOK
    BY DEF IInv
  <1>2. QED
    BY <1>1, Invariance, PTL

\* Whatever starts and stops overlap and fail, the peers of the interface are
\* other members of one ledger that start accepts.
THEOREM PeersFromOneLedger == Spec => []PeersOfOneLedger
  <1>1. IInv => PeersOfOneLedger
    <2> SUFFICES ASSUME IInv, wg # Absent PROVE PeersOfOneLedger
      BY DEF PeersOfOneLedger
    <2>1. PICK i \in 1 .. version : /\ Startable(Ledgers[i])
                                    /\ wg.peers \subseteq WireGuardConf(Ledgers[i]).peers
      BY DEF IInv, SourcesOK, PeersOK
    <2>2. ASSUME NEW x \in wg.peers
          PROVE  \E m \in Ledgers[i].members :
                     m.node # Self /\ x = [key |-> m.wg, host |-> m.ip.host]
      BY <2>1 DEF WireGuardConf, Others
    <2>3. QED
      BY <2>1, <2>2 DEF PeersOfOneLedger
  <1>2. QED
    BY <1>1, Invariance, PTL

\* And an overlay address leads to one key.
THEOREM AddressesLeadToOneKey == Spec => []OneKeyPerAddress
  <1>1. IInv => OneKeyPerAddress
    <2> SUFFICES ASSUME IInv, wg # Absent,
                        NEW x \in wg.peers, NEW y \in wg.peers, x.host = y.host
                 PROVE  x = y
      BY DEF OneKeyPerAddress
    <2>1. PICK i \in 1 .. version : /\ Startable(Ledgers[i])
                                    /\ wg.peers \subseteq WireGuardConf(Ledgers[i]).peers
      BY DEF IInv, SourcesOK, PeersOK
    <2>2. QED
      BY <2>1, UniqueKeys DEF Startable
  <1>2. QED
    BY <1>1, Invariance, PTL

\* On a host that is not disturbed FRR announces peers only over a data plane.
THEOREM AnnouncesOnlyOverDataPlane == Spec => []AnnouncesOverDataPlane
  <1>1. IInv => AnnouncesOverDataPlane
    BY DEF IInv
  <1>2. QED
    BY <1>1, Invariance, PTL

\* A start that succeeds alone configures both planes, whatever it found.
THEOREM StartConfigures == Spec => SuccessConfigures
  <1>1. IInv => (\A p \in Proc : Succeeds(p) => Configures(cmd[p]))
    <2> SUFFICES ASSUME IInv, NEW p \in Proc, Succeeds(p) PROVE Configures(cmd[p])
      OBVIOUS
    <2>1. Reload(p) /\ Undisturbed(p) /\ cmd[p].run = "clean"
      BY DEF Succeeds, Undisturbed
    <2>2. /\ wg # Absent /\ wg.peers \in Installed(cmd[p].wg.peers)
          /\ frrFile = cmd[p].frr
          /\ vxlan # Absent /\ vxlan.master /\ vxlan.knobs /\ vxlan.up
          /\ bridge # Absent /\ bridge.up
      BY <2>1, AtReload
    <2>3. frr' = frrFile /\ UNCHANGED <<frrFile, wg, vxlan, bridge>>
      BY <2>1 DEF Reload, files, devices
    <2>4. QED
      BY <2>2, <2>3 DEF Configures
  <1>2. QED
    BY <1>1, Invariance, PTL DEF SuccessConfigures
-----------------------------------------------------------------------------
(* What it comes to *)

\* No other process is there, or comes.
Solo(p) == \A q \in Proc \ {p} : cmd[q].pc = "idle" /\ cmd'[q].pc = "idle"

\* What the process p works with is whole: the file is what p has written by
\* the time wg-quick reads it, and so is what it has stripped.  Progress says so
\* of a clean run; where there is only one process it holds of any.
Whole(p) ==
    /\ cmd[p].pc \in {"wg?", "wg up", "strip"} => wgFile = cmd[p].wg
    /\ cmd[p].pc = "sync" => cmd[p].got = cmd[p].wg.peers

\* What the start of p has read, what a start would read, what is configured.
Taken(p) == IF cmd[p].pc \in Starting THEN {cmd[p].wg.peers} ELSE {}

Offered ==
    IF Startable(Ledgers[version])
    THEN {WireGuardConf(Ledgers[version]).peers} ELSE {}

InPlace == IF wg = Absent THEN {} ELSE {wg.peers}

\* The mapping of Promise, where p is solo.
LEMMA TakenIs ==
    ASSUME NEW p \in Proc, Solo(p)
    PROVE  /\ {cmd[q].wg.peers : q \in {q \in Proc : cmd[q].pc \in Starting}}
                = Taken(p)
           /\ {cmd[q].wg.peers : q \in {q \in Proc : cmd[q].pc \in Starting}}'
                = Taken(p)'
  <1>1. "idle" \notin Starting
    BY DEF Starting
  <1>2. /\ {q \in Proc : cmd[q].pc \in Starting} = {q \in {p} : cmd[q].pc \in Starting}
        /\ {q \in Proc : cmd'[q].pc \in Starting}
             = {q \in {p} : cmd'[q].pc \in Starting}
    BY <1>1 DEF Solo
  <1>3. QED
    BY <1>2 DEF Taken

\* A step that leaves the ledger and the interface alone, of a start that goes
\* on or ends or of a stop, keeps the promise.
LEMMA Quiet ==
    ASSUME NEW p \in Proc, Solo(p), UNCHANGED <<version, wg>>,
           cmd'[p].pc \in Starting =>
               cmd[p].pc \in Starting /\ cmd'[p].wg = cmd[p].wg
    PROVE  [Promise!Next]_(Promise!vars)
  <1>1. UNCHANGED <<Offered, InPlace>>
    BY DEF Offered, InPlace
  <1>2. CASE cmd'[p].pc \in Starting
    <2>1. UNCHANGED Taken(p)
      BY <1>2 DEF Taken
    <2>2. QED
      BY <1>1, <2>1, TakenIs DEF Promise!vars, Offered, InPlace
  <1>3. CASE cmd'[p].pc \notin Starting
    <2>1. Taken(p)' = {}
      BY <1>3 DEF Taken
    <2>2. Promise!Leave
      BY <1>1, <2>1, TakenIs DEF Promise!Leave, Offered, InPlace
    <2>3. QED
      BY <2>2 DEF Promise!Next
  <1>4. QED
    BY <1>2, <1>3

\* Nothing is configured any more, and no start is under way.
LEMMA Gone ==
    ASSUME NEW p \in Proc, Solo(p), UNCHANGED version, wg' = Absent,
           cmd'[p].pc \notin Starting
    PROVE  [Promise!Next]_(Promise!vars)
  <1>1. UNCHANGED Offered /\ InPlace' = {} /\ Taken(p)' = {}
    BY DEF Offered, InPlace, Taken
  <1>2. Promise!Down
    BY <1>1, TakenIs DEF Promise!Down, Offered, InPlace
  <1>3. QED
    BY <1>2 DEF Promise!Next

\* What the start has read reaches the interface.
LEMMA Applied ==
    ASSUME NEW p \in Proc, Solo(p), UNCHANGED version, cmd[p].pc \in Starting,
           wg' # Absent, wg'.peers \in Installed(cmd[p].wg.peers),
           cmd'[p].pc \in Starting, cmd'[p].wg = cmd[p].wg
    PROVE  [Promise!Next]_(Promise!vars)
  <1>1. /\ UNCHANGED Offered /\ Taken(p) = {cmd[p].wg.peers}
        /\ InPlace' = {wg'.peers} /\ Taken(p)' = Taken(p)
    BY DEF Offered, InPlace, Taken
  <1>2. \E x \in Taken(p) : \E y \in Installed(x) : InPlace' = {y}
    BY <1>1
  <1>3. Promise!Apply
    BY <1>1, <1>2, TakenIs DEF Promise!Apply, Offered, InPlace
  <1>4. QED
    BY <1>3 DEF Promise!Next

\* p goes on with a start, behind the commands that Whole is about.
LEMMA WholeBehind ==
    ASSUME NEW p, cmd'[p].pc \notin {"wg?", "wg up", "strip", "sync"}
    PROVE  Whole(p)'
  BY DEF Whole

\* Commands that only move on, or end.
LEMMA AloneMoves ==
    ASSUME NEW p \in Proc, Solo(p), IInv, UNCHANGED <<version, wg>>,
           \/ End(p)
           \/ \E pc \in (Starting \cup Stopping) \ {"wg?", "wg up", "strip", "sync"} :
                /\ Move(p, pc) \/ Warn(p, pc)
                /\ pc \in Starting => cmd[p].pc \in Starting
    PROVE  Whole(p)' /\ [Promise!Next]_(Promise!vars)
  <1>1. CASE End(p)
    <2>1. cmd'[p].pc = "idle"
      BY <1>1, Ending DEF IInv
    <2>2. QED
      BY <2>1, Quiet, WholeBehind DEF Starting
  <1>2. ASSUME NEW pc \in (Starting \cup Stopping) \ {"wg?", "wg up", "strip", "sync"},
               Move(p, pc) \/ Warn(p, pc), pc \in Starting => cmd[p].pc \in Starting
        PROVE  Whole(p)' /\ [Promise!Next]_(Promise!vars)
    <2>1. cmd'[p].pc = pc /\ cmd'[p].wg = cmd[p].wg
      BY <1>2, Moving, GoingOn DEF IInv, GoesOn
    <2>2. QED
      BY <1>2, <2>1, Quiet, WholeBehind
  <1>3. QED
    BY <1>1, <1>2

\* The commands that write, read and strip the file, and hand it over.
LEMMA AloneConfigures ==
    ASSUME NEW p \in Proc, Solo(p), IInv, Whole(p),
           WriteWgConf(p) \/ ProbeWg(p) \/ WgUp(p) \/ Strip(p) \/ SyncConf(p)
    PROVE  Whole(p)' /\ [Promise!Next]_(Promise!vars)
  <1>1. CASE WriteWgConf(p)
    <2>1. /\ cmd[p].pc = "wg conf" /\ Move(p, "wg?") /\ wgFile' = cmd[p].wg
          /\ UNCHANGED <<version, wg>>
      BY <1>1 DEF WriteWgConf, devices
    <2>2. cmd'[p].pc = "wg?" /\ cmd'[p].wg = cmd[p].wg
      BY <2>1, Moving DEF IInv, GoesOn, Starting
    <2>3. QED
      BY <2>1, <2>2, Quiet DEF Whole, Starting
  <1>2. CASE ProbeWg(p)
    <2>1. PICK pc \in {"wg up", "strip"} :
              /\ cmd[p].pc = "wg?" /\ Move(p, pc)
              /\ UNCHANGED <<version, wg, wgFile>>
      BY <1>2 DEF ProbeWg, devices, files
    <2>2. cmd'[p].pc = pc /\ cmd'[p].wg = cmd[p].wg
      BY <2>1, Moving DEF IInv, GoesOn, Starting
    <2>3. QED
      BY <2>1, <2>2, Quiet DEF Whole, Starting
  <1>3. CASE WgUp(p)
    <2>1. PICK xs \in Installed(wgFile.peers) :
              /\ cmd[p].pc = "wg up" /\ Move(p, "vxlan?")
              /\ wg' = [wgFile EXCEPT !.peers = xs]
              /\ UNCHANGED version
      BY <1>3 DEF WgUp
    <2>2. cmd'[p].pc = "vxlan?" /\ cmd'[p].wg = cmd[p].wg
      BY <2>1, Moving DEF IInv, GoesOn, Starting
    <2>3. wg' # Absent /\ wg'.peers \in Installed(cmd[p].wg.peers)
      <3>1. wgFile \in WgConf /\ wgFile = cmd[p].wg
        BY <2>1, StartFacts DEF Whole, Starting
      <3>2. wg' \in WgConf
        BY <2>1, <3>1, InstalledFewer
      <3>3. wg'.peers = xs
        BY <2>1, <3>1 DEF WgConf
      <3>4. QED
        BY <2>1, <3>1, <3>2, <3>3, AbsentAssumption
    <2>4. QED
      BY <2>1, <2>2, <2>3, Applied, WholeBehind DEF Starting
  <1>4. CASE Strip(p)
    <2>1. /\ cmd[p].pc = "strip" /\ UNCHANGED <<version, wg>>
          /\ Goto(p, [cmd[p] EXCEPT !.pc = "sync", !.got = wgFile.peers])
      BY <1>4 DEF Strip, devices
    <2>2. wgFile = cmd[p].wg /\ wgFile.peers \in SUBSET Peer
      BY <2>1, StartFacts DEF Whole, Starting, WgConf
    <2>3. /\ cmd'[p].pc = "sync" /\ cmd'[p].wg = cmd[p].wg
          /\ cmd'[p].got = wgFile.peers
      BY <2>1, <2>2, GoingOn DEF IInv, GoesOn, Starting
    <2>4. QED
      BY <2>1, <2>2, <2>3, Quiet DEF Whole, Starting
  <1>5. CASE SyncConf(p)
    <2>1. PICK xs \in Installed(cmd[p].got) :
              /\ cmd[p].pc = "sync" /\ Move(p, "vxlan?") /\ wg # Absent
              /\ wg' = [wg EXCEPT !.peers = xs]
              /\ UNCHANGED version
      BY <1>5 DEF SyncConf, Possible
    <2>2. cmd'[p].pc = "vxlan?" /\ cmd'[p].wg = cmd[p].wg
      BY <2>1, Moving DEF IInv, GoesOn, Starting
    <2>3. wg' # Absent /\ wg'.peers \in Installed(cmd[p].wg.peers)
      <3>1. wg \in WgConf /\ xs \in SUBSET Peer
        BY <2>1, DeviceTypes, StartFacts DEF Starting, Installed
      <3>2. wg' \in WgConf /\ wg'.peers = xs
        BY <2>1, <3>1 DEF WgConf
      <3>3. QED
        BY <2>1, <3>2, AbsentAssumption DEF Whole
    <2>4. QED
      BY <2>1, <2>2, <2>3, Applied, WholeBehind DEF Starting
  <1>6. QED
    BY <1>1, <1>2, <1>3, <1>4, <1>5

\* A start reads what is offered; a stop takes nothing.
LEMMA AloneBegins ==
    ASSUME NEW p \in Proc, Solo(p), IInv, Start(p) \/ Stop(p)
    PROVE  Whole(p)' /\ [Promise!Next]_(Promise!vars)
  <1>1. Active(p) = {} /\ cmd[p].pc = "idle"
    BY DEF Active, Solo, Start, Stop, Begin
  <1>2. ASSUME NEW c, Begin(p, c) PROVE cmd'[p] = c
    BY <1>1, <1>2 DEF Begin
  <1>3. CASE Start(p)
    <2> DEFINE l == Ledgers[version]
               c == [Idle EXCEPT !.pc = "wg conf", !.wg = WireGuardConf(l),
                                 !.frr = FRRConf(l)]
    <2>1. Startable(l) /\ Begin(p, c) /\ UNCHANGED <<version, wg>>
      BY <1>3 DEF Start, devices
    <2>2. c.pc = "wg conf" /\ c.wg = WireGuardConf(l)
      BY Beginning
    <2> HIDE DEF c
    <2>3. cmd'[p].pc = "wg conf" /\ cmd'[p].wg = WireGuardConf(l)
      BY <1>2, <2>1, <2>2
    <2>4. Taken(p) = {} /\ Taken(p)' = Offered /\ Offered # {}
      BY <1>1, <2>1, <2>3 DEF Taken, Offered, Starting
    <2>5. UNCHANGED <<Offered, InPlace>>
      BY <2>1 DEF Offered, InPlace
    <2>6. Promise!Read
      BY <2>4, <2>5, TakenIs DEF Promise!Read, Offered, InPlace
    <2>7. QED
      BY <2>3, <2>6, WholeBehind DEF Promise!Next
  <1>4. CASE Stop(p)
    <2> DEFINE c == [Idle EXCEPT !.pc = "vtysh"]
    <2>1. Begin(p, c) /\ UNCHANGED <<version, wg>>
      BY <1>4 DEF Stop, devices
    <2>2. c.pc = "vtysh"
      BY DEF Idle
    <2> HIDE DEF c
    <2>3. cmd'[p].pc = "vtysh"
      BY <1>2, <2>1, <2>2
    <2>4. QED
      BY <2>1, <2>3, Quiet, WholeBehind DEF Starting
  <1>5. QED
    BY <1>3, <1>4

\* The commands of the data plane behind WireGuard, of FRR and of stop.
LEMMA AloneGoesOn ==
    ASSUME NEW p \in Proc, Solo(p), IInv,
           \/ ProbeVxlan(p) \/ AddVxlan(p) \/ ProbeBridge(p) \/ AddBridge(p)
           \/ SetMaster(p) \/ SetKnobs(p) \/ VxlanUp(p) \/ BridgeUp(p)
           \/ WriteFrrConf(p) \/ Reload(p) \/ HotReloadFails(p) \/ CommandFails(p)
           \/ Vtysh(p) \/ VtyshFails(p) \/ DelVxlan(p) \/ DelBridge(p)
           \/ StopFails(p) \/ Crash(p)
    PROVE  Whole(p)' /\ [Promise!Next]_(Promise!vars)
  <1>1. UNCHANGED <<version, wg>>
    BY DEF ProbeVxlan, AddVxlan, ProbeBridge, AddBridge, SetMaster, SetKnobs, VxlanUp,
           BridgeUp, WriteFrrConf, Reload, HotReloadFails, CommandFails, Vtysh,
           VtyshFails, DelVxlan, DelBridge, StopFails, Crash, devices
  <1>2. CASE \/ ProbeVxlan(p) \/ AddVxlan(p) \/ ProbeBridge(p) \/ AddBridge(p)
             \/ SetMaster(p) \/ SetKnobs(p) \/ VxlanUp(p) \/ BridgeUp(p)
             \/ WriteFrrConf(p) \/ HotReloadFails(p)
    <2>1. \E pc \in Starting \ {"wg?", "wg up", "strip", "sync"} :
              (Move(p, pc) \/ Warn(p, pc)) /\ cmd[p].pc \in Starting
      BY <1>2
         DEF ProbeVxlan, AddVxlan, ProbeBridge, AddBridge, SetMaster, SetKnobs, VxlanUp,
             BridgeUp, WriteFrrConf, HotReloadFails, Starting
    <2>2. QED
      BY <1>1, <2>1, AloneMoves
  <1>3. CASE Vtysh(p) \/ VtyshFails(p) \/ DelVxlan(p) \/ DelBridge(p) \/ StopFails(p)
    <2>1. End(p) \/ \E pc \in {"vxlan del", "bridge del", "wg down"} : Move(p, pc)
      BY <1>3 DEF Vtysh, VtyshFails, DelVxlan, DelBridge, StopFails
    <2>2. QED
      BY <1>1, <2>1, AloneMoves DEF Starting, Stopping
  <1>4. CASE Reload(p) \/ CommandFails(p) \/ Crash(p)
    <2>1. End(p)
      BY <1>4 DEF Reload, CommandFails, Crash
    <2>2. QED
      BY <1>1, <2>1, AloneMoves
  <1>5. QED
    BY <1>2, <1>3, <1>4

\* What is written of a file is not read: p is not there yet, or dies.
LEMMA AloneWrites ==
    ASSUME NEW p \in Proc, Solo(p), IInv, WriteSome(p)
    PROVE  Whole(p)' /\ [Promise!Next]_(Promise!vars)
  <1>1. /\ cmd[p].pc \in {"wg conf", "frr conf"} /\ UNCHANGED <<version, wg>>
        /\ UNCHANGED cmd \/ End(p)
    BY DEF WriteSome, devices
  <1>2. CASE UNCHANGED cmd
    BY <1>1, <1>2, Quiet, WholeBehind
  <1>3. CASE End(p)
    BY <1>1, <1>3, AloneMoves
  <1>4. QED
    BY <1>1, <1>2, <1>3

\* The last command of stop takes the overlay down.
LEMMA AloneGoesDown ==
    ASSUME NEW p \in Proc, Solo(p), IInv, WgDown(p)
    PROVE  Whole(p)' /\ [Promise!Next]_(Promise!vars)
  <1>1. UNCHANGED version /\ wg' = Absent /\ cmd'[p].pc = "idle"
    BY Ending DEF WgDown, IInv
  <1>2. QED
    BY <1>1, Gone, WholeBehind DEF Starting

\* All of them: the steps of a process that works with what is whole.
LEMMA AloneKeeps ==
    ASSUME NEW p \in Proc, Solo(p), IInv, Whole(p),
           StartStep(p) \/ StopStep(p) \/ Crash(p)
    PROVE  Whole(p)' /\ [Promise!Next]_(Promise!vars)
  <1>1. CASE StartStep(p)
    BY <1>1, AloneBegins, AloneConfigures, AloneGoesOn, AloneWrites DEF StartStep
  <1>2. CASE StopStep(p)
    BY <1>2, AloneBegins, AloneGoesOn, AloneGoesDown DEF StopStep
  <1>3. QED
    BY <1>1, <1>2, AloneGoesOn

\* A start would configure peers.
OfferedOK == Offered \in Promise!Optional

LEMMA OfferedTypes == IInv => OfferedOK
  <1> SUFFICES ASSUME IInv, Startable(Ledgers[version])
               PROVE  WireGuardConf(Ledgers[version]).peers \in SUBSET Peer
    BY DEF OfferedOK, Offered, Promise!Optional
  <1>1. WireGuardConf(Ledgers[version]) \in WgConf
    BY RenderedTypes DEF IInv, TypeOK
  <1>2. QED
    BY <1>1 DEF WgConf

\* Another ledger is another offer, and a reboot takes all of it down; these and
\* stuttering concern no process.
LEMMA HostKeeps ==
    ASSUME OfferedOK', LedgerMoves \/ Reboot \/ UNCHANGED vars
    PROVE  [Promise!Next]_(Promise!vars)
  <1> DEFINE All == {cmd[p].wg.peers : p \in {q \in Proc : cmd[q].pc \in Starting}}
  <1>1. CASE LedgerMoves
    <2>1. UNCHANGED <<All, InPlace>>
      BY <1>1 DEF LedgerMoves, files, devices, InPlace
    <2>2. Promise!Offer
      BY <2>1 DEF Promise!Offer, OfferedOK, Offered, InPlace, Promise!Optional
    <2>3. QED
      BY <2>2 DEF Promise!Next
  <1>2. CASE Reboot
    <2>1. \A p \in Proc : cmd'[p].pc \notin Starting
      BY <1>2 DEF Reboot, Idle, Starting
    <2>2. UNCHANGED Offered /\ InPlace' = {} /\ All' = {}
      BY <1>2, <2>1 DEF Reboot, Offered, InPlace
    <2>3. Promise!Down
      BY <2>2 DEF Promise!Down, Offered, InPlace
    <2>4. QED
      BY <2>3 DEF Promise!Next
  <1>3. CASE UNCHANGED vars
    <2>1. UNCHANGED <<Offered, All, InPlace>>
      BY <1>3 DEF vars, devices, Offered, InPlace
    <2>2. QED
      BY <2>1 DEF Promise!vars, Offered, InPlace
  <1>4. QED
    BY <1>1, <1>2, <1>3

LEMMA AloneRefines ==
    ASSUME NEW p, Proc = {p}, IInv, Whole(p), OfferedOK', [Next]_vars
    PROVE  Whole(p)' /\ [Promise!Next]_(Promise!vars)
  <1>1. CASE StartStep(p) \/ StopStep(p) \/ Crash(p)
    BY <1>1, AloneKeeps DEF Solo
  <1>2. CASE LedgerMoves \/ UNCHANGED vars
    <2>1. UNCHANGED <<wgFile, cmd>>
      BY <1>2 DEF LedgerMoves, vars, files
    <2>2. QED
      BY <1>2, <2>1, HostKeeps DEF Whole
  <1>3. CASE Reboot
    <2>1. cmd'[p].pc = "idle"
      BY <1>3 DEF Reboot, Idle
    <2>2. QED
      BY <1>3, <2>1, HostKeeps, WholeBehind
  <1>4. QED
    BY <1>1, <1>2, <1>3 DEF Next

-----------------------------------------------------------------------------
(* Processes that do not overlap *)

\* A step of a process that is under way moves no other.
LEMMA ActiveMovesAlone ==
    ASSUME IInv, NEW p \in Proc, cmd[p].pc # "idle",
           StartStep(p) \/ StopStep(p) \/ Crash(p),
           NEW q \in Proc \ {p}
    PROVE  cmd'[q] = cmd[q]
  <1>1. UNCHANGED cmd \/ \E c : Goto(p, c)
    BY DEF StartStep, Start, WriteWgConf, ProbeWg, WgUp, Strip, SyncConf, ProbeVxlan,
           AddVxlan, ProbeBridge, AddBridge, SetMaster, SetKnobs, VxlanUp, BridgeUp,
           WriteFrrConf, Reload, HotReloadFails, CommandFails, WriteSome, StopStep,
           Stop, Vtysh, DelVxlan, DelBridge, WgDown, VtyshFails, StopFails, Crash,
           Begin, Move, Warn, End
  <1>2. QED
    BY <1>1 DEF Goto, IInv, TypeOK

\* What an idle process can do is begin, and it overlaps with nothing if it
\* spoils nothing.
LEMMA IdleBegins ==
    ASSUME IInv, NEW p \in Proc, cmd[p].pc = "idle",
           StartStep(p) \/ StopStep(p) \/ Crash(p), ~ Spoiling'
    PROVE  Solo(p)
  <1>1. \E c : Begin(p, c)
    BY DEF StartStep, Start, WriteWgConf, ProbeWg, WgUp, Strip, SyncConf, ProbeVxlan,
           AddVxlan, ProbeBridge, AddBridge, SetMaster, SetKnobs, VxlanUp, BridgeUp,
           WriteFrrConf, Reload, HotReloadFails, CommandFails, WriteSome, StopStep,
           Stop, Vtysh, DelVxlan, DelBridge, WgDown, VtyshFails, StopFails, Crash,
           Possible
  <1>2. Active(p) = {}
    <2>1. SUFFICES ASSUME NEW q \in Active(p) PROVE FALSE
      OBVIOUS
    <2>2. q \in Proc /\ q # p /\ cmd[q] \in Command
      BY <2>1 DEF Active, IInv, TypeOK
    <2>3. cmd'[q] = Spoilt(cmd[q])
      BY <1>1, <2>1, <2>2 DEF Begin
    <2>4. cmd'[q].run = "spoilt"
      BY <2>2, <2>3, SpoiltIsCommand
    <2>5. QED
      BY <2>2, <2>4 DEF Spoiling
  <1>3. QED
    BY <1>1, <1>2 DEF Begin, Active, Solo

\* A clean run is solo and works with what is whole.
LEMMA CleanRun ==
    ASSUME IInv, NEW p \in Proc, StartStep(p) \/ StopStep(p) \/ Crash(p),
           ~ Spoiling, ~ Spoiling'
    PROVE  Solo(p) /\ Whole(p)
  <1>1. CASE cmd[p].pc = "idle"
    BY <1>1, IdleBegins DEF Whole
  <1>2. CASE cmd[p].pc # "idle"
    <2>1. cmd[p].run = "clean"
      BY DEF Spoiling, IInv, TypeOK, Command
    <2>2. Alone(p) /\ Reached(cmd[p])
      BY <1>2, <2>1 DEF IInv, Progress, Undisturbed
    <2>3. Solo(p)
      BY <1>2, <2>2, ActiveMovesAlone DEF Alone, Solo
    <2>4. QED
      BY <2>2, <2>3 DEF Reached, Whole
  <1>3. QED
    BY <1>1, <1>2

LEMMA ApartRefines ==
    ASSUME IInv, OfferedOK', [Next]_vars, ~ Spoiling, ~ Spoiling'
    PROVE  [Promise!Next]_(Promise!vars)
  <1>1. ASSUME NEW p \in Proc, StartStep(p) \/ StopStep(p) \/ Crash(p)
        PROVE  [Promise!Next]_(Promise!vars)
    BY <1>1, CleanRun, AloneKeeps
  <1>2. QED
    BY <1>1, HostKeeps DEF Next

LEMMA PromiseInit == Init => Promise!Init
  <1> SUFFICES ASSUME Init PROVE Promise!Init
    OBVIOUS
  <1>1. OfferedOK
    BY InitHolds, OfferedTypes
  <1>2. InPlace = {} /\ \A p \in Proc : cmd[p].pc \notin Starting
    BY DEF Init, Idle, Starting, InPlace
  <1>3. QED
    BY <1>1, <1>2 DEF Promise!Init, OfferedOK, Offered, InPlace, Promise!Optional

\* However many starts and stops there are, whatever fails and whenever the host
\* reboots: while no two of them have overlapped and none has warned, the peers
\* that are in place are replaced as a whole, by all those, and only those, of
\* the ledger that the start under way has read.
THEOREM ApartImplementsConfig == Spec => ImplementsApart
  <1>1. IInv /\ OfferedOK' /\ [Next]_vars
            => [Spoiling \/ Spoiling' \/ [Promise!Next]_(Promise!vars)]_vars
    BY ApartRefines
  <1>2. QED
    BY <1>1, PromiseInit, OfferedTypes, Invariance, PTL DEF Spec, ImplementsApart

\* One process after the other keeps the promise of PeerConfig throughout,
\* however commands fail, processes die and the host reboots.
THEOREM OverlayImplementsConfig ==
    ASSUME NEW p, Proc = {p}
    PROVE  Spec => Implements
  <1>1. Init => Whole(p)
    <2>1. Init => cmd[p].pc = "idle"
      BY DEF Init, Idle
    <2>2. QED
      BY <2>1 DEF Whole
  <1>2. IInv /\ Whole(p) /\ OfferedOK' /\ [Next]_vars
            => Whole(p)' /\ [Promise!Next]_(Promise!vars)
    BY AloneRefines
  <1>3. QED
    BY <1>1, <1>2, PromiseInit, OfferedTypes, Invariance, PTL
       DEF Spec, Implements, Promise!Spec
=============================================================================
