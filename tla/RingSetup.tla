----------------------------- MODULE RingSetup -----------------------------
(***************************************************************************)
(* How the devices of prima.cpp find together (llama_init_from_gpt_params, *)
(* common.cpp; the functions it calls, llama.cpp): start-up arguments,     *)
(* device infos and layer windows travel once round a ring of sockets; the *)
(* devices without a layer then leave it, or stay as forwarders where the  *)
(* next working device cannot be reached; and a STOP travels round what is *)
(* left.  A device has one PULL socket, so that messages keep their order  *)
(* from one sender only.                                                   *)
(***************************************************************************)
EXTENDS Integers, Sequences, FiniteSets

CONSTANTS
  NWorld,  \* params.n_world
  None     \* no device

ASSUME WorldAssumption == NWorld \in Nat /\ NWorld > 1

Ranks == 0 .. NWorld - 1

ASSUME NoneAssumption == None \notin Ranks

\* Mutant of Succ: the last device has no successor.
SuccUnwrapped(r) == r + 1

Succ(r) == (r + 1) % NWorld

Last == NWorld - 1

VARIABLES
  pc,        \* what a device does, or waits for
  auto,      \* auto_schedule, as far as the device knows
  working,   \* the devices with n_layer_window > 0, as far as the device knows
  flags,     \* the devices with is_forwarder = 1, as far as the device knows
  send_to,   \* where the send_socket of a device is connected
  signal_to, \* original_next_rank: where it passes the STOP on
  net,       \* the messages on their way from one device to another
  signals    \* the devices that have a STOP in their signal_socket

vars == <<pc, auto, working, flags, send_to, signal_to, net, signals>>
view == <<auto, working, flags>>

\* The devices whose infos were gathered are kept in the order in which they are gathered.
Messages ==
  [type : {"args"}, auto : BOOLEAN] \cup [type : {"ack"}] \cup [type : {"infos"}, ranks : Seq(Ranks)]
    \cup [type : {"setup"}, working : SUBSET Ranks] \cup [type : {"topo"}, flags : SUBSET Ranks]

\* A connected device has sent its start-up arguments (the master) or waits for them.
Init ==
  /\ pc = [r \in Ranks |-> IF r = 0 THEN "start" ELSE "args"]
  /\ auto \in {[r \in Ranks |-> r = 0 /\ a] : a \in BOOLEAN}
  /\ working = [r \in Ranks |-> {}]
  /\ flags = [r \in Ranks |-> {}]
  /\ send_to = [r \in Ranks |-> Succ(r)]
  /\ signal_to = [r \in Ranks |-> Succ(r)]
  /\ net = [from \in Ranks |-> [to \in Ranks |-> <<>>]]
  /\ signals = {}

-----------------------------------------------------------------------------
(* Messages                                                                *)

\* Device r finds a message of the type it waits for, from device s.
Received(r, s, type) == net[s][r] # <<>> /\ Head(net[s][r]).type = type

\* The messages after r has taken one from s (unless s is None), and sent some: a set of
\* [to, msg].
Exchanged(r, s, sent) ==
  [f \in Ranks |-> [t \in Ranks |->
     LET left == IF f = s /\ t = r THEN Tail(net[f][t]) ELSE net[f][t]
         new  == {x \in sent : f = r /\ x.to = t}
     IN  IF new = {} THEN left ELSE Append(left, (CHOOSE x \in new : TRUE).msg)]]

\* Mutant of Passed: the last device passes the message itself on.
PassedOn(r, s, msg) == Exchanged(r, s, {[to |-> send_to[r], msg |-> msg]})

\* r passes on what it got from s: msg to the next device, or an ACK at the end of the ring.
Passed(r, s, msg) ==
  Exchanged(r, s, {[to |-> send_to[r], msg |-> IF r = Last THEN [type |-> "ack"] ELSE msg]})

Go(r, next) == pc' = [pc EXCEPT ![r] = next]

-----------------------------------------------------------------------------
(* The three rounds                                                        *)

\* The master sends its arguments, waits for the ACK and starts the next round.
SendArgs ==
  /\ pc[0] = "start" /\ Go(0, "args_ack")
  /\ net' = Exchanged(0, None, {[to |-> send_to[0], msg |-> [type |-> "args", auto |-> auto[0]]]})
  /\ UNCHANGED <<view, send_to, signal_to, signals>>

PassArgs(r, s) ==
  /\ pc[r] = "args" /\ Received(r, s, "args")
  /\ auto' = [auto EXCEPT ![r] = Head(net[s][r]).auto]
  /\ net' = Passed(r, s, Head(net[s][r]))
  /\ Go(r, IF auto'[r] THEN "infos" ELSE "setup")
  /\ UNCHANGED <<working, flags, send_to, signal_to, signals>>

\* With auto_schedule every device adds its profile to those of the devices before it.
SendInfo(s) ==
  /\ pc[0] = "args_ack" /\ Received(0, s, "ack")
  /\ IF auto[0]
       THEN /\ Go(0, "infos")
            /\ net' = Exchanged(0, s, {[to |-> send_to[0], msg |-> [type |-> "infos", ranks |-> <<0>>]]})
       ELSE /\ Go(0, "assign") /\ net' = Exchanged(0, s, {})
  /\ UNCHANGED <<view, send_to, signal_to, signals>>

PassInfo(r, s) ==
  /\ r # 0 /\ pc[r] = "infos" /\ Received(r, s, "infos")
  /\ net' = Exchanged(r, s, {[to |-> send_to[r],
                              msg |-> [Head(net[s][r]) EXCEPT !.ranks = Append(@, r)]]})
  /\ Go(r, "setup")
  /\ UNCHANGED <<view, send_to, signal_to, signals>>

\* dev_info_set: the profiles must come in the order of the ranks.
GatherInfo(s) ==
  /\ pc[0] = "infos" /\ Received(0, s, "infos")
  /\ Go(0, IF Head(net[s][0]).ranks = [k \in 1 .. NWorld |-> k - 1] THEN "assign" ELSE "aborted")
  /\ net' = Exchanged(0, s, {})
  /\ UNCHANGED <<view, send_to, signal_to, signals>>

\* Mutant of SendSetup: the master does not wait for the ACK.
SendSetupNoAck(w) ==
  /\ pc[0] = "assign" /\ w # {} /\ (~auto[0] => w = Ranks)
  /\ working' = [working EXCEPT ![0] = w]
  /\ net' = Exchanged(0, None, {[to |-> send_to[0], msg |-> [type |-> "setup", working |-> w]]})
  /\ Go(0, IF auto[0] THEN "rebuild" ELSE "ready")
  /\ UNCHANGED <<auto, flags, send_to, signal_to, signals>>

\* Layers are assigned: to every device if the user says so, else to some.  The solver gives the
\* master one at least; the division without it may give it none.
SendSetup(w) ==
  /\ pc[0] = "assign" /\ w # {} /\ (~auto[0] => w = Ranks)
  /\ working' = [working EXCEPT ![0] = w]
  /\ net' = Exchanged(0, None, {[to |-> send_to[0], msg |-> [type |-> "setup", working |-> w]]})
  /\ Go(0, "setup_ack")
  /\ UNCHANGED <<auto, flags, send_to, signal_to, signals>>

PassSetup(r, s) ==
  /\ pc[r] = "setup" /\ Received(r, s, "setup")
  /\ working' = [working EXCEPT ![r] = Head(net[s][r]).working]
  /\ net' = Passed(r, s, Head(net[s][r]))
  /\ Go(r, IF auto[r] THEN "topo" ELSE "ready")
  /\ UNCHANGED <<auto, flags, send_to, signal_to, signals>>

EndSetup(s) ==
  /\ pc[0] = "setup_ack" /\ Received(0, s, "ack")
  /\ net' = Exchanged(0, s, {})
  /\ Go(0, IF auto[0] THEN "rebuild" ELSE "ready")
  /\ UNCHANGED <<view, send_to, signal_to, signals>>

-----------------------------------------------------------------------------
(* llama_rebuild_topo                                                      *)

\* The devices after r up to the next one that works, or all.
Following(r) ==
  {(r + d) % NWorld : d \in {d \in 1 .. Last : \A e \in 1 .. d - 1 : (r + e) % NWorld \notin working[r]}}

Alone(r) == Following(r) \cap working[r] = {}

\* Mutant of TellsNext: a device that leaves tells nobody.
TellsNobody(r, f) == FALSE

\* A device that leaves tells the next one, if that has to leave, too.
TellsNext(r, f) == Succ(r) \notin working[r] \cup f

\* Device r has the flags f and can open a connection to the devices in open; to its neighbour it
\* is connected.  It connects to the farthest it can, marks that one, and sends what it knows to
\* it, and to its neighbour when that one has to leave.
Rebuild(r, s, f, open) ==
  LET stays   == r \in working[r] \cup f
      dist(q) == (q - r) % NWorld
      far     == open \cup {Succ(r)}
      connect == CHOOSE q \in far : \A p \in far : dist(p) <= dist(q)
      f2      == IF stays /\ ~Alone(r) THEN f \cup {connect} ELSE f
      closes  == \/ stays /\ (Alone(r) \/ connect # Succ(r))
                 \/ ~stays /\ TellsNext(r, f)
      topo    == [type |-> "topo", flags |-> f2]
  IN  /\ open \subseteq IF stays /\ ~Alone(r) THEN Following(r) \ {Succ(r)} ELSE {}
      /\ net' = Exchanged(r, s,
                  (IF closes THEN {[to |-> send_to[r], msg |-> topo]} ELSE {}) \cup
                  (IF stays /\ ~Alone(r) THEN {[to |-> connect, msg |-> topo]} ELSE {}))
      /\ flags' = [flags EXCEPT ![r] = f2]
      /\ send_to' = [send_to EXCEPT ![r] = IF ~stays \/ Alone(r) THEN None ELSE connect]
      /\ signal_to' = [signal_to EXCEPT ![r] = IF stays /\ ~Alone(r) THEN connect ELSE @]
      /\ Go(r, IF closes /\ Succ(r) \in working[r] \cup f2 THEN "aborted"
               ELSE IF r \notin working[r] \cup f2 THEN "exit"
               ELSE IF Alone(r) THEN "ready" ELSE "view")
      /\ UNCHANGED <<auto, working, signals>>

RebuildFirst == pc[0] = "rebuild" /\ \E open \in SUBSET Ranks : Rebuild(0, None, {}, open)

RebuildNext(r, s) ==
  /\ pc[r] = "topo" /\ Received(r, s, "topo")
  /\ \E open \in SUBSET Ranks : Rebuild(r, s, Head(net[s][r]).flags, open)

\* Mutant of PassView: the last device passes the flags on to the master.
PassViewOn(r, s) ==
  /\ pc[r] = "view" /\ Received(r, s, "topo")
  /\ flags' = [flags EXCEPT ![r] = Head(net[s][r]).flags]
  /\ net' = Exchanged(r, s, {[to |-> send_to[r], msg |-> Head(net[s][r])]})
  /\ Go(r, "ready")
  /\ UNCHANGED <<auto, working, send_to, signal_to, signals>>

\* The flags of all devices, once round the new ring from the master.
PassView(r, s) ==
  /\ pc[r] = "view" /\ Received(r, s, "topo")
  /\ flags' = [flags EXCEPT ![r] = Head(net[s][r]).flags]
  /\ net' = Exchanged(r, s, IF send_to[r] = 0 THEN {} ELSE {[to |-> send_to[r], msg |-> Head(net[s][r])]})
  /\ Go(r, "ready")
  /\ UNCHANGED <<auto, working, send_to, signal_to, signals>>

-----------------------------------------------------------------------------
(* llama_free_sockets, with the ranks and the number of devices that are left *)

\* Mutant of Stays: forwarders are not counted.
StaysWorking(r, i) == i = 0 \/ i \in working[r]

\* A device that works or forwards.
Stays(r, i) == i = 0 \/ i \in working[r] \cup flags[r]

new_rank(r) == Cardinality({i \in 1 .. r : Stays(r, i)})

new_world(r) == Cardinality({i \in Ranks : Stays(r, i)})

\* Mutant of worker_rank: a worker does not count itself.
worker_rank_before(r) == Cardinality({i \in 1 .. r - 1 : i \in working[r]})

worker_rank(r) == Cardinality({i \in 1 .. r : i \in working[r]})

n_worker(r) == 1 + Cardinality({i \in Ranks \ {0} : i \in working[r]})

\* Mutant of StopTarget: the connection of before the new ring.
StopTargetOld(r) == Succ(r)

StopTarget(r) == signal_to[r]

SendStop ==
  /\ pc[0] = "ready"
  /\ IF new_world(0) = 1 THEN Go(0, "stopped") /\ UNCHANGED signals
                         ELSE Go(0, "stopping") /\ signals' = signals \cup {StopTarget(0)}
  /\ UNCHANGED <<view, send_to, signal_to, net>>

PassStop(r) ==
  /\ r \in signals /\ pc[r] = IF r = 0 THEN "stopping" ELSE "ready"
  /\ signals' = (signals \ {r}) \cup IF r = 0 THEN {} ELSE {StopTarget(r)}
  /\ Go(r, "stopped")
  /\ UNCHANGED <<view, send_to, signal_to, net>>

Device(r) ==
  \/ \E s \in Ranks :
       \/ PassArgs(r, s) \/ PassInfo(r, s) \/ PassSetup(r, s)
       \/ RebuildNext(r, s) \/ PassView(r, s)
       \/ r = 0 /\ (SendInfo(s) \/ GatherInfo(s) \/ EndSetup(s))
  \/ r = 0 /\ (SendArgs \/ (\E w \in SUBSET Ranks : SendSetup(w)) \/ RebuildFirst)
  \/ PassStop(r)

Next == SendStop \/ \E r \in Ranks : Device(r)

Spec == Init /\ [][Next]_vars

\* Every device goes on as long as it can; whether the master ever stops is left open.
FairSpec == Spec /\ \A r \in Ranks : WF_vars(Device(r))

-----------------------------------------------------------------------------
(* Properties                                                              *)

Settled(r) == pc[r] \in {"ready", "stopping", "stopped", "exit"}
AllSettled == \A r \in Ranks : Settled(r)
Left       == {r \in Ranks : pc[r] # "exit"}
MasterLeft == pc[0] = "exit"

\* Devices wait for one of the messages there are, know only devices of the ring, and no two
\* messages are ever on their way between the same two of them.
TypeOK ==
  /\ \A r \in Ranks : pc[r] \in {"start", "args", "args_ack", "infos", "assign", "setup", "setup_ack",
                                 "topo", "rebuild", "view", "ready", "exit", "stopping", "stopped",
                                 "aborted"}
  /\ \A r \in Ranks : working[r] \subseteq Ranks /\ flags[r] \subseteq Ranks
  /\ \A r \in Ranks : send_to[r] \in (Ranks \ {r}) \cup {None} /\ signal_to[r] \in Ranks \ {r}
  /\ \A r, s \in Ranks : net[r][s] \in Seq(Messages) /\ Len(net[r][s]) <= 1
  /\ signals \subseteq Ranks

\* The ACK, and the infos that come back, are barriers: when the master has them, every device
\* has got the message before.
Barriers ==
  /\ pc[0] \notin {"start", "args_ack"} => \A r \in Ranks : pc[r] # "args" /\ auto[r] = auto[0]
  /\ pc[0] \in {"assign", "setup_ack"} => \A r \in Ranks : pc[r] # "infos"
  /\ pc[0] \in {"rebuild", "view", "ready", "exit", "stopping", "stopped"} =>
       \A r \in Ranks : pc[r] # "setup" /\ working[r] = working[0]

\* What is left is one ring: every device that has a layer is in it, all count the same devices,
\* and along the connections the new ranks go up by one, from the master and back to it; the
\* STOP goes the same way.
OneRing ==
  AllSettled =>
    /\ working[0] \subseteq Left
    /\ \A r \in Left :
         /\ new_world(r) = Cardinality(Left)
         /\ Cardinality(Left) > 1 =>
              /\ send_to[r] \in Left /\ signal_to[r] = send_to[r]
              /\ new_rank(send_to[r]) = (new_rank(r) + 1) % new_world(r)

\* Exactly one working device takes itself for the last one, and only devices without a layer
\* follow it.
OneLastWorker ==
  AllSettled =>
    LET last == {r \in working[0] : worker_rank(r) = n_worker(r) - 1}
    IN  Cardinality(last) = 1 /\ \A r \in last, q \in working[0] : q <= r

\* Whatever arrives at a waiting device is what its assertions ask for.
AssertionsHold ==
  /\ \A r \in Ranks : pc[r] # "aborted"
  /\ \A r, s \in Ranks :
       net[s][r] # <<>> /\ ~Settled(r) =>
         Head(net[s][r]).type = CASE pc[r] \in {"args_ack", "setup_ack"} -> "ack"
                                  [] pc[r] = "view" -> "topo"
                                  [] OTHER -> pc[r]

\* No message of the set-up is left for the first decode.
NothingLeft == AllSettled => \A r, s \in Ranks : net[r][s] = <<>>

\* Every device gets its part in the ring, or is told to leave it, unless the master itself has
\* no layer and leaves.
EveryDeviceSettles == <>(AllSettled \/ MasterLeft)

\* "If there are weak devices ..., prima.cpp will automatically discover and remove them": whoever
\* has no layer leaves, and every other device gets its part in the ring.
OthersSettle == <>AllSettled

\* A STOP reaches every device that is left, and comes back.
StopGoesRound == pc[0] = "stopping" ~> \A r \in Left : pc[r] = "stopped"

=============================================================================
