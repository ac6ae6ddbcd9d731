-------------------------- MODULE RingSetup_proofs --------------------------
(***************************************************************************)
(* The set-up of the ring is right for every number of devices, every      *)
(* assignment of layers and all connections that can be opened.            *)
(*                                                                         *)
(* The rounds: one message goes round the ring; the devices before it have *)
(* done their part, those behind it wait for it, and the master waits for  *)
(* its end.                                                                *)
(*                                                                         *)
(* The rebuilding: it has come to device x.  Those of the new ring before  *)
(* x are connected to the next of it, those between were passed over and   *)
(* are told to leave one after the other, those from x on are untouched;   *)
(* after the last one the flags go once round.                             *)
(***************************************************************************)
EXTENDS RingSetup, FiniteSetTheorems, TLAPS

Others == Ranks \ {0}

\* The devices are in the rounds of the set-up, all connected in the order of the ranks.
NotRebuilt == send_to = [r \in Ranks |-> Succ(r)] /\ signals = {}

\* The only message is on its way to device k, or to the master after the last one.
AtIn(n, k, msg) == \A a, b \in Ranks : n[a][b] = IF a = k - 1 /\ b = k % NWorld THEN <<msg>> ELSE <<>>
At(k, msg)      == AtIn(net, k, msg)
NoMessageIn(n)  == \A a, b \in Ranks : n[a][b] = <<>>
NoMessage       == NoMessageIn(net)

Ack         == [type |-> "ack"]
ArgsMsg(k)  == IF k = NWorld THEN Ack ELSE [type |-> "args", auto |-> auto[0]]
InfosMsg(k) == [type |-> "infos", ranks |-> [i \in 1 .. k |-> i - 1]]
SetupMsg(k) == IF k = NWorld THEN Ack ELSE [type |-> "setup", working |-> working[0]]

AutoKnown == \A r \in Others : auto[r] = auto[0]

BeforeArgs == pc[0] = "start" /\ NotRebuilt /\ NoMessage /\ \A r \in Others : pc[r] = "args"

ArgsRound(k) ==
  /\ pc[0] = "args_ack" /\ NotRebuilt /\ At(k, ArgsMsg(k))
  /\ \A r \in Others : r < k => pc[r] = (IF auto[0] THEN "infos" ELSE "setup") /\ auto[r] = auto[0]
  /\ \A r \in Others : r >= k => pc[r] = "args"

InfosRound(k) ==
  /\ pc[0] = "infos" /\ auto[0] /\ NotRebuilt /\ AutoKnown /\ At(k, InfosMsg(k))
  /\ \A r \in Others : pc[r] = IF r < k THEN "setup" ELSE "infos"

BeforeSetup == pc[0] = "assign" /\ NotRebuilt /\ AutoKnown /\ NoMessage /\ \A r \in Others : pc[r] = "setup"

SetupRound(k) ==
  /\ pc[0] = "setup_ack" /\ NotRebuilt /\ AutoKnown /\ At(k, SetupMsg(k))
  /\ \A r \in Others : r < k => pc[r] = (IF auto[0] THEN "topo" ELSE "ready") /\ working[r] = working[0]
  /\ \A r \in Others : r >= k => pc[r] = "setup"

\* After the rounds a device never takes up a message of theirs again.
AfterRounds ==
  /\ \A r \in Ranks : pc[r] \in {"topo", "rebuild", "view", "ready", "exit", "stopping", "stopped", "aborted"}
  /\ AutoKnown
  /\ \A r \in Others : working[r] = working[0]

Rounds ==
  \/ BeforeArgs \/ BeforeSetup \/ AfterRounds
  \/ \E k \in 1 .. NWorld : ArgsRound(k) \/ InfosRound(k) \/ SetupRound(k)

Functions ==
  /\ pc = [r \in Ranks |-> pc[r]] /\ auto = [r \in Ranks |-> auto[r]]
  /\ working = [r \in Ranks |-> working[r]]

RoundInv == Functions /\ Rounds

-----------------------------------------------------------------------------
(* The message                                                             *)

LEMMA RankFacts ==
  /\ NWorld \in Nat /\ NWorld > 1 /\ 0 \in Ranks /\ Last \in Ranks /\ Last = NWorld - 1
  /\ \A r \in Ranks : r \in Nat /\ r < NWorld /\ Succ(r) \in Ranks /\ Succ(r) = (r + 1) % NWorld
  /\ \A r \in Others : r \in Nat /\ r > 0 /\ r <= Last /\ r \in Ranks
  /\ \A k \in 1 .. NWorld : /\ k \in Nat /\ k - 1 \in Ranks /\ k % NWorld \in Ranks /\ Succ(k - 1) = k % NWorld
                            /\ k < NWorld => k % NWorld = k /\ k \in Others
                            /\ k = NWorld => k % NWorld = 0
BY WorldAssumption DEF Ranks, Last, Succ, Others

\* A device finds the message at its end only.
LEMMA ReceivedAt ==
  ASSUME NEW k \in 1 .. NWorld, NEW msg, At(k, msg),
         NEW r \in Ranks, NEW s \in Ranks, NEW type, Received(r, s, type)
  PROVE  s = k - 1 /\ r = k % NWorld /\ msg.type = type /\ Head(net[s][r]) = msg
<1>1. net[s][r] = IF s = k - 1 /\ r = k % NWorld THEN <<msg>> ELSE <<>>
  BY DEF At, AtIn
<1>2. net[s][r] # <<>> /\ Head(net[s][r]).type = type
  BY DEF Received
<1>3. s = k - 1 /\ r = k % NWorld /\ net[s][r] = <<msg>>
  BY <1>1, <1>2
<1> QED
  BY <1>2, <1>3

LEMMA NothingReceived ==
  ASSUME NoMessage, NEW r \in Ranks, NEW s \in Ranks, NEW type
  PROVE  ~Received(r, s, type)
BY DEF NoMessage, NoMessageIn, Received

\* What is left at a place of the net after r has taken a message from s; one message sent.
Rest(s, r, a, b) == IF a = s /\ b = r THEN Tail(net[a][b]) ELSE net[a][b]
Letter(to, msg)  == {[to |-> to, msg |-> msg]}

\* What is taken and sent, at every place of the net.
LEMMA ExchangedOne ==
  ASSUME NEW r, NEW s, NEW to, NEW msg, net' = Exchanged(r, s, Letter(to, msg)),
         NEW a \in Ranks, NEW b \in Ranks
  PROVE  net'[a][b] = IF a = r /\ b = to THEN Append(Rest(s, r, a, b), msg) ELSE Rest(s, r, a, b)
<1> DEFINE new == {x \in Letter(to, msg) : a = r /\ x.to = b}
<1>1. net'[a][b] = IF new = {} THEN Rest(s, r, a, b)
                               ELSE Append(Rest(s, r, a, b), (CHOOSE x \in new : TRUE).msg)
  BY DEF Exchanged, Rest
<1>2. CASE a = r /\ b = to
  <2>1. new = {[to |-> to, msg |-> msg]}
    BY <1>2 DEF Letter
  <2> HIDE DEF new
  <2>2. new # {} /\ \A x \in new : x.msg = msg
    BY <2>1
  <2>3. (CHOOSE x \in new : TRUE) \in new
    BY <2>2, Zenon
  <2> QED
    BY <1>1, <1>2, <2>2, <2>3
<1>3. CASE ~(a = r /\ b = to)
  <2>1. new = {}
    BY <1>3 DEF Letter
  <2> QED
    BY <1>1, <1>3, <2>1
<1> QED
  BY <1>2, <1>3

LEMMA ExchangedNone ==
  ASSUME NEW r, NEW s, net' = Exchanged(r, s, {}), NEW a \in Ranks, NEW b \in Ranks
  PROVE  net'[a][b] = Rest(s, r, a, b)
BY DEF Exchanged, Rest

\* Where the message was, nothing is left.
LEMMA RestOfOne ==
  ASSUME NEW k \in 1 .. NWorld, NEW msg, At(k, msg), NEW a \in Ranks, NEW b \in Ranks
  PROVE  Rest(k - 1, k % NWorld, a, b) = <<>>
<1>1. net[a][b] = IF a = k - 1 /\ b = k % NWorld THEN <<msg>> ELSE <<>>
  BY DEF At, AtIn
<1>2. Tail(<<msg>>) = <<>>
  OBVIOUS
<1> QED
  BY <1>1, <1>2 DEF Rest

LEMMA OneAppended == \A msg : Append(<<>>, msg) = <<msg>>
OBVIOUS

\* A device takes the message and sends one to the next device.
LEMMA HandedOn ==
  ASSUME NEW k \in 1 .. NWorld, k < NWorld, NEW msg, At(k, msg), NEW next,
         net' = Exchanged(k, k - 1, Letter(Succ(k), next))
  PROVE  AtIn(net', k + 1, next)
<1> SUFFICES ASSUME NEW a \in Ranks, NEW b \in Ranks
             PROVE  net'[a][b] = IF a = (k + 1) - 1 /\ b = (k + 1) % NWorld THEN <<next>> ELSE <<>>
  BY DEF AtIn
<1>1. /\ k % NWorld = k /\ Succ(k) = (k + 1) % NWorld /\ (k + 1) - 1 = k
  BY RankFacts DEF Others
<1>2. Rest(k - 1, k, a, b) = <<>>
  BY <1>1, RestOfOne
<1>3. net'[a][b] = IF a = k /\ b = Succ(k) THEN Append(Rest(k - 1, k, a, b), next) ELSE Rest(k - 1, k, a, b)
  BY ExchangedOne
<1> QED
  BY <1>1, <1>2, <1>3, OneAppended

\* The master takes the message that has come round.
LEMMA TakenAtEnd ==
  ASSUME NEW msg, At(NWorld, msg), net' = Exchanged(0, Last, {})
  PROVE  NoMessageIn(net')
<1> SUFFICES ASSUME NEW a \in Ranks, NEW b \in Ranks
             PROVE  net'[a][b] = <<>>
  BY DEF NoMessageIn
<1>1. Last = NWorld - 1 /\ NWorld % NWorld = 0 /\ NWorld \in 1 .. NWorld
  BY RankFacts
<1>2. Rest(Last, 0, a, b) = <<>>
  BY <1>1, RestOfOne
<1> QED
  BY <1>2, ExchangedNone

\* The master takes the message that has come round and sends the next round's.
LEMMA TakenAndSent ==
  ASSUME NEW msg, At(NWorld, msg), NEW next, net' = Exchanged(0, Last, Letter(Succ(0), next))
  PROVE  AtIn(net', 1, next)
<1> SUFFICES ASSUME NEW a \in Ranks, NEW b \in Ranks
             PROVE  net'[a][b] = IF a = 1 - 1 /\ b = 1 % NWorld THEN <<next>> ELSE <<>>
  BY DEF AtIn
<1>1. /\ Last = NWorld - 1 /\ NWorld % NWorld = 0 /\ NWorld \in 1 .. NWorld
      /\ Succ(0) = 1 % NWorld /\ 1 - 1 = 0
  BY RankFacts
<1>2. Rest(Last, 0, a, b) = <<>>
  BY <1>1, RestOfOne
<1>3. net'[a][b] = IF a = 0 /\ b = Succ(0) THEN Append(Rest(Last, 0, a, b), next) ELSE Rest(Last, 0, a, b)
  BY ExchangedOne
<1> QED
  BY <1>1, <1>2, <1>3, OneAppended

\* The master sends the first message of a round.
LEMMA SentFirst ==
  ASSUME NoMessage, NEW next, net' = Exchanged(0, None, Letter(Succ(0), next))
  PROVE  AtIn(net', 1, next)
<1> SUFFICES ASSUME NEW a \in Ranks, NEW b \in Ranks
             PROVE  net'[a][b] = IF a = 1 - 1 /\ b = 1 % NWorld THEN <<next>> ELSE <<>>
  BY DEF AtIn
<1>1. Succ(0) = 1 % NWorld /\ 1 - 1 = 0
  BY RankFacts
<1>2. Rest(None, 0, a, b) = <<>>
  BY NoneAssumption DEF NoMessage, NoMessageIn, Rest
<1>3. net'[a][b] = IF a = 0 /\ b = Succ(0) THEN Append(Rest(None, 0, a, b), next) ELSE Rest(None, 0, a, b)
  BY ExchangedOne
<1> QED
  BY <1>1, <1>2, <1>3, OneAppended

-----------------------------------------------------------------------------
(* The steps                                                               *)

LEMMA FunctionsKept ==
  ASSUME Functions, [Next]_vars
  PROVE  Functions'
<1>1. ASSUME NEW r, NEW next, Go(r, next)
      PROVE  pc' = [q \in Ranks |-> pc'[q]]
  BY <1>1 DEF Go, Functions
<1>2. pc' = [q \in Ranks |-> pc'[q]]
  <2>1. CASE UNCHANGED vars
    BY <2>1 DEF vars, Functions
  <2>2. CASE SendStop
    BY <2>2, <1>1 DEF SendStop
  <2>3. ASSUME NEW r \in Ranks, Device(r)
        PROVE  pc' = [q \in Ranks |-> pc'[q]]
    <3>1. CASE \E s \in Ranks : PassArgs(r, s) \/ PassInfo(r, s) \/ PassSetup(r, s)
      BY <3>1, <1>1 DEF PassArgs, PassInfo, PassSetup
    <3>2. CASE \E s \in Ranks : RebuildNext(r, s) \/ PassView(r, s)
      BY <3>2, <1>1 DEF RebuildNext, Rebuild, PassView
    <3>3. CASE \E s \in Ranks : SendInfo(s) \/ GatherInfo(s) \/ EndSetup(s)
      BY <3>3, <1>1 DEF SendInfo, GatherInfo, EndSetup
    <3>4. CASE SendArgs \/ (\E w \in SUBSET Ranks : SendSetup(w)) \/ RebuildFirst
      BY <3>4, <1>1 DEF SendArgs, SendSetup, RebuildFirst, Rebuild
    <3>5. CASE PassStop(r)
      BY <3>5, <1>1 DEF PassStop
    <3> QED
      BY <2>3, <3>1, <3>2, <3>3, <3>4, <3>5 DEF Device
  <2> QED
    BY <2>1, <2>2, <2>3 DEF Next
<1>3. /\ SendStop \/ SendArgs \/ RebuildFirst => auto' = auto /\ working' = working
      /\ \A r \in Ranks : PassStop(r) => auto' = auto /\ working' = working
      /\ \A w : SendSetup(w) => auto' = auto
      /\ \A s \in Ranks : SendInfo(s) \/ GatherInfo(s) \/ EndSetup(s) => auto' = auto /\ working' = working
  BY DEF SendStop, SendArgs, RebuildFirst, Rebuild, PassStop, SendSetup, SendInfo, GatherInfo, EndSetup, view
<1>4. \A r, s \in Ranks : /\ PassInfo(r, s) \/ RebuildNext(r, s) \/ PassView(r, s) => auto' = auto /\ working' = working
                          /\ PassArgs(r, s) => working' = working
                          /\ PassSetup(r, s) => auto' = auto
  <2>1. ASSUME NEW r \in Ranks, NEW s \in Ranks, RebuildNext(r, s)
        PROVE  auto' = auto /\ working' = working
    BY <2>1 DEF RebuildNext, Rebuild
  <2>2. ASSUME NEW r \in Ranks, NEW s \in Ranks, PassInfo(r, s) \/ PassView(r, s)
        PROVE  auto' = auto /\ working' = working
    BY <2>2 DEF PassInfo, PassView, view
  <2>3. ASSUME NEW r \in Ranks, NEW s \in Ranks
        PROVE  (PassArgs(r, s) => working' = working) /\ (PassSetup(r, s) => auto' = auto)
    BY DEF PassArgs, PassSetup
  <2> QED
    BY <2>1, <2>2, <2>3
<1>5. auto' = [q \in Ranks |-> auto'[q]]
  <2>1. \/ auto' = auto
        \/ \E r, s \in Ranks : PassArgs(r, s)
    <3>1. UNCHANGED vars => auto' = auto
      BY DEF vars, view
    <3> QED
      BY <1>3, <1>4, <3>1 DEF Next, Device
  <2> QED
    BY <2>1 DEF Functions, PassArgs
<1>6. working' = [q \in Ranks |-> working'[q]]
  <2>1. \/ working' = working
        \/ \E r, s \in Ranks : PassSetup(r, s)
        \/ \E w \in SUBSET Ranks : SendSetup(w)
    <3>1. UNCHANGED vars => working' = working
      BY DEF vars, view
    <3> QED
      BY <1>3, <1>4, <3>1 DEF Next, Device
  <2> QED
    BY <2>1 DEF Functions, PassSetup, SendSetup
<1> QED
  BY <1>2, <1>5, <1>6 DEF Functions

\* Between the rounds only the master does something.
LEMMA BetweenRounds ==
  ASSUME NotRebuilt, NoMessage, pc[0] \in {"start", "assign"}, [Next]_vars
  PROVE  \/ UNCHANGED vars
         \/ pc[0] = "start" /\ SendArgs
         \/ \E w \in SUBSET Ranks : pc[0] = "assign" /\ SendSetup(w)
<1>1. ASSUME NEW r \in Ranks, NEW s \in Ranks, NEW type
      PROVE  ~Received(r, s, type)
  BY NothingReceived
<1>2. ~SendStop /\ ~RebuildFirst /\ \A r \in Ranks : ~PassStop(r)
  BY DEF SendStop, RebuildFirst, PassStop, NotRebuilt
<1>3. \A r, s \in Ranks : ~PassArgs(r, s) /\ ~PassInfo(r, s) /\ ~PassSetup(r, s) /\ ~RebuildNext(r, s)
                          /\ ~PassView(r, s)
  BY <1>1 DEF PassArgs, PassInfo, PassSetup, RebuildNext, PassView
<1>4. \A s \in Ranks : ~SendInfo(s) /\ ~GatherInfo(s) /\ ~EndSetup(s)
  BY <1>1, RankFacts DEF SendInfo, GatherInfo, EndSetup
<1>5. (SendArgs => pc[0] = "start") /\ \A w : SendSetup(w) => pc[0] = "assign"
  BY DEF SendArgs, SendSetup
<1> QED
  BY <1>2, <1>3, <1>4, <1>5 DEF Next, Device

\* In a round only the device at the message's end does something.
LEMMA InARound ==
  ASSUME NotRebuilt, pc[0] \in {"args_ack", "infos", "setup_ack"}, NEW k \in 1 .. NWorld, NEW msg, At(k, msg),
         msg.type \in {"args", "infos", "setup", "ack"}, [Next]_vars
  PROVE  \/ UNCHANGED vars
         \/ /\ k < NWorld
            /\ \/ msg.type = "args" /\ PassArgs(k, k - 1)
               \/ msg.type = "infos" /\ PassInfo(k, k - 1)
               \/ msg.type = "setup" /\ PassSetup(k, k - 1)
         \/ /\ k = NWorld
            /\ \/ msg.type = "ack" /\ pc[0] = "args_ack" /\ SendInfo(Last)
               \/ msg.type = "infos" /\ pc[0] = "infos" /\ GatherInfo(Last)
               \/ msg.type = "ack" /\ pc[0] = "setup_ack" /\ EndSetup(Last)
<1> USE RankFacts
<1>1. ASSUME NEW r \in Ranks, NEW s \in Ranks, NEW type, Received(r, s, type)
      PROVE  s = k - 1 /\ r = k % NWorld /\ msg.type = type
  BY <1>1, ReceivedAt
<1>2. ~SendStop /\ ~RebuildFirst /\ ~SendArgs /\ (\A w : ~SendSetup(w)) /\ \A r \in Ranks : ~PassStop(r)
  BY DEF SendStop, RebuildFirst, PassStop, SendArgs, SendSetup, NotRebuilt
<1>3. ASSUME NEW r \in Ranks, NEW s \in Ranks, PassArgs(r, s) \/ PassInfo(r, s) \/ PassSetup(r, s)
      PROVE  /\ k < NWorld
             /\ \/ msg.type = "args" /\ PassArgs(k, k - 1)
                \/ msg.type = "infos" /\ PassInfo(k, k - 1)
                \/ msg.type = "setup" /\ PassSetup(k, k - 1)
  <2>1. r # 0
    BY <1>3 DEF PassArgs, PassInfo, PassSetup
  <2>2. s = k - 1 /\ r = k % NWorld
    BY <1>1, <1>3 DEF PassArgs, PassInfo, PassSetup
  <2>3. k < NWorld /\ r = k
    BY <2>1, <2>2
  <2> QED
    BY <1>1, <1>3, <2>2, <2>3 DEF PassArgs, PassInfo, PassSetup
<1>4. ASSUME NEW r \in Ranks, NEW s \in Ranks
      PROVE  ~RebuildNext(r, s) /\ ~PassView(r, s)
  BY <1>1 DEF RebuildNext, PassView
<1>5. ASSUME NEW s \in Ranks, SendInfo(s) \/ GatherInfo(s) \/ EndSetup(s)
      PROVE  /\ k = NWorld
             /\ \/ msg.type = "ack" /\ pc[0] = "args_ack" /\ SendInfo(Last)
                \/ msg.type = "infos" /\ pc[0] = "infos" /\ GatherInfo(Last)
                \/ msg.type = "ack" /\ pc[0] = "setup_ack" /\ EndSetup(Last)
  <2>1. s = k - 1 /\ 0 = k % NWorld
    BY <1>1, <1>5 DEF SendInfo, GatherInfo, EndSetup
  <2>2. k = NWorld /\ s = Last
    BY <2>1 DEF Others
  <2> QED
    BY <1>1, <1>5, <2>2 DEF SendInfo, GatherInfo, EndSetup
<1> QED
  BY <1>2, <1>3, <1>4, <1>5 DEF Next, Device

-----------------------------------------------------------------------------
(* The rounds                                                              *)

LEMMA RoundsStutter ==
  ASSUME Rounds, UNCHANGED vars
  PROVE  Rounds'
<1>1. UNCHANGED vars /\ (NotRebuilt => NotRebuilt') /\ (AutoKnown => AutoKnown') /\ (NoMessage => NoMessage')
      /\ \A k, msg : At(k, msg) => At(k, msg)'
  BY DEF vars, view, NotRebuilt, AutoKnown, NoMessage, NoMessageIn, At, AtIn
<1>2. BeforeArgs \/ BeforeSetup \/ AfterRounds => (BeforeArgs \/ BeforeSetup \/ AfterRounds)'
  BY <1>1 DEF vars, view, BeforeArgs, BeforeSetup, AfterRounds
<1>3. \A k : ArgsRound(k) \/ InfosRound(k) \/ SetupRound(k) => (ArgsRound(k) \/ InfosRound(k) \/ SetupRound(k))'
  BY <1>1 DEF vars, view, ArgsRound, InfosRound, SetupRound, ArgsMsg, InfosMsg, SetupMsg
<1> QED
  BY <1>2, <1>3 DEF Rounds

LEMMA ArgsSent ==
  ASSUME BeforeArgs, Functions, SendArgs
  PROVE  ArgsRound(1)'
<1> USE RankFacts
<1>1. send_to[0] = Succ(0) /\ auto' = auto /\ NotRebuilt'
  BY DEF BeforeArgs, NotRebuilt, SendArgs, view
<1>2. net' = Exchanged(0, None, Letter(Succ(0), [type |-> "args", auto |-> auto[0]]))
  BY <1>1 DEF SendArgs, Letter
<1>3. AtIn(net', 1, [type |-> "args", auto |-> auto[0]])
  BY <1>2, SentFirst DEF BeforeArgs
<1>4. ArgsMsg(1)' = [type |-> "args", auto |-> auto[0]]
  BY <1>1 DEF ArgsMsg
<1>5. pc'[0] = "args_ack" /\ \A r \in Others : pc'[r] = "args" /\ r >= 1
  BY DEF SendArgs, BeforeArgs, Go, Functions, Others
<1> QED
  BY <1>1, <1>3, <1>4, <1>5 DEF ArgsRound, At, Others

LEMMA ArgsPassed ==
  ASSUME NEW k \in 1 .. NWorld, k < NWorld, ArgsRound(k), Functions, PassArgs(k, k - 1)
  PROVE  ArgsRound(k + 1)'
<1> USE RankFacts
<1>1. k \in Others /\ k \in Ranks /\ k - 1 \in Ranks /\ k % NWorld = k /\ k # 0 /\ 0 \in Ranks
  BY DEF Others
<1>2. ArgsMsg(k) = [type |-> "args", auto |-> auto[0]]
  BY DEF ArgsMsg
<1>3. Head(net[k - 1][k]) = ArgsMsg(k)
  BY <1>1, ReceivedAt DEF ArgsRound, PassArgs
<1>4. /\ auto' = [auto EXCEPT ![k] = auto[0]]
      /\ net' = Passed(k, k - 1, ArgsMsg(k)) /\ Go(k, IF auto'[k] THEN "infos" ELSE "setup")
      /\ send_to[k] = Succ(k) /\ NotRebuilt'
  <2>1. send_to[k] = Succ(k) /\ NotRebuilt'
    BY <1>1 DEF PassArgs, ArgsRound, NotRebuilt
  <2>2. Head(net[k - 1][k]).auto = auto[0]
    BY <1>2, <1>3
  <2> QED
    BY <1>3, <2>1, <2>2 DEF PassArgs
<1>5. auto'[0] = auto[0] /\ auto'[k] = auto[0] /\ \A r \in Ranks : r # k => auto'[r] = auto[r]
  BY <1>1, <1>4 DEF Functions
<1>6. net' = Exchanged(k, k - 1, Letter(Succ(k), ArgsMsg(k + 1)'))
  <2>1. (IF k = Last THEN [type |-> "ack"] ELSE ArgsMsg(k)) = ArgsMsg(k + 1)'
    BY <1>1, <1>2, <1>5 DEF ArgsMsg, Ack
  <2> QED
    BY <1>4, <2>1 DEF Passed, Letter
<1>7. AtIn(net', k + 1, ArgsMsg(k + 1)')
  BY <1>6, HandedOn DEF ArgsRound
<1>8. /\ pc'[k] = IF auto[0] THEN "infos" ELSE "setup"
      /\ \A r \in Ranks : r # k => pc'[r] = pc[r]
  BY <1>1, <1>4, <1>5 DEF Go, Functions
<1>9. \A r \in Others : r < k + 1 => r < k \/ r = k
  BY <1>1 DEF Others
<1>10. \A r \in Others : r >= k + 1 => r >= k /\ r # k
  BY <1>1 DEF Others
<1>11. \A r \in Others : r < k + 1 => pc'[r] = (IF auto'[0] THEN "infos" ELSE "setup") /\ auto'[r] = auto'[0]
  BY <1>1, <1>5, <1>8, <1>9 DEF ArgsRound, Others
<1>12. \A r \in Others : r >= k + 1 => pc'[r] = "args"
  BY <1>1, <1>8, <1>10 DEF ArgsRound, Others
<1> QED
  BY <1>1, <1>4, <1>7, <1>8, <1>11, <1>12 DEF ArgsRound, At

LEMMA InfosStarted ==
  ASSUME ArgsRound(NWorld), Functions, SendInfo(Last)
  PROVE  InfosRound(1)' \/ BeforeSetup'
<1> USE RankFacts
<1>1. /\ auto' = auto /\ NotRebuilt' /\ send_to[0] = Succ(0)
      /\ \A r \in Others : r < NWorld /\ r # 0 /\ ~(r < 1) /\ r \in Ranks
  BY DEF SendInfo, ArgsRound, NotRebuilt, view, Others
<1>2. \A r \in Others : pc'[r] = pc[r] /\ pc[r] = (IF auto[0] THEN "infos" ELSE "setup") /\ auto[r] = auto[0]
  <2>1. \E v : pc' = [pc EXCEPT ![0] = v]
    BY DEF SendInfo, Go
  <2>2. \A r \in Others : r \in Ranks /\ r # 0 /\ r < NWorld
    BY <1>1
  <2>3. \A r \in Others : pc[r] = (IF auto[0] THEN "infos" ELSE "setup") /\ auto[r] = auto[0]
    BY <2>2 DEF ArgsRound
  <2>4. pc = [r \in Ranks |-> pc[r]]
    BY DEF Functions
  <2> QED
    BY <2>1, <2>2, <2>3, <2>4
<1>3. AutoKnown'
  BY <1>1, <1>2 DEF AutoKnown
<1>4. CASE auto[0]
  <2>1. pc'[0] = "infos" /\ net' = Exchanged(0, Last, Letter(Succ(0), [type |-> "infos", ranks |-> <<0>>]))
    BY <1>1, <1>4 DEF SendInfo, Functions, Go, Letter
  <2>2. AtIn(net', 1, [type |-> "infos", ranks |-> <<0>>])
    BY <2>1, TakenAndSent DEF ArgsRound
  <2>3. InfosMsg(1) = [type |-> "infos", ranks |-> <<0>>]
    BY DEF InfosMsg
  <2>4. At(1, InfosMsg(1))'
    BY <2>2, <2>3 DEF At, InfosMsg
  <2> QED
    BY <1>1, <1>2, <1>3, <1>4, <2>1, <2>4 DEF InfosRound
<1>5. CASE ~auto[0]
  <2>1. pc'[0] = "assign" /\ net' = Exchanged(0, Last, {})
    BY <1>5 DEF SendInfo, Functions, Go
  <2>2. NoMessageIn(net')
    BY <2>1, TakenAtEnd DEF ArgsRound
  <2> QED
    BY <1>1, <1>2, <1>3, <1>5, <2>1, <2>2 DEF BeforeSetup, NoMessage
<1> QED
  BY <1>4, <1>5

\* The profiles of the first k devices, and the next one's.
LEMMA RanksExtended ==
  ASSUME NEW k \in Nat
  PROVE  Append([i \in 1 .. k |-> i - 1], k) = [i \in 1 .. k + 1 |-> i - 1]
<1> DEFINE before == [i \in 1 .. k |-> i - 1]
           after  == [i \in 1 .. k + 1 |-> i - 1]
<1>1. before \in Seq(Int) /\ Len(before) = k /\ \A i \in 1 .. k : before[i] = i - 1
  OBVIOUS
<1>2. after \in Seq(Int) /\ Len(after) = k + 1 /\ \A i \in 1 .. k + 1 : after[i] = i - 1
  OBVIOUS
<1> HIDE DEF before, after
<1>3. /\ Append(before, k) \in Seq(Int) /\ Len(Append(before, k)) = k + 1
      /\ \A i \in 1 .. k : Append(before, k)[i] = before[i]
      /\ Append(before, k)[k + 1] = k
  BY <1>1
<1>4. \A i \in 1 .. k + 1 : Append(before, k)[i] = after[i]
  BY <1>1, <1>2, <1>3
<1>5. Append(before, k) = after
  BY <1>2, <1>3, <1>4
<1> QED
  BY <1>5 DEF before, after

LEMMA RankAppended ==
  ASSUME NEW k \in Nat
  PROVE  [InfosMsg(k) EXCEPT !.ranks = Append(@, k)] = InfosMsg(k + 1)
<1>1. ASSUME NEW q, NEW m, m = [type |-> "infos", ranks |-> q]
      PROVE  [m EXCEPT !.ranks = Append(@, k)] = [type |-> "infos", ranks |-> Append(q, k)]
  BY <1>1
<1> QED
  BY <1>1, RanksExtended DEF InfosMsg

LEMMA InfosPassed ==
  ASSUME NEW k \in 1 .. NWorld, k < NWorld, InfosRound(k), Functions, PassInfo(k, k - 1)
  PROVE  InfosRound(k + 1)'
<1> USE RankFacts
<1>1. k \in Others /\ k \in Ranks /\ k - 1 \in Ranks /\ k % NWorld = k /\ k # 0 /\ 0 \in Ranks
  BY DEF Others
<1>2. Head(net[k - 1][k]) = InfosMsg(k)
  <2>1. Received(k, k - 1, "infos") /\ At(k, InfosMsg(k))
    BY DEF PassInfo, InfosRound
  <2> QED
    BY <1>1, <2>1, ReceivedAt
<1>3. [InfosMsg(k) EXCEPT !.ranks = Append(@, k)] = InfosMsg(k + 1)
  BY RankAppended
<1>4. /\ net' = Exchanged(k, k - 1, {[to |-> send_to[k], msg |-> InfosMsg(k + 1)]})
      /\ auto' = auto /\ Go(k, "setup")
  BY <1>2, <1>3 DEF PassInfo, view
<1>5. send_to[k] = Succ(k) /\ NotRebuilt'
  BY <1>1 DEF PassInfo, InfosRound, NotRebuilt
<1>6. net' = Exchanged(k, k - 1, Letter(Succ(k), InfosMsg(k + 1)))
  BY <1>4, <1>5 DEF Letter
<1>7. At(k + 1, InfosMsg(k + 1))'
  BY <1>6, HandedOn DEF InfosRound, At, InfosMsg
<1>8. pc'[k] = "setup" /\ \A r \in Ranks : r # k => pc'[r] = pc[r]
  BY <1>1, <1>4 DEF Go, Functions
<1>9. \A r \in Others : (r < k + 1 => r < k \/ r = k) /\ (~(r < k + 1) => ~(r < k) /\ r # k)
  BY <1>1 DEF Others
<1>10. \A r \in Others : pc'[r] = IF r < k + 1 THEN "setup" ELSE "infos"
  BY <1>1, <1>8, <1>9 DEF InfosRound, Others
<1>11. pc'[0] = "infos" /\ auto'[0] /\ AutoKnown'
  BY <1>1, <1>4, <1>8 DEF InfosRound, AutoKnown
<1> QED
  BY <1>5, <1>7, <1>10, <1>11 DEF InfosRound

LEMMA InfosGathered ==
  ASSUME InfosRound(NWorld), Functions, GatherInfo(Last)
  PROVE  BeforeSetup'
<1> USE RankFacts
<1>1. NWorld \in 1 .. NWorld /\ Last = NWorld - 1 /\ NWorld % NWorld = 0
  OBVIOUS
<1>2. Head(net[Last][0]) = InfosMsg(NWorld)
  BY <1>1, ReceivedAt DEF InfosRound, GatherInfo
<1>3. Head(net[Last][0]).ranks = [i \in 1 .. NWorld |-> i - 1]
  <2>1. InfosMsg(NWorld).ranks = [i \in 1 .. NWorld |-> i - 1]
    BY DEF InfosMsg
  <2> QED
    BY <1>2, <2>1
<1>4. Go(0, "assign") /\ net' = Exchanged(0, Last, {}) /\ auto' = auto /\ NotRebuilt'
  BY <1>3 DEF GatherInfo, InfosRound, NotRebuilt, view
<1>5. NoMessageIn(net')
  BY <1>4, TakenAtEnd DEF InfosRound
<1>6. pc'[0] = "assign" /\ \A r \in Others : pc'[r] = pc[r] /\ r < NWorld
  BY <1>4 DEF Go, Functions, Others
<1>7. AutoKnown'
  BY <1>4 DEF InfosRound, AutoKnown
<1> QED
  BY <1>4, <1>5, <1>6, <1>7 DEF BeforeSetup, InfosRound, NoMessage

LEMMA SetupSent ==
  ASSUME BeforeSetup, Functions, NEW w \in SUBSET Ranks, SendSetup(w)
  PROVE  SetupRound(1)'
<1> USE RankFacts
<1>1. send_to[0] = Succ(0) /\ auto' = auto /\ NotRebuilt' /\ working'[0] = w
  BY DEF BeforeSetup, NotRebuilt, SendSetup, Functions
<1>2. net' = Exchanged(0, None, Letter(Succ(0), [type |-> "setup", working |-> w]))
  BY <1>1 DEF SendSetup, Letter
<1>3. AtIn(net', 1, [type |-> "setup", working |-> w])
  BY <1>2, SentFirst DEF BeforeSetup
<1>4. SetupMsg(1)' = [type |-> "setup", working |-> w]
  BY <1>1 DEF SetupMsg
<1>5. pc'[0] = "setup_ack" /\ \A r \in Others : pc'[r] = "setup" /\ r >= 1 /\ ~(r < 1)
  BY DEF SendSetup, BeforeSetup, Go, Functions, Others
<1>6. AutoKnown'
  BY <1>1 DEF BeforeSetup, AutoKnown
<1> QED
  BY <1>1, <1>3, <1>4, <1>5, <1>6 DEF SetupRound, At

LEMMA SetupPassed ==
  ASSUME NEW k \in 1 .. NWorld, k < NWorld, SetupRound(k), Functions, PassSetup(k, k - 1)
  PROVE  SetupRound(k + 1)'
<1> USE RankFacts
<1>1. k \in Others /\ k \in Ranks /\ k - 1 \in Ranks /\ k % NWorld = k /\ k # 0 /\ 0 \in Ranks
  BY DEF Others
<1>2. SetupMsg(k) = [type |-> "setup", working |-> working[0]]
  BY DEF SetupMsg
<1>3. Head(net[k - 1][k]) = SetupMsg(k)
  BY <1>1, ReceivedAt DEF SetupRound, PassSetup
<1>4. send_to[k] = Succ(k) /\ NotRebuilt' /\ auto[k] = auto[0]
  BY <1>1 DEF PassSetup, SetupRound, NotRebuilt, AutoKnown
<1>5. Head(net[k - 1][k]).working = working[0]
  BY <1>2, <1>3
<1>6. /\ working' = [working EXCEPT ![k] = working[0]] /\ auto' = auto
      /\ net' = Passed(k, k - 1, SetupMsg(k)) /\ Go(k, IF auto[k] THEN "topo" ELSE "ready")
  BY <1>3, <1>5 DEF PassSetup
<1>7. working'[0] = working[0] /\ working'[k] = working[0] /\ \A r \in Ranks : r # k => working'[r] = working[r]
  BY <1>1, <1>6 DEF Functions
<1>8. net' = Exchanged(k, k - 1, Letter(Succ(k), SetupMsg(k + 1)'))
  <2>1. (IF k = Last THEN [type |-> "ack"] ELSE SetupMsg(k)) = SetupMsg(k + 1)'
    BY <1>1, <1>2, <1>7 DEF SetupMsg, Ack
  <2> QED
    BY <1>4, <1>6, <2>1 DEF Passed, Letter
<1>9. AtIn(net', k + 1, SetupMsg(k + 1)')
  BY <1>8, HandedOn DEF SetupRound
<1>10. /\ pc'[k] = IF auto[0] THEN "topo" ELSE "ready"
       /\ \A r \in Ranks : r # k => pc'[r] = pc[r]
  BY <1>1, <1>4, <1>6 DEF Go, Functions
<1>11. \A r \in Others : r < k + 1 => r < k \/ r = k
  BY <1>1 DEF Others
<1>12. \A r \in Others : r >= k + 1 => r >= k /\ r # k
  BY <1>1 DEF Others
<1>13. \A r \in Others : r < k + 1 =>
         pc'[r] = (IF auto'[0] THEN "topo" ELSE "ready") /\ working'[r] = working'[0]
  BY <1>1, <1>6, <1>7, <1>10, <1>11 DEF SetupRound, Others
<1>14. \A r \in Others : r >= k + 1 => pc'[r] = "setup"
  BY <1>1, <1>10, <1>12 DEF SetupRound, Others
<1>15. AutoKnown' /\ pc'[0] = "setup_ack"
  BY <1>1, <1>6, <1>10 DEF SetupRound, AutoKnown
<1> QED
  BY <1>4, <1>9, <1>13, <1>14, <1>15 DEF SetupRound, At

LEMMA SetupEnded ==
  ASSUME SetupRound(NWorld), Functions, EndSetup(Last)
  PROVE  AfterRounds'
<1> USE RankFacts
<1>1. Go(0, IF auto[0] THEN "rebuild" ELSE "ready") /\ auto' = auto /\ working' = working
  BY DEF EndSetup, view
<1>2. pc'[0] \in {"rebuild", "ready"} /\ \A r \in Others : pc'[r] = pc[r] /\ r < NWorld
  BY <1>1 DEF Go, Functions, Others
<1>3. \A r \in Others : pc'[r] \in {"topo", "ready"} /\ working'[r] = working'[0] /\ auto'[r] = auto'[0]
  BY <1>1, <1>2 DEF SetupRound, AutoKnown
<1> QED
  BY <1>2, <1>3 DEF AfterRounds, AutoKnown, Others

\* After the rounds the devices rebuild the ring, settle and stop.
LEMMA AfterRoundsKept ==
  ASSUME AfterRounds, Functions, [Next]_vars
  PROVE  AfterRounds'
<1> USE RankFacts
<1> DEFINE Later == {"topo", "rebuild", "view", "ready", "exit", "stopping", "stopped", "aborted"}
<1>1. ASSUME NEW r \in Ranks, NEW next \in Later, Go(r, next), auto' = auto, working' = working
      PROVE  AfterRounds'
  BY <1>1 DEF Go, AfterRounds, AutoKnown, Functions
<1>2. CASE UNCHANGED vars
  BY <1>2 DEF vars, view, AfterRounds, AutoKnown
<1>3. CASE SendStop
  BY <1>1, <1>3 DEF SendStop, view
<1>4. ASSUME NEW r \in Ranks, Device(r)
      PROVE  AfterRounds'
  <2>1. pc[r] \in Later /\ pc[0] \in Later
    BY DEF AfterRounds
  <2>2. ASSUME NEW s \in Ranks, NEW f, NEW open, Rebuild(r, s, f, open) \/ Rebuild(r, None, f, open)
        PROVE  AfterRounds'
    <3>1. (\E next \in Later : Go(r, next)) /\ auto' = auto /\ working' = working
      BY <2>2 DEF Rebuild
    <3> QED
      BY <1>1, <3>1
  <2>3. CASE \E s \in Ranks : RebuildNext(r, s)
    BY <2>2, <2>3 DEF RebuildNext
  <2>4. CASE \E s \in Ranks : PassView(r, s)
    BY <1>1, <2>4 DEF PassView
  <2>5. CASE r = 0 /\ RebuildFirst
    BY <2>2, <2>5 DEF RebuildFirst
  <2>6. CASE PassStop(r)
    BY <1>1, <2>6 DEF PassStop, view
  <2>7. /\ ~SendArgs /\ \A w : ~SendSetup(w)
        /\ \A s \in Ranks : /\ ~PassArgs(r, s) /\ ~PassInfo(r, s) /\ ~PassSetup(r, s)
                            /\ ~SendInfo(s) /\ ~GatherInfo(s) /\ ~EndSetup(s)
    BY <2>1 DEF SendArgs, SendSetup, PassArgs, PassInfo, PassSetup, SendInfo, GatherInfo, EndSetup
  <2> QED
    BY <1>4, <2>3, <2>4, <2>5, <2>6, <2>7 DEF Device
<1> QED
  BY <1>2, <1>3, <1>4 DEF Next

-----------------------------------------------------------------------------
(* The invariant                                                           *)

LEMMA InitRoundInv == Init => RoundInv
<1> SUFFICES ASSUME Init PROVE RoundInv
  OBVIOUS
<1> USE RankFacts
<1>1. Functions
  BY DEF Init, Functions
<1>2. NotRebuilt /\ NoMessage
  BY DEF Init, NotRebuilt, NoMessage, NoMessageIn
<1>3. pc[0] = "start" /\ \A r \in Others : pc[r] = "args"
  BY DEF Init, Others
<1> QED
  BY <1>1, <1>2, <1>3 DEF RoundInv, Rounds, BeforeArgs

LEMMA NextRoundInv == RoundInv /\ [Next]_vars => RoundInv'
<1> SUFFICES ASSUME Functions, Rounds, [Next]_vars PROVE Rounds'
  BY FunctionsKept DEF RoundInv
<1> USE RankFacts
<1>1. CASE UNCHANGED vars
  BY <1>1, RoundsStutter
<1>2. CASE BeforeArgs
  <2>1. UNCHANGED vars \/ SendArgs
    BY <1>2, BetweenRounds DEF BeforeArgs
  <2> QED
    BY <1>1, <1>2, <2>1, ArgsSent DEF Rounds
<1>3. CASE BeforeSetup
  <2>1. UNCHANGED vars \/ \E w \in SUBSET Ranks : SendSetup(w)
    BY <1>3, BetweenRounds DEF BeforeSetup
  <2> QED
    BY <1>1, <1>3, <2>1, SetupSent DEF Rounds
<1>4. CASE AfterRounds
  BY <1>4, AfterRoundsKept DEF Rounds
<1>5. ASSUME NEW k \in 1 .. NWorld, ArgsRound(k)
      PROVE  Rounds'
  <2>1. (k < NWorld => ArgsMsg(k).type = "args") /\ (k = NWorld => ArgsMsg(k).type = "ack")
    BY DEF ArgsMsg, Ack
  <2>2. UNCHANGED vars \/ (k < NWorld /\ PassArgs(k, k - 1)) \/ (k = NWorld /\ SendInfo(Last))
    BY <1>5, <2>1, InARound DEF ArgsRound
  <2>3. CASE k < NWorld /\ PassArgs(k, k - 1)
    <3>1. ArgsRound(k + 1)' /\ k + 1 \in 1 .. NWorld
      BY <1>5, <2>3, ArgsPassed
    <3> QED
      BY <3>1 DEF Rounds
  <2>4. CASE k = NWorld /\ SendInfo(Last)
    BY <1>5, <2>4, InfosStarted DEF Rounds
  <2> QED
    BY <1>1, <2>2, <2>3, <2>4
<1>6. ASSUME NEW k \in 1 .. NWorld, InfosRound(k)
      PROVE  Rounds'
  <2>1. InfosMsg(k).type = "infos"
    BY DEF InfosMsg
  <2>2. UNCHANGED vars \/ (k < NWorld /\ PassInfo(k, k - 1)) \/ (k = NWorld /\ GatherInfo(Last))
    BY <1>6, <2>1, InARound DEF InfosRound
  <2>3. CASE k < NWorld /\ PassInfo(k, k - 1)
    <3>1. InfosRound(k + 1)' /\ k + 1 \in 1 .. NWorld
      BY <1>6, <2>3, InfosPassed
    <3> QED
      BY <3>1 DEF Rounds
  <2>4. CASE k = NWorld /\ GatherInfo(Last)
    BY <1>6, <2>4, InfosGathered DEF Rounds
  <2> QED
    BY <1>1, <2>2, <2>3, <2>4
<1>7. ASSUME NEW k \in 1 .. NWorld, SetupRound(k)
      PROVE  Rounds'
  <2>1. (k < NWorld => SetupMsg(k).type = "setup") /\ (k = NWorld => SetupMsg(k).type = "ack")
    BY DEF SetupMsg, Ack
  <2>2. UNCHANGED vars \/ (k < NWorld /\ PassSetup(k, k - 1)) \/ (k = NWorld /\ EndSetup(Last))
    BY <1>7, <2>1, InARound DEF SetupRound
  <2>3. CASE k < NWorld /\ PassSetup(k, k - 1)
    <3>1. SetupRound(k + 1)' /\ k + 1 \in 1 .. NWorld
      BY <1>7, <2>3, SetupPassed
    <3> QED
      BY <3>1 DEF Rounds
  <2>4. CASE k = NWorld /\ EndSetup(Last)
    BY <1>7, <2>4, SetupEnded DEF Rounds
  <2> QED
    BY <1>1, <2>2, <2>3, <2>4
<1> QED
  BY <1>2, <1>3, <1>4, <1>5, <1>6, <1>7 DEF Rounds

LEMMA RoundInvMeans == RoundInv => Barriers
<1> USE RankFacts
<1> SUFFICES ASSUME Rounds PROVE Barriers
  BY DEF RoundInv
<1>1. CASE BeforeArgs
  BY <1>1 DEF BeforeArgs, Barriers
<1>2. CASE BeforeSetup
  BY <1>2 DEF BeforeSetup, AutoKnown, Barriers, Others
<1>3. CASE AfterRounds
  BY <1>3 DEF AfterRounds, AutoKnown, Barriers, Others
<1>4. ASSUME NEW k \in 1 .. NWorld, ArgsRound(k)
      PROVE  Barriers
  BY <1>4 DEF ArgsRound, Barriers
<1>5. ASSUME NEW k \in 1 .. NWorld, InfosRound(k)
      PROVE  Barriers
  BY <1>5 DEF InfosRound, AutoKnown, Barriers, Others
<1>6. ASSUME NEW k \in 1 .. NWorld, SetupRound(k)
      PROVE  Barriers
  <2>1. \A r \in Others : pc[r] \in {"topo", "ready", "setup"} /\ auto[r] = auto[0]
    BY <1>6 DEF SetupRound, AutoKnown
  <2>2. pc[0] = "setup_ack"
    BY <1>6 DEF SetupRound
  <2> QED
    BY <2>1, <2>2 DEF Barriers, Others
<1> QED
  BY <1>1, <1>2, <1>3, <1>4, <1>5, <1>6 DEF Rounds

\* With any number of devices: when the master has the ACK of a round, or the infos that have come
\* back (llama_send_startup_args, llama_gather_device_info, llama_broadcast_layer_setup), every
\* device has got that round's message, and knows what the master knows.
THEOREM RoundsAreBarriers == Spec => []Barriers
<1>1. Init => RoundInv
  BY InitRoundInv
<1>2. RoundInv /\ [Next]_vars => RoundInv'
  BY NextRoundInv
<1>3. RoundInv => Barriers
  BY RoundInvMeans
<1> QED
  BY <1>1, <1>2, <1>3, PTL DEF Spec

-----------------------------------------------------------------------------
(* The rebuilding of the ring                                              *)

\* The devices that have a layer, as the master knows since it assigned them: with Chosen it is
\* one of them.
Selected == working[0] # {} /\ working[0] \subseteq Ranks /\ (~auto[0] => working[0] = Ranks)
Chosen == 0 \in working[0] /\ working[0] \subseteq Ranks /\ (~auto[0] => working[0] = Ranks)

\* While the master waits for the rounds nobody has flags or a new connection.
InRounds ==
  /\ pc[0] \in {"start", "args_ack", "infos", "assign", "setup_ack"}
  /\ \A r \in Ranks : flags[r] = {} /\ signal_to[r] = Succ(r)
  /\ pc[0] = "setup_ack" => Selected

\* Nothing is rebuilt when the user says which layers the devices get.
KeptRing ==
  /\ ~auto[0] /\ Chosen /\ NoMessage
  /\ \A r \in Ranks : /\ pc[r] \in {"ready", "stopping", "stopped"}
                      /\ flags[r] = {} /\ send_to[r] = Succ(r) /\ signal_to[r] = Succ(r)

Topo(f) == [type |-> "topo", flags |-> f]

\* The devices of the new ring: the master and those that were connected to.
Ring(F) == {0} \cup F

\* q follows r in the ring, or is the master and closes it.
Follows(F, r, q) ==
  /\ q \in Ring(F) /\ (q = 0 \/ r < q)
  /\ \A i \in Ring(F) : r < i => q # 0 /\ q <= i

\* Device x is the next to rebuild (NWorld: all have), F have been connected to.
Reach(x, F) ==
  /\ x \in 0 .. NWorld /\ F \subseteq Ranks
  /\ x < NWorld => x \in Ring(F) /\ 0 \notin F /\ \A i \in F : i <= x
  /\ x = NWorld => IF working[0] = {0} THEN F = {} ELSE 0 \in F
  /\ 0 < x /\ x < NWorld => working[0] # {0}
  /\ \A w \in working[0] : w < x => w \in Ring(F)

\* A device of the ring has its connections and waits for the flags of all, or has them.
Joined(x, F, r) ==
  /\ pc[r] \in {"view", "ready", "stopping", "stopped"}
  /\ IF working[0] = {0} THEN send_to[r] = None ELSE Follows(F, r, send_to[r]) /\ signal_to[r] = send_to[r]
  /\ pc[r] # "view" => x = NWorld /\ flags[r] = F

\* A device that was passed over waits to be told to leave, or has left.
Leaves(x, F, r) ==
  /\ pc[r] \in {"topo", "exit"}
  /\ pc[r] = "topo" => send_to[r] = Succ(r) /\ (r + 1 < x /\ r + 1 \notin F => pc[r + 1] = "topo")

\* A device the rebuilding has not come to.
Untouched(r) ==
  pc[r] = (IF r = 0 THEN "rebuild" ELSE "topo") /\ send_to[r] = Succ(r) /\ signal_to[r] = Succ(r)

\* a has told b to leave; a has connected to b, which is to rebuild; a has sent b the flags.
Told(x, F, a, b)   == b = a + 1 /\ b < x /\ b \notin Ring(F) /\ pc[b] = "topo" /\ pc[a] # "topo"
Called(x, F, a, b) == b = x /\ a < x /\ a \in Ring(F) /\ send_to[a] = b
Viewed(x, F, a, b) ==
  /\ x = NWorld /\ a \in Ring(F) /\ b \in Ring(F) /\ send_to[a] = b
  /\ pc[b] = "view" /\ \A i \in Ring(F) : i < b => pc[i] # "view"

\* Up to the next device of the ring b is told the flags there are.
Agrees(F, f, b) ==
  f \subseteq F /\ \A i \in F \ f : b < i => \E j \in F : b < j /\ j < i

Rebuilding(x, F) ==
  /\ auto[0] /\ Chosen /\ Reach(x, F)
  /\ \A r \in Ranks : IF r >= x THEN Untouched(r) ELSE IF r \in Ring(F) THEN Joined(x, F, r) ELSE Leaves(x, F, r)
  /\ \A i, j \in Ring(F) : i < j /\ j < x /\ pc[i] = "view" => pc[j] = "view"
  /\ \A a, b \in Ranks :
       /\ Told(x, F, a, b) => \E f : net[a][b] = <<Topo(f)>> /\ Agrees(F, f, b)
       /\ Called(x, F, a, b) \/ Viewed(x, F, a, b) => net[a][b] = <<Topo(F)>>
       /\ ~Told(x, F, a, b) /\ ~Called(x, F, a, b) /\ ~Viewed(x, F, a, b) => net[a][b] = <<>>

\* The master has no layer.  It and the devices after it, up to x, have left; x is told to leave
\* unless it has layers, and whoever comes after x hears nothing.
Deserted(x) ==
  /\ auto[0] /\ 0 \notin working[0] /\ working[0] # {} /\ working[0] \subseteq Ranks
  /\ x \in 0 .. NWorld /\ \A w \in working[0] : x <= w
  /\ \A r \in Ranks : r < x => pc[r] = "exit"
  /\ \A r \in Ranks : x <= r => pc[r] = (IF r = 0 THEN "rebuild" ELSE "topo") /\ send_to[r] = Succ(r)
  /\ \A r \in Ranks : flags[r] = {}
  /\ \A a, b \in Ranks :
       net[a][b] = IF a = x - 1 /\ b = x /\ x \notin working[0] THEN <<Topo({})>> ELSE <<>>

RingTypes ==
  /\ flags \in [Ranks -> SUBSET Ranks] /\ signals \subseteq Ranks
  /\ send_to \in [Ranks -> Ranks \cup {None}] /\ signal_to \in [Ranks -> Ranks]
  /\ \A r \in Ranks : send_to[r] # r /\ signal_to[r] # r

RingInv ==
  /\ RingTypes
  /\ \/ InRounds \/ KeptRing
     \/ \E x \in 0 .. NWorld, F \in SUBSET Ranks : Rebuilding(x, F)
     \/ \E x \in 0 .. NWorld : Deserted(x)

-----------------------------------------------------------------------------
(* Where a device of the new ring connects to                              *)

LEMMA LeastNat ==
  ASSUME NEW T \in SUBSET Nat, T # {}
  PROVE  \E x \in T : \A y \in T : x <= y
<1> DEFINE R == OpToRel(<, Nat)
<1>1. IsWellFoundedOn(R, Nat)
  BY NatLessThanWellFounded
<1>2. \A x, y \in Nat : <<x, y>> \in R <=> x < y
  BY DEF OpToRel
<1> HIDE DEF R
<1>3. PICK x \in T : \A y \in T : ~(<<y, x>> \in R)
  BY <1>1, WFMin
<1>4. ASSUME NEW y \in T PROVE x <= y
  <2>1. x \in Nat /\ y \in Nat /\ ~(<<y, x>> \in R)
    BY <1>3
  <2> QED
    BY <1>2, <2>1
<1> QED
  BY <1>4

\* Once round the ring.
LEMMA ModuloOf ==
  ASSUME NEW n \in Nat, n > 1, NEW k \in Nat, k < n
  PROVE  k % n = k /\ (k + n) % n = k /\ (k > 0 => (k - n) % n = k)
OBVIOUS

LEMMA Modulo ==
  ASSUME NEW r \in Ranks
  PROVE  /\ Succ(r) = IF r = Last THEN 0 ELSE r + 1
         /\ \A d \in 1 .. Last : (r + d) % NWorld = IF r + d < NWorld THEN r + d ELSE r + d - NWorld
         /\ \A q \in Ranks : (q - r) % NWorld = IF r <= q THEN q - r ELSE q - r + NWorld
<1>1. NWorld \in Nat /\ NWorld > 1 /\ r \in 0 .. NWorld - 1 /\ Last = NWorld - 1
  BY WorldAssumption DEF Ranks, Last
<1>2. ASSUME NEW d \in 1 .. Last
      PROVE  (r + d) % NWorld = IF r + d < NWorld THEN r + d ELSE r + d - NWorld
  <2>1. CASE r + d < NWorld
    BY <1>1, <2>1, ModuloOf
  <2>2. CASE ~(r + d < NWorld)
    <3>1. r + d - NWorld \in Nat /\ r + d - NWorld < NWorld /\ (r + d - NWorld) + NWorld = r + d
      BY <1>1, <2>2
    <3> HIDE <1>1
    <3> QED
      BY WorldAssumption, <2>2, <3>1, ModuloOf
  <2> QED
    BY <2>1, <2>2
<1>3. ASSUME NEW q \in Ranks
      PROVE  (q - r) % NWorld = IF r <= q THEN q - r ELSE q - r + NWorld
  <2>1. q \in 0 .. NWorld - 1
    BY DEF Ranks
  <2>2. CASE r <= q
    BY <1>1, <2>1, <2>2, ModuloOf
  <2>3. CASE ~(r <= q)
    <3> DEFINE k == q - r + NWorld
    <3>1. k \in Nat /\ k < NWorld /\ k > 0 /\ k - NWorld = q - r
      BY <1>1, <2>1, <2>3
    <3> HIDE DEF k
    <3>2. (k - NWorld) % NWorld = k
      BY WorldAssumption, <3>1, ModuloOf
    <3> QED
      BY <2>3, <3>1, <3>2 DEF k
  <2> QED
    BY <2>2, <2>3
<1>4. Succ(r) = IF r = Last THEN 0 ELSE r + 1
  <2>1. 1 \in 1 .. Last /\ Succ(r) = (r + 1) % NWorld
    BY <1>1 DEF Succ
  <2> QED
    BY <1>1, <1>2, <2>1
<1> QED
  BY <1>2, <1>3, <1>4

LEMMA WorldFacts == NWorld \in Nat /\ NWorld > 1 /\ Last = NWorld - 1 /\ Ranks = 0 .. NWorld - 1 /\ 0 \in Ranks
BY WorldAssumption DEF Ranks, Last

\* Nobody between r and q works.
Reachable(r, q) ==
  /\ q \in Ranks /\ (q = 0 \/ r < q) /\ q # r
  /\ \A i \in working[0] : r < i => q # 0 /\ q <= i

\* The devices up to the next one that works: further ranks, or the master at the end.
LEMMA FollowingIs ==
  ASSUME Chosen, NEW r \in Ranks, working[r] = working[0], NEW q \in Following(r)
  PROVE  Reachable(r, q)
<1> USE WorldFacts
<1>1. PICK d \in 1 .. Last : q = (r + d) % NWorld /\ \A e \in 1 .. d - 1 : (r + e) % NWorld \notin working[0]
  BY DEF Following
<1>2. r + d <= NWorld
  <2> SUFFICES ASSUME r + d > NWorld PROVE FALSE
    OBVIOUS
  <2>1. NWorld - r \in 1 .. d - 1 /\ NWorld - r \in 1 .. Last /\ ~(r + (NWorld - r) < NWorld)
    OBVIOUS
  <2>2. (r + (NWorld - r)) % NWorld = 0
    BY <2>1, Modulo
  <2> QED
    BY <1>1, <2>1, <2>2 DEF Chosen
<1>3. q = IF r + d < NWorld THEN r + d ELSE 0
  <2>1. q = IF r + d < NWorld THEN r + d ELSE r + d - NWorld
    BY <1>1, Modulo
  <2> QED
    BY <1>2, <2>1
<1>4. ASSUME NEW i \in working[0], r < i, q = 0 \/ i < q
      PROVE  FALSE
  <2>1. i \in Ranks /\ i - r \in 1 .. d - 1 /\ i - r \in 1 .. Last /\ r + (i - r) = i /\ i < NWorld
    BY <1>2, <1>3, <1>4 DEF Chosen
  <2>2. (r + (i - r)) % NWorld = i
    BY <2>1, Modulo
  <2> QED
    BY <1>1, <2>1, <2>2
<1>5. q \in Ranks /\ (q = 0 \/ r < q) /\ q # r
  BY <1>2, <1>3
<1> QED
  BY <1>4, <1>5 DEF Reachable, Chosen

LEMMA SuccFollows ==
  ASSUME NEW r \in Ranks
  PROVE  Succ(r) \in Following(r)
<1>1. 1 \in 1 .. Last /\ 1 .. 1 - 1 = {}
  BY WorldFacts
<1> QED
  BY <1>1 DEF Following, Succ

\* A device is alone when it is the master and nobody else works.
LEMMA AloneIs ==
  ASSUME Chosen, NEW r \in Ranks, working[r] = working[0]
  PROVE  Alone(r) <=> r = 0 /\ working[0] = {0}
<1> USE WorldFacts
<1>1. ASSUME r = 0, working[0] = {0}, NEW q \in Following(r)
      PROVE  q \notin working[r]
  BY <1>1, FollowingIs DEF Reachable
<1>2. ASSUME NEW w \in working[0], w # r, r # 0 \/ w # 0
      PROVE  ~Alone(r)
  <2> DEFINE D == {d \in 1 .. Last : (r + d) % NWorld \in working[0]}
  <2>1. D # {}
    <3>1. CASE r # 0
      <4>1. NWorld - r \in 1 .. Last /\ ~(r + (NWorld - r) < NWorld) /\ r + (NWorld - r) - NWorld = 0
        BY <3>1
      <4>2. (r + (NWorld - r)) % NWorld = 0
        BY <4>1, Modulo
      <4> QED
        BY <4>1, <4>2 DEF Chosen
    <3>2. CASE r = 0
      <4>1. w \in Ranks /\ w \in 1 .. Last /\ r + w = w /\ r + w < NWorld
        BY <1>2, <3>2 DEF Chosen
      <4>2. (r + w) % NWorld = w
        BY <4>1, Modulo
      <4> QED
        BY <1>2, <4>1, <4>2
    <3> QED
      BY <3>1, <3>2
  <2>2. D \in SUBSET Nat
    OBVIOUS
  <2>3. PICK d \in D : \A e \in D : d <= e
    <3> HIDE DEF D
    <3> QED
      BY <2>1, <2>2, LeastNat
  <2>4. d \in 1 .. Last /\ (r + d) % NWorld \in working[0] /\ \A e \in 1 .. d - 1 : (r + e) % NWorld \notin working[0]
    <3>1. \A e \in 1 .. d - 1 : e \in 1 .. Last /\ e \notin D
      <4>1. d \in 1 .. Last
        BY <2>3
      <4>2. \A e \in 1 .. d - 1 : e \in 1 .. Last /\ ~(d <= e)
        BY <4>1
      <4> HIDE DEF D
      <4> QED
        BY <2>3, <4>2
    <3> QED
      BY <2>3, <3>1
  <2>5. (r + d) % NWorld \in Following(r) \cap working[r]
    BY <2>4 DEF Following
  <2> QED
    BY <2>5 DEF Alone
<1>3. CASE ~(r = 0 /\ working[0] = {0})
  <2>1. r # 0 \/ \E w \in working[0] : w # 0
    BY <1>3 DEF Chosen
  <2> QED
    BY <1>2, <1>3, <2>1 DEF Chosen
<1> QED
  BY <1>1, <1>3 DEF Alone

\* The farthest of some devices is one of them.
LEMMA FarthestIs ==
  ASSUME NEW r \in Ranks, NEW far \in SUBSET Ranks, far # {}
  PROVE  (CHOOSE q \in far : \A p \in far : (p - r) % NWorld <= (q - r) % NWorld) \in far
<1> DEFINE dist(q) == (q - r) % NWorld
           T == {NWorld - dist(q) : q \in far}
<1>1. \A q \in far : dist(q) \in 0 .. NWorld
  BY WorldFacts, Modulo
<1> HIDE DEF dist
<1>2. T \in SUBSET Nat /\ T # {}
  <2>1. \A q \in far : NWorld - dist(q) \in Nat
    BY <1>1, WorldFacts
  <2> QED
    BY <2>1
<1>3. PICK x \in T : \A y \in T : x <= y
  <2> HIDE DEF T
  <2> QED
    BY <1>2, LeastNat
<1>4. PICK q \in far : x = NWorld - dist(q)
  BY <1>3
<1>5. \A p \in far : dist(p) <= dist(q)
  <2>1. \A p \in far : dist(p) \in Int /\ NWorld - dist(q) <= NWorld - dist(p)
    BY <1>1, <1>3, <1>4
  <2>2. NWorld \in Int /\ dist(q) \in Int
    BY <2>1, WorldFacts
  <2> QED
    BY <2>1, <2>2
<1>6. (CHOOSE z \in far : \A p \in far : dist(p) <= dist(z)) \in far
  BY <1>5, Zenon
<1> QED
  BY <1>6 DEF dist

-----------------------------------------------------------------------------
(* What a device of the ring does when it rebuilds                         *)

Letters(one, two, msg) == Letter(one, msg) \cup Letter(two, msg)

\* A message to two devices.
LEMMA ExchangedTwo ==
  ASSUME NEW r, NEW s, NEW one, NEW two, NEW msg,
         net' = Exchanged(r, s, Letters(one, two, msg)),
         NEW a \in Ranks, NEW b \in Ranks
  PROVE  net'[a][b] = IF a = r /\ (b = one \/ b = two) THEN Append(Rest(s, r, a, b), msg) ELSE Rest(s, r, a, b)
<1> DEFINE new == {x \in Letters(one, two, msg) : a = r /\ x.to = b}
<1>1. net'[a][b] = IF new = {} THEN Rest(s, r, a, b)
                               ELSE Append(Rest(s, r, a, b), (CHOOSE x \in new : TRUE).msg)
  BY DEF Exchanged, Rest
<1>2. CASE a = r /\ (b = one \/ b = two)
  <2>1. [to |-> b, msg |-> msg] \in new /\ \A x \in new : x.msg = msg
    BY <1>2 DEF Letter, Letters
  <2> HIDE DEF new
  <2>2. (CHOOSE x \in new : TRUE) \in new
    BY <2>1, Zenon
  <2> QED
    BY <1>1, <1>2, <2>1, <2>2
<1>3. CASE ~(a = r /\ (b = one \/ b = two))
  <2>1. new = {}
    BY <1>3 DEF Letter, Letters
  <2> QED
    BY <1>1, <1>3, <2>1
<1> QED
  BY <1>2, <1>3

\* The master alone: it tells the next device to leave, and has no connection any more.
EndsAlone(x, s, F) ==
  /\ net' = Exchanged(x, s, Letter(send_to[x], Topo(F)))
  /\ flags' = [flags EXCEPT ![x] = F] /\ send_to' = [send_to EXCEPT ![x] = None]
  /\ UNCHANGED signal_to /\ Go(x, "ready")

\* It connects to c, and tells its neighbour to leave when that is another device.
Connects(x, s, F, c) ==
  /\ net' = Exchanged(x, s, IF c = Succ(x) THEN Letter(c, Topo(F \cup {c}))
                            ELSE Letters(send_to[x], c, Topo(F \cup {c})))
  /\ flags' = [flags EXCEPT ![x] = F \cup {c}] /\ send_to' = [send_to EXCEPT ![x] = c]
  /\ signal_to' = [signal_to EXCEPT ![x] = c] /\ Go(x, "view")

LEMMA RebuildIs ==
  ASSUME RingTypes, Chosen, NEW x \in Ranks, NEW F \in SUBSET Ranks, x \in Ring(F),
         \A i \in F : i <= x /\ i # 0, working[x] = working[0], NEW s, NEW open, Rebuild(x, s, F, open)
  PROVE  /\ UNCHANGED <<auto, working, signals>>
         /\ IF x = 0 /\ working[0] = {0} THEN EndsAlone(x, s, F)
            ELSE \E c \in Ranks : Reachable(x, c) /\ Connects(x, s, F, c)
<1> USE WorldFacts
<1>1. UNCHANGED <<auto, working, signals>>
  BY DEF Rebuild
<1>2. x \in working[x] \cup F
  BY DEF Ring, Chosen
<1>3. CASE x = 0 /\ working[0] = {0}
  <2>1. Alone(x)
    BY <1>3, AloneIs
  <2>2. Succ(x) = 1 /\ 1 \notin working[x] \cup F
    BY <1>3, Modulo
  <2>3. net' = Exchanged(x, s, {[to |-> send_to[x], msg |-> [type |-> "topo", flags |-> F]]} \cup {})
    BY <1>2, <2>1 DEF Rebuild
  <2>4. /\ flags' = [flags EXCEPT ![x] = F] /\ send_to' = [send_to EXCEPT ![x] = None]
        /\ signal_to' = [signal_to EXCEPT ![x] = @] /\ Go(x, "ready")
    BY <1>2, <2>1, <2>2 DEF Rebuild
  <2>5. signal_to' = signal_to
    BY <2>4 DEF RingTypes
  <2>6. net' = Exchanged(x, s, Letter(send_to[x], Topo(F)))
    BY <2>3 DEF Letter, Topo
  <2> QED
    BY <1>1, <1>3, <2>4, <2>5, <2>6 DEF EndsAlone
<1>4. CASE ~(x = 0 /\ working[0] = {0})
  <2> DEFINE far == open \cup {Succ(x)}
             c   == CHOOSE q \in far : \A p \in far : (p - x) % NWorld <= (q - x) % NWorld
  <2>1. ~Alone(x)
    BY <1>4, AloneIs
  <2>2. open \subseteq Following(x)
    BY <1>2, <2>1 DEF Rebuild
  <2>3. far \subseteq Following(x)
    BY <2>2, SuccFollows
  <2>4. \A q \in far : Reachable(x, q)
    BY <2>3, FollowingIs
  <2>5. far \in SUBSET Ranks /\ far # {}
    BY <2>4 DEF Reachable
  <2>6. c \in far
    <3> HIDE DEF far
    <3> QED
      BY <2>5, FarthestIs
  <2>7. Reachable(x, c)
    BY <2>4, <2>6
  <2>8. c # Succ(x) => Succ(x) \notin working[x] \cup F \cup {c}
    <3> HIDE DEF c
    <3>1. x # Last => Succ(x) = x + 1
      BY Modulo
    <3>2. x = Last => c = Succ(x)
      BY <2>7, Modulo DEF Reachable
    <3>3. ASSUME c # Succ(x), x + 1 \in working[0], x # Last
          PROVE  FALSE
      BY <2>7, <3>1, <3>3 DEF Reachable
    <3> QED
      BY <3>1, <3>2, <3>3
  <2>9. /\ flags' = [flags EXCEPT ![x] = F \cup {c}] /\ send_to' = [send_to EXCEPT ![x] = c]
        /\ signal_to' = [signal_to EXCEPT ![x] = c]
    BY <1>2, <2>1 DEF Rebuild
  <2>10. Go(x, "view")
    BY <1>2, <2>1, <2>8 DEF Rebuild
  <2>11. net' = Exchanged(x, s, (IF c # Succ(x) THEN Letter(send_to[x], Topo(F \cup {c})) ELSE {})
                                  \cup Letter(c, Topo(F \cup {c})))
    BY <1>2, <2>1 DEF Rebuild, Letter, Topo
  <2> HIDE DEF c
  <2>12. net' = Exchanged(x, s, IF c = Succ(x) THEN Letter(c, Topo(F \cup {c}))
                                ELSE Letters(send_to[x], c, Topo(F \cup {c})))
    <3>1. CASE c = Succ(x)
      <4>1. (IF c # Succ(x) THEN Letter(send_to[x], Topo(F \cup {c})) ELSE {}) \cup Letter(c, Topo(F \cup {c}))
              = Letter(c, Topo(F \cup {c}))
        BY <3>1
      <4> QED
        BY <2>11, <3>1, <4>1
    <3>2. CASE c # Succ(x)
      BY <2>11, <3>2 DEF Letters
    <3> QED
      BY <3>1, <3>2
  <2> QED
    BY <1>1, <1>4, <2>7, <2>9, <2>10, <2>12 DEF Connects, Reachable
<1> QED
  BY <1>3, <1>4

\* Nothing has been said to the master when it is alone, and it settles at once.
LEMMA AloneRebuilt ==
  ASSUME RingTypes, Functions, NEW F \in SUBSET Ranks, Rebuilding(0, F), working[0] = {0},
         UNCHANGED <<auto, working>>, NEW s, EndsAlone(0, s, F), \A a, b \in Ranks : Rest(s, 0, a, b) = <<>>
  PROVE  Rebuilding(NWorld, {})'
<1> USE WorldFacts
<1>1. F = {} /\ \A r \in Ranks : Untouched(r)
  BY DEF Rebuilding, Reach
<1>2. Chosen' /\ auto'[0] /\ Reach(NWorld, {})'
  BY DEF Rebuilding, Chosen, Reach, Ring
<1>3. /\ pc'[0] = "ready" /\ send_to'[0] = None /\ flags'[0] = {}
      /\ \A r \in Ranks : r # 0 => pc'[r] = "topo" /\ send_to'[r] = Succ(r)
  BY <1>1 DEF EndsAlone, Go, Functions, RingTypes, Untouched
<1>4. \A r \in Ranks : IF r >= NWorld THEN Untouched(r)' ELSE IF r \in Ring({}) THEN Joined(NWorld, {}, r)'
                                                          ELSE Leaves(NWorld, {}, r)'
  <2> SUFFICES ASSUME NEW r \in Ranks
               PROVE  ~(r >= NWorld) /\ (r = 0 => Joined(NWorld, {}, r)') /\ (r # 0 => Leaves(NWorld, {}, r)')
    BY DEF Ring
  <2>1. r = 0 => Joined(NWorld, {}, r)'
    BY <1>3 DEF Joined
  <2>2. r # 0 => Leaves(NWorld, {}, r)'
    <3>1. r + 1 < NWorld => r + 1 \in Ranks /\ r + 1 # 0
      OBVIOUS
    <3> QED
      BY <1>3, <3>1 DEF Leaves
  <2> QED
    BY <2>1, <2>2
<1>5. ASSUME NEW a \in Ranks, NEW b \in Ranks
      PROVE  /\ Told(NWorld, {}, a, b)' <=> a = 0 /\ b = Succ(0)
             /\ ~Called(NWorld, {}, a, b)' /\ ~Viewed(NWorld, {}, a, b)'
             /\ net'[a][b] = IF a = 0 /\ b = Succ(0) THEN <<Topo({})>> ELSE <<>>
  <2>1. Succ(0) = 1 /\ 1 \in Ranks
    BY Modulo
  <2>2. Told(NWorld, {}, a, b)' <=> a = 0 /\ b = Succ(0)
    BY <1>3, <2>1 DEF Told, Ring
  <2>3. ~Called(NWorld, {}, a, b)' /\ ~Viewed(NWorld, {}, a, b)'
    BY <1>3 DEF Called, Viewed, Ring
  <2>4. net' = Exchanged(0, s, Letter(Succ(0), Topo({})))
    BY <1>1 DEF EndsAlone, Untouched
  <2>5. net'[a][b] = IF a = 0 /\ b = Succ(0) THEN Append(Rest(s, 0, a, b), Topo({})) ELSE Rest(s, 0, a, b)
    BY <2>4, ExchangedOne
  <2> QED
    BY <2>2, <2>3, <2>5, OneAppended
<1>6. Agrees({}, {}, Succ(0))
  BY DEF Agrees
<1>7. \A i, j \in Ring({}) : ~(i < j)
  BY DEF Ring
<1> QED
  BY <1>2, <1>4, <1>5, <1>6, <1>7 DEF Rebuilding

\* The ring goes on to the device it is connected to, or is closed.
LEMMA Reached ==
  ASSUME Chosen, NEW x \in Ranks, NEW F, Reach(x, F), NEW c \in Ranks, Reachable(x, c),
         ~(x = 0 /\ working[0] = {0}), NEW y, y = IF c = 0 THEN NWorld ELSE c
  PROVE  Reach(y, F \cup {c}) /\ x < y /\ y \in 0 .. NWorld
<1> USE WorldFacts
<1>1. x < y /\ y \in 0 .. NWorld
  BY DEF Reachable
<1>2. F \subseteq Ranks /\ x \in Ring(F) /\ 0 \notin F /\ \A i \in F : i \in Ranks /\ i <= x
  BY DEF Reach
<1>3. y < NWorld => c = y /\ c # 0 /\ \A i \in F \cup {c} : i <= y
  BY <1>1, <1>2
<1>4. working[0] # {0}
  BY DEF Reach
<1>5. ASSUME NEW w \in working[0], w < y
      PROVE  w \in Ring(F \cup {c})
  <2>1. w \in Ranks
    BY DEF Chosen
  <2>2. CASE w < x
    BY <2>2 DEF Reach, Ring
  <2>3. CASE w = x
    BY <1>2, <2>3 DEF Ring
  <2>4. CASE x < w
    BY <1>5, <2>1, <2>4 DEF Reachable
  <2> QED
    BY <2>1, <2>2, <2>3, <2>4
<1>6. y = NWorld => c = 0
  OBVIOUS
<1>7. /\ F \cup {c} \subseteq Ranks
      /\ y < NWorld => y \in Ring(F \cup {c}) /\ 0 \notin F \cup {c}
  BY <1>2, <1>3 DEF Ring
<1>8. y = NWorld => 0 \in F \cup {c}
  BY <1>6
<1> QED
  BY <1>1, <1>3, <1>4, <1>5, <1>7, <1>8 DEF Reach

LEMMA Connected ==
  ASSUME RingTypes, Functions, NEW x \in Ranks, NEW F \in SUBSET Ranks, Rebuilding(x, F),
         ~(x = 0 /\ working[0] = {0}), UNCHANGED <<auto, working>>, NEW s, NEW c \in Ranks, Reachable(x, c),
         Connects(x, s, F, c),
         \A a, b \in Ranks : Rest(s, x, a, b) = IF Told(x, F, a, b) THEN net[a][b] ELSE <<>>
  PROVE  \E y \in 0 .. NWorld, G \in SUBSET Ranks : Rebuilding(y, G)'
<1> USE WorldFacts
<1> DEFINE y == IF c = 0 THEN NWorld ELSE c
           G == F \cup {c}
<1>1. Reach(y, G) /\ x < y /\ y \in 0 .. NWorld /\ G \in SUBSET Ranks
  BY Reached DEF Rebuilding
<1>2. /\ F \subseteq Ranks /\ x \in Ring(F) /\ \A i \in Ring(F) : i \in Ranks /\ i <= x /\ (i # 0 => i \in F)
      /\ Ring(G) = Ring(F) \cup {c} /\ c # x /\ (c = 0 \/ x < c) /\ 0 \notin F
      /\ (c = 0 => y = NWorld) /\ (c # 0 => y = c)
  BY DEF Rebuilding, Reach, Reachable, Ring
<1> HIDE DEF y, G
<1>3. /\ pc'[x] = "view" /\ send_to'[x] = c /\ signal_to'[x] = c
      /\ \A r \in Ranks : r # x => pc'[r] = pc[r] /\ send_to'[r] = send_to[r] /\ signal_to'[r] = signal_to[r]
                                   /\ flags'[r] = flags[r]
  BY DEF Connects, Go, Functions, RingTypes
<1>4. /\ \A r \in Ranks : r >= x => Untouched(r)
      /\ \A r \in Ring(F) : r < x => Joined(x, F, r)
      /\ \A r \in Ranks \ Ring(F) : r < x => Leaves(x, F, r)
  <2>1. \A r \in Ring(F) : r \in Ranks
    BY <1>2
  <2> QED
    BY <2>1 DEF Rebuilding
<1>5. \A r \in Ring(F) : r < x => /\ pc[r] = "view" /\ Follows(F, r, send_to[r]) /\ signal_to[r] = send_to[r]
  BY <1>4 DEF Joined, Rebuilding, Reach
<1>0. working[0] # {0}
  BY DEF Rebuilding, Reach
<1>6. Chosen' /\ auto'[0] /\ Reach(y, G)'
  BY <1>1 DEF Rebuilding, Chosen, Reach
<1>7. \A r \in Ring(F) : pc'[r] = "view"
  BY <1>2, <1>3, <1>5
<1>8. ASSUME NEW r \in Ranks
      PROVE  IF r >= y THEN Untouched(r)' ELSE IF r \in Ring(G) THEN Joined(y, G, r)' ELSE Leaves(y, G, r)'
  <2>1. CASE r >= y
    BY <1>1, <1>3, <1>4, <2>1 DEF Untouched
  <2>2. CASE r = x
    <3>1. Follows(G, x, c)
      BY <1>2 DEF Follows
    <3> QED
      BY <1>0, <1>1, <1>2, <1>3, <2>2, <3>1 DEF Joined
  <2>3. CASE r < x /\ r \in Ring(F)
    <3>1. Follows(F, r, send_to[r]) /\ send_to[r] # 0 /\ send_to[r] <= x /\ send_to[r] \in Ranks
      BY <1>2, <1>5, <2>3 DEF Follows
    <3>2. Follows(G, r, send_to[r])
      BY <1>2, <2>3, <3>1 DEF Follows
    <3>3. pc'[r] = "view" /\ send_to'[r] = send_to[r] /\ signal_to'[r] = send_to'[r]
      BY <1>3, <1>5, <2>3
    <3>4. Joined(y, G, r)'
      BY <1>0, <1>1, <3>2, <3>3 DEF Joined
    <3> QED
      BY <1>1, <1>2, <2>3, <3>4
  <2>4. CASE r < x /\ r \notin Ring(F)
    <3>1. r \notin Ring(G) /\ ~(r >= y)
      BY <1>1, <1>2, <2>4 DEF Ring
    <3>2. r + 1 < y /\ r + 1 \notin G => r + 1 < x /\ r + 1 \notin F
      BY <1>2, <2>4 DEF Ring, G
    <3>3. Leaves(x, F, r)
      BY <1>4, <2>4
    <3>4. pc'[r] = pc[r] /\ send_to'[r] = send_to[r] /\ (r + 1 < x => pc'[r + 1] = pc[r + 1])
      BY <1>3, <2>4
    <3>5. Leaves(y, G, r)'
      BY <3>2, <3>3, <3>4 DEF Leaves
    <3> QED
      BY <3>1, <3>5
  <2>5. CASE x < r /\ r < y
    <3>1. r \notin Ring(G)
      BY <1>1, <1>2, <2>5
    <3>2. pc'[r] = "topo" /\ send_to'[r] = Succ(r)
      BY <1>3, <1>4, <2>5 DEF Untouched
    <3>3. r + 1 < y => pc'[r + 1] = "topo"
      <4>1. r + 1 < y => r + 1 \in Ranks /\ r + 1 # x /\ r + 1 >= x /\ r + 1 # 0
        BY <1>1, <2>5
      <4> QED
        BY <1>3, <1>4, <4>1 DEF Untouched
    <3>4. Leaves(y, G, r)'
      BY <3>2, <3>3 DEF Leaves
    <3> QED
      BY <1>1, <2>5, <3>1, <3>4
  <2> QED
    BY <1>1, <2>1, <2>2, <2>3, <2>4, <2>5
<1>9. \A i, j \in Ring(G) : i < j /\ j < y /\ pc'[i] = "view" => pc'[j] = "view"
  <2>1. \A j \in Ring(G) : j < y => j \in Ring(F)
    <3>1. 0 \in Ring(F) /\ ~(y < y)
      BY <1>1 DEF Ring
    <3> QED
      BY <1>2, <3>1
  <2> QED
    BY <1>7, <2>1
<1>10. c # Succ(x) <=> x + 1 < y /\ x + 1 \notin Ring(G)
  <2>1. Succ(x) = IF x = Last THEN 0 ELSE x + 1
    BY Modulo
  <2>2. x + 1 \notin Ring(F)
    BY <1>2
  <2> QED
    BY <1>1, <1>2, <2>1, <2>2
<1>11. c # Succ(x) => Succ(x) = x + 1
  BY <1>1, <1>10, Modulo
<1>12. send_to[x] = Succ(x)
  BY <1>4 DEF Untouched
<1>13. ASSUME NEW a \in Ranks, NEW b \in Ranks
       PROVE  net'[a][b] = IF a = x /\ (b = c \/ (b = x + 1 /\ x + 1 < y /\ x + 1 \notin Ring(G))) THEN <<Topo(G)>>
                           ELSE IF Told(x, F, a, b) THEN net[a][b] ELSE <<>>
  <2>1. Rest(s, x, a, b) = IF Told(x, F, a, b) THEN net[a][b] ELSE <<>>
    OBVIOUS
  <2>2. a = x => Rest(s, x, a, b) = <<>>
    BY <2>1 DEF Told
  <2>3. CASE c = Succ(x)
    <3>1. net' = Exchanged(x, s, Letter(c, Topo(G)))
      BY <2>3 DEF Connects, G
    <3>2. net'[a][b] = IF a = x /\ b = c THEN Append(Rest(s, x, a, b), Topo(G)) ELSE Rest(s, x, a, b)
      BY <3>1, ExchangedOne
    <3> QED
      BY <1>10, <2>1, <2>2, <2>3, <3>2, OneAppended
  <2>4. CASE c # Succ(x)
    <3> DEFINE next == Succ(x)
    <3>1. next = x + 1 /\ next # c
      BY <1>11, <2>4
    <3>2. net' = Exchanged(x, s, Letters(next, c, Topo(G)))
      BY <1>12, <2>4 DEF Connects, G
    <3> HIDE DEF next
    <3>3. net'[a][b] = IF a = x /\ (b = next \/ b = c) THEN Append(Rest(s, x, a, b), Topo(G)) ELSE Rest(s, x, a, b)
      BY <3>1, <3>2, ExchangedTwo
    <3>4. net'[a][b] = IF a = x /\ (b = x + 1 \/ b = c) THEN Append(Rest(s, x, a, b), Topo(G)) ELSE Rest(s, x, a, b)
      BY <3>1, <3>3
    <3> QED
      BY <1>10, <2>1, <2>2, <2>4, <3>4, OneAppended
  <2> QED
    BY <2>3, <2>4
<1>14. ASSUME NEW a \in Ranks, NEW b \in Ranks
       PROVE  Told(y, G, a, b)' <=> Told(x, F, a, b) \/ (a = x /\ b = x + 1 /\ x + 1 < y /\ x + 1 \notin Ring(G))
  <2>1. ASSUME Told(x, F, a, b)
        PROVE  Told(y, G, a, b)'
    <3>1. b = a + 1 /\ b < x /\ b \notin Ring(F) /\ pc'[b] = pc[b] /\ pc'[a] = pc[a]
      BY <1>3, <2>1 DEF Told
    <3>2. b < y /\ b \notin Ring(G)
      BY <1>1, <1>2, <3>1 DEF Ring
    <3> QED
      BY <2>1, <3>1, <3>2 DEF Told
  <2>2. ASSUME a = x, b = x + 1, x + 1 < y, x + 1 \notin Ring(G)
        PROVE  Told(y, G, a, b)'
    <3>1. pc'[b] = "topo" /\ pc'[a] # "topo"
      BY <1>3, <1>4, <2>2 DEF Untouched
    <3> QED
      BY <2>2, <3>1 DEF Told
  <2>3. ASSUME Told(y, G, a, b)'
        PROVE  Told(x, F, a, b) \/ (a = x /\ b = x + 1 /\ x + 1 < y /\ x + 1 \notin Ring(G))
    <3>1. b = a + 1 /\ b < y /\ b \notin Ring(G) /\ pc'[b] = "topo" /\ pc'[a] # "topo"
      BY <2>3 DEF Told
    <3>2. b # x /\ b \notin Ring(F)
      BY <1>2, <3>1
    <3>3. a > x => pc'[a] = "topo"
      BY <1>3, <1>4 DEF Untouched
    <3>4. CASE a < x
      <4>1. pc'[a] = pc[a] /\ pc'[b] = pc[b] /\ b < x
        BY <1>3, <3>1, <3>2, <3>4
      <4> QED
        BY <3>1, <3>2, <4>1 DEF Told
    <3> QED
      BY <3>1, <3>3, <3>4
  <2> QED
    BY <2>1, <2>2, <2>3
<1>15. ASSUME NEW a \in Ranks, NEW b \in Ranks
       PROVE  Called(y, G, a, b)' \/ Viewed(y, G, a, b)' <=> a = x /\ b = c
  <2>1. ASSUME a = x, b = c
        PROVE  Called(y, G, a, b)' \/ Viewed(y, G, a, b)'
    <3>1. CASE c = 0
      <4>1. pc'[0] = "view"
        BY <1>7 DEF Ring
      <4>2. \A i \in Ring(G) : ~(i < 0)
        BY <1>2
      <4> QED
        BY <1>2, <1>3, <2>1, <3>1, <4>1, <4>2 DEF Viewed
    <3>2. CASE c # 0
      BY <1>1, <1>2, <1>3, <2>1, <3>2 DEF Called
    <3> QED
      BY <3>1, <3>2
  <2>2. ASSUME Called(y, G, a, b)', a # x
        PROVE  FALSE
    <3>1. b = y /\ a < y /\ a \in Ring(F) /\ send_to[a] = b /\ c # 0 /\ b = c
      BY <1>1, <1>2, <1>3, <2>2 DEF Called
    <3>2. a < x /\ Follows(F, a, c)
      BY <1>2, <1>5, <2>2, <3>1
    <3> QED
      BY <1>2, <3>1, <3>2 DEF Follows
  <2>3. ASSUME Viewed(y, G, a, b)', a # x
        PROVE  FALSE
    <3>1. c = 0 /\ a \in Ring(F) /\ b \in Ring(F) /\ send_to[a] = b /\ \A i \in Ring(F) : i < b => pc'[i] # "view"
      BY <1>1, <1>2, <1>3, <2>3 DEF Viewed, Ring
    <3>2. b = 0
      BY <1>2, <1>7, <3>1 DEF Ring
    <3>3. a < x /\ Follows(F, a, 0)
      BY <1>2, <1>5, <2>3, <3>1, <3>2
    <3> QED
      BY <1>2, <3>3 DEF Follows
  <2>4. Called(y, G, a, b)' \/ Viewed(y, G, a, b)' => b = send_to'[a]
    BY DEF Called, Viewed
  <2> QED
    BY <1>3, <2>1, <2>2, <2>3, <2>4
<1>16. ASSUME NEW a \in Ranks, NEW b \in Ranks
       PROVE  /\ Told(y, G, a, b)' => \E f : net'[a][b] = <<Topo(f)>> /\ Agrees(G, f, b)
              /\ Called(y, G, a, b)' \/ Viewed(y, G, a, b)' => net'[a][b] = <<Topo(G)>>
              /\ ~Told(y, G, a, b)' /\ ~Called(y, G, a, b)' /\ ~Viewed(y, G, a, b)' => net'[a][b] = <<>>
  <2>1. CASE a = x
    <3>1. ~Told(x, F, a, b) /\ Agrees(G, G, b)
      BY <2>1 DEF Told, Agrees
    <3> QED
      BY <1>13, <1>14, <1>15, <2>1, <3>1
  <2>2. CASE a # x /\ Told(x, F, a, b)
    <3>1. PICK f : net[a][b] = <<Topo(f)>> /\ Agrees(F, f, b)
      BY <2>2 DEF Rebuilding
    <3>2. b < x /\ x \in F
      BY <1>2, <2>2 DEF Told
    <3>3. Agrees(G, f, b)
      BY <1>2, <3>1, <3>2 DEF Agrees, G
    <3> QED
      BY <1>13, <1>14, <1>15, <2>2, <3>1, <3>3
  <2>3. CASE a # x /\ ~Told(x, F, a, b)
    BY <1>13, <1>14, <1>15, <2>3
  <2> QED
    BY <2>1, <2>2, <2>3
<1>17. Rebuilding(y, G)'
  BY <1>6, <1>8, <1>9, <1>16 DEF Rebuilding
<1> QED
  BY <1>1, <1>17

\* Where a device stands while the ring is rebuilt, and what is on its way.
LEMMA RingFacts ==
  ASSUME NEW x \in 0 .. NWorld, NEW F \in SUBSET Ranks, Rebuilding(x, F)
  PROVE  /\ \A r \in Ranks : r >= x => Untouched(r)
         /\ \A r \in Ring(F) : r \in Ranks /\ (r < x => Joined(x, F, r))
         /\ \A r \in Ranks \ Ring(F) : r < x => Leaves(x, F, r)
         /\ x < NWorld => x \in Ring(F) /\ \A i \in F : i <= x
         /\ \A r \in Ranks : pc[r] \in {"topo", "rebuild", "view", "ready", "exit", "stopping", "stopped"}
<1>1. \A r \in Ring(F) : r \in Ranks
  BY WorldFacts DEF Ring
<1>2. \A r \in Ranks : IF r >= x THEN Untouched(r) ELSE IF r \in Ring(F) THEN Joined(x, F, r) ELSE Leaves(x, F, r)
  BY DEF Rebuilding
<1>3. \A r \in Ranks : r \in Int /\ x \in Int
  BY WorldFacts
<1>4. /\ \A r \in Ranks : r >= x => Untouched(r)
      /\ \A r \in Ring(F) : r \in Ranks /\ (r < x => Joined(x, F, r))
      /\ \A r \in Ranks \ Ring(F) : r < x => Leaves(x, F, r)
  BY <1>1, <1>2, <1>3
<1>5. \A r \in Ranks : pc[r] \in {"topo", "rebuild", "view", "ready", "exit", "stopping", "stopped"}
  BY <1>2 DEF Untouched, Joined, Leaves
<1> QED
  BY <1>4, <1>5 DEF Rebuilding, Reach

\* What is on its way is a topology.
LEMMA TopoReceived ==
  ASSUME NEW x \in 0 .. NWorld, NEW F \in SUBSET Ranks, Rebuilding(x, F), NEW s \in Ranks, NEW r \in Ranks,
         net[s][r] # <<>>
  PROVE  /\ \E f : f \subseteq F /\ net[s][r] = <<Topo(f)>> /\ Agrees(F, f, r)
         /\ Told(x, F, s, r) \/ ((Called(x, F, s, r) \/ Viewed(x, F, s, r)) /\ net[s][r] = <<Topo(F)>>)
<1>1. Agrees(F, F, r) /\ \A f : Agrees(F, f, r) => f \subseteq F
  BY DEF Agrees
<1> QED
  BY <1>1 DEF Rebuilding

\* A device that was passed over leaves, and tells the next one when that has to leave, too.
LEMMA LeaverLeaves ==
  ASSUME RingTypes, Functions, NEW x \in 0 .. NWorld, NEW F \in SUBSET Ranks, Rebuilding(x, F),
         NEW r \in Ranks, r < x, r \notin Ring(F), pc[r] = "topo", working[r] = working[0],
         NEW s \in Ranks, Received(r, s, "topo"), NEW open, Rebuild(r, s, Head(net[s][r]).flags, open)
  PROVE  Rebuilding(x, F)' /\ flags'[r] \subseteq F
<1> USE WorldFacts
<1>1. Told(x, F, s, r) /\ s = r - 1 /\ pc[s] # "topo" /\ r # 0
  <2>1. net[s][r] # <<>>
    BY DEF Received
  <2>2. ~Called(x, F, s, r) /\ ~Viewed(x, F, s, r)
    BY DEF Called, Viewed
  <2>3. Told(x, F, s, r)
    BY <2>1, <2>2, TopoReceived
  <2>4. r = s + 1 /\ pc[s] # "topo"
    BY <2>3 DEF Told
  <2> QED
    BY <2>3, <2>4
<1>2. PICK f : net[s][r] = <<Topo(f)>> /\ f \subseteq F /\ Agrees(F, f, r)
  <2> HIDE WorldFacts
  <2>1. net[s][r] # <<>>
    BY DEF Received
  <2>2. \E f : f \subseteq F /\ net[s][r] = <<Topo(f)>> /\ Agrees(F, f, r)
    BY <2>1, TopoReceived
  <2> QED
    BY <2>2
<1>3. Head(net[s][r]).flags = f
  BY <1>2 DEF Topo
<1>4. r \notin working[r] \cup f
  BY <1>2 DEF Rebuilding, Reach, Ring
<1> DEFINE tells == r + 1 < x /\ r + 1 \notin Ring(F)
<1>5. TellsNext(r, f) <=> tells
  <2>1. CASE r = Last
    <3>1. Succ(r) = 0 /\ ~(r + 1 < x)
      BY <2>1, Modulo
    <3> QED
      BY <3>1 DEF TellsNext, Rebuilding, Chosen
  <2>2. CASE r # Last
    <3>1. Succ(r) = r + 1 /\ r + 1 \in Ranks /\ r + 1 # 0 /\ r + 1 <= x
      BY <2>2, Modulo
    <3>2. r + 1 \in F => r + 1 \in f
      <4>1. \A j \in F : j \in Int
        OBVIOUS
      <4>2. \A j \in F : ~(r < j /\ j < r + 1)
        BY <4>1
      <4>3. r < r + 1
        OBVIOUS
      <4> HIDE WorldFacts
      <4> QED
        BY <1>2, <4>2, <4>3 DEF Agrees
    <3>3. r + 1 = x => r + 1 \in F
      BY <3>1 DEF Rebuilding, Reach, Ring
    <3>4. r + 1 < x /\ r + 1 \notin F => r + 1 \notin working[0] \cup f
      BY <1>2, <3>1 DEF Rebuilding, Reach, Ring
    <3> QED
      BY <3>1, <3>2, <3>3, <3>4 DEF TellsNext, Ring
  <2> QED
    BY <2>1, <2>2
<1>6. tells => Succ(r) \notin working[r] \cup f /\ Succ(r) = r + 1
  <2>1. tells => r # Last
    OBVIOUS
  <2> QED
    BY <1>5, <2>1, Modulo DEF TellsNext
<1> HIDE DEF tells
<1>7. /\ net' = Exchanged(r, s, IF tells THEN Letter(send_to[r], Topo(f)) ELSE {})
      /\ flags' = [flags EXCEPT ![r] = f] /\ send_to' = [send_to EXCEPT ![r] = None]
      /\ signal_to' = [signal_to EXCEPT ![r] = @] /\ UNCHANGED <<auto, working>> /\ Go(r, "exit")
  <2>1. Rebuild(r, s, f, open)
    BY <1>3
  <2>2. net' = Exchanged(r, s, (IF tells THEN Letter(send_to[r], Topo(f)) ELSE {}) \cup {})
    BY <1>4, <1>5, <2>1 DEF Rebuild, Letter, Topo
  <2>3. Go(r, "exit")
    BY <1>4, <1>5, <1>6, <2>1 DEF Rebuild
  <2>4. flags' = [flags EXCEPT ![r] = f] /\ send_to' = [send_to EXCEPT ![r] = None]
        /\ signal_to' = [signal_to EXCEPT ![r] = @] /\ UNCHANGED <<auto, working>>
    BY <1>4, <2>1 DEF Rebuild
  <2>5. (IF tells THEN Letter(send_to[r], Topo(f)) ELSE {}) \cup {} = IF tells THEN Letter(send_to[r], Topo(f)) ELSE {}
    OBVIOUS
  <2> QED
    BY <2>2, <2>3, <2>4, <2>5
<1>8. /\ pc'[r] = "exit" /\ flags'[r] = f /\ UNCHANGED <<auto, working>>
      /\ \A q \in Ranks : q # r => pc'[q] = pc[q] /\ send_to'[q] = send_to[q] /\ flags'[q] = flags[q]
      /\ \A q \in Ranks : signal_to'[q] = signal_to[q]
  BY <1>7 DEF Go, Functions, RingTypes
<1>9. \A q \in Ring(F) : q \in Ranks /\ q # r
  BY RingFacts
<1>10. ASSUME NEW q \in Ranks
       PROVE  IF q >= x THEN Untouched(q)' ELSE IF q \in Ring(F) THEN Joined(x, F, q)' ELSE Leaves(x, F, q)'
  <2>1. CASE q >= x
    BY <1>8, <2>1, RingFacts DEF Untouched
  <2>2. CASE q < x /\ q \in Ring(F)
    <3>1. Joined(x, F, q)
      BY <2>2, RingFacts
    <3>2. pc'[q] = pc[q] /\ send_to'[q] = send_to[q] /\ signal_to'[q] = signal_to[q] /\ flags'[q] = flags[q]
      BY <1>8, <1>9, <2>2
    <3>3. Joined(x, F, q)'
      BY <1>8, <3>1, <3>2 DEF Joined
    <3> QED
      BY <2>2, <3>3
  <2>3. CASE q = r
    BY <1>8, <2>3 DEF Leaves
  <2>4. CASE q < x /\ q \notin Ring(F) /\ q # r
    <3>1. Leaves(x, F, q) /\ pc'[q] = pc[q] /\ send_to'[q] = send_to[q]
      BY <1>8, <2>4, RingFacts
    <3>2. q + 1 < x => q + 1 \in Ranks
      BY <2>4
    <3>3. q + 1 = r => pc[q] # "topo"
      BY <1>1, <2>4
    <3>4. Leaves(x, F, q)'
      BY <1>8, <3>1, <3>2, <3>3 DEF Leaves
    <3> QED
      BY <2>4, <3>4
  <2> QED
    BY <2>1, <2>2, <2>3, <2>4
<1>11. \A i, j \in Ring(F) : i < j /\ j < x /\ pc'[i] = "view" => pc'[j] = "view"
  BY <1>8, <1>9 DEF Rebuilding
<1>12. ASSUME NEW a \in Ranks, NEW b \in Ranks
       PROVE  net'[a][b] = IF a = r /\ tells /\ b = r + 1 THEN <<Topo(f)>>
                           ELSE IF a = s /\ b = r THEN <<>> ELSE net[a][b]
  <2>1. Rest(s, r, a, b) = IF a = s /\ b = r THEN <<>> ELSE net[a][b]
    <3>1. Tail(<<Topo(f)>>) = <<>>
      OBVIOUS
    <3> QED
      BY <1>2, <3>1 DEF Rest
  <2>2. CASE tells
    <3> DEFINE next == send_to[r]
    <3>1. next = r + 1
      BY <1>6, <2>2, RingFacts DEF Leaves
    <3>2. net' = Exchanged(r, s, Letter(next, Topo(f)))
      BY <1>7, <2>2
    <3>3. net'[a][b] = IF a = r /\ b = next THEN Append(Rest(s, r, a, b), Topo(f)) ELSE Rest(s, r, a, b)
      BY <3>2, ExchangedOne
    <3>4. a = r /\ b = r + 1 => net[a][b] = <<>> /\ ~(a = s)
      <4>1. a = r /\ b = r + 1 => ~Told(x, F, a, b) /\ ~Called(x, F, a, b) /\ ~Viewed(x, F, a, b)
        BY DEF Told, Called, Viewed
      <4> QED
        BY <1>1, <4>1 DEF Rebuilding
    <3> HIDE DEF next
    <3> QED
      BY <2>1, <2>2, <3>1, <3>3, <3>4, OneAppended
  <2>3. CASE ~tells
    <3>1. net' = Exchanged(r, s, {})
      BY <1>7, <2>3
    <3> QED
      BY <2>1, <2>3, <3>1, ExchangedNone
  <2> QED
    BY <2>2, <2>3
<1>13. ASSUME NEW a \in Ranks, NEW b \in Ranks
       PROVE  /\ Told(x, F, a, b)' <=> (Told(x, F, a, b) /\ b # r) \/ (a = r /\ tells /\ b = r + 1)
              /\ Called(x, F, a, b)' <=> Called(x, F, a, b)
              /\ Viewed(x, F, a, b)' <=> Viewed(x, F, a, b)
  <2>1. Told(x, F, a, b)' <=> (Told(x, F, a, b) /\ b # r) \/ (a = r /\ tells /\ b = r + 1)
    <3>1. tells => pc[r + 1] = "topo" /\ r + 1 \in Ranks /\ r + 1 # r
      BY RingFacts DEF Leaves, tells, Ring
    <3>2. CASE a = r
      BY <1>8, <3>1, <3>2 DEF Told, tells
    <3>3. CASE a # r
      BY <1>8, <3>3 DEF Told
    <3> QED
      BY <3>2, <3>3
  <2>2. Called(x, F, a, b)' <=> Called(x, F, a, b)
    BY <1>8, <1>9 DEF Called
  <2>3. Viewed(x, F, a, b)' <=> Viewed(x, F, a, b)
    BY <1>8, <1>9 DEF Viewed
  <2> QED
    BY <2>1, <2>2, <2>3
<1>14. ASSUME NEW a \in Ranks, NEW b \in Ranks
       PROVE  /\ Told(x, F, a, b)' => \E g : net'[a][b] = <<Topo(g)>> /\ Agrees(F, g, b)
              /\ Called(x, F, a, b)' \/ Viewed(x, F, a, b)' => net'[a][b] = <<Topo(F)>>
              /\ ~Told(x, F, a, b)' /\ ~Called(x, F, a, b)' /\ ~Viewed(x, F, a, b)' => net'[a][b] = <<>>
  <2>1. CASE a = r /\ tells /\ b = r + 1
    <3>1. Agrees(F, f, r + 1)
      <4>1. \A j \in F : j \in Ranks /\ j # r + 1
        BY <2>1 DEF tells, Ring
      <4> QED
        BY <1>2, <4>1 DEF Agrees
    <3>2. ~Called(x, F, a, b) /\ ~Viewed(x, F, a, b)
      BY <2>1 DEF Called, Viewed, tells
    <3> QED
      BY <1>12, <1>13, <2>1, <3>1, <3>2
  <2>2. CASE a = s /\ b = r
    <3>1. ~Called(x, F, a, b) /\ ~Viewed(x, F, a, b) /\ ~(a = r)
      BY <1>1, <1>9, <2>2 DEF Called, Viewed
    <3> QED
      BY <1>12, <1>13, <2>2, <3>1
  <2>3. CASE ~(a = r /\ tells /\ b = r + 1) /\ ~(a = s /\ b = r)
    <3>1. Told(x, F, a, b) => b # r
      BY <1>1, <2>3 DEF Told
    <3> QED
      BY <1>12, <1>13, <2>3, <3>1 DEF Rebuilding
  <2> QED
    BY <2>1, <2>2, <2>3
<1>15. auto'[0] /\ Chosen' /\ Reach(x, F)'
  BY <1>8 DEF Rebuilding, Chosen, Reach
<1> QED
  BY <1>2, <1>8, <1>10, <1>11, <1>14, <1>15 DEF Rebuilding

\* Two devices are not connected to the same one.
LEMMA FollowsOnce ==
  ASSUME NEW F \in SUBSET Ranks, NEW a \in Ring(F), NEW s \in Ring(F), NEW q \in Ranks,
         Follows(F, a, q), Follows(F, s, q)
  PROVE  a = s
<1>1. a \in Int /\ s \in Int /\ q \in Int
  BY WorldFacts DEF Ring
<1>2. a < s => q # 0 /\ q <= s /\ (q = 0 \/ s < q)
  BY DEF Follows
<1>3. s < a => q # 0 /\ q <= a /\ (q = 0 \/ a < q)
  BY DEF Follows
<1> QED
  BY <1>1, <1>2, <1>3

\* A device keeps the flags of all, and passes them on unless the master follows.
LEMMA ViewPassed ==
  ASSUME RingTypes, Functions, NEW x \in 0 .. NWorld, NEW F \in SUBSET Ranks, Rebuilding(x, F),
         NEW r \in Ranks, NEW s \in Ranks, PassView(r, s)
  PROVE  Rebuilding(x, F)' /\ flags'[r] = F
<1> USE WorldFacts
<1>1. pc[r] = "view" /\ net[s][r] # <<>>
  BY DEF PassView, Received
<1>2. Viewed(x, F, s, r) /\ net[s][r] = <<Topo(F)>> /\ x = NWorld
  <2>1. ~Told(x, F, s, r)
    BY <1>1 DEF Told
  <2>2. ~(r >= x)
    BY <1>1, RingFacts DEF Untouched
  <2>3. ~Called(x, F, s, r)
    BY <2>2 DEF Called
  <2> QED
    BY <1>1, <2>1, <2>3, TopoReceived DEF Viewed
<1>3. s \in Ring(F) /\ r \in Ring(F) /\ send_to[s] = r /\ \A i \in Ring(F) : i < r => pc[i] # "view"
  BY <1>2 DEF Viewed
<1>4. \A i \in Ring(F) : i \in Ranks /\ i < x /\ Joined(x, F, i)
  BY <1>2, RingFacts
<1>5. working[0] # {0}
  BY <1>3, <1>4, NoneAssumption DEF Joined
<1>6. \A i \in Ring(F) : Follows(F, i, send_to[i])
  BY <1>4, <1>5 DEF Joined
<1> DEFINE q == send_to[r]
<1>7. Follows(F, r, q) /\ q # r /\ q \in Ring(F) /\ q \in Ranks
  BY <1>3, <1>4, <1>6 DEF RingTypes, Follows
<1>8. Head(net[s][r]) = Topo(F) /\ Topo(F).flags = F
  BY <1>2 DEF Topo
<1>9. /\ flags' = [flags EXCEPT ![r] = F] /\ Go(r, "ready")
      /\ net' = Exchanged(r, s, IF q = 0 THEN {} ELSE Letter(q, Topo(F)))
      /\ UNCHANGED <<auto, working, send_to, signal_to>>
  BY <1>8 DEF PassView, Letter
<1>10. /\ flags'[r] = F /\ pc'[r] = "ready" /\ UNCHANGED <<auto, working, send_to, signal_to>>
       /\ \A i \in Ranks : i # r => pc'[i] = pc[i] /\ flags'[i] = flags[i]
  BY <1>9 DEF Go, Functions, RingTypes
<1> HIDE DEF q
<1>11. ASSUME NEW i \in Ranks
       PROVE  IF i >= x THEN Untouched(i)' ELSE IF i \in Ring(F) THEN Joined(x, F, i)' ELSE Leaves(x, F, i)'
  <2>1. ~(i >= x)
    BY <1>2
  <2>2. CASE i = r
    <3>1. Follows(F, r, send_to'[r]) /\ signal_to'[r] = send_to'[r]
      BY <1>3, <1>4, <1>5, <1>10 DEF Joined
    <3> QED
      BY <1>2, <1>3, <1>5, <1>10, <2>1, <2>2, <3>1 DEF Joined
  <2>3. CASE i # r /\ i \in Ring(F)
    BY <1>4, <1>10, <2>1, <2>3 DEF Joined
  <2>4. CASE i \notin Ring(F)
    <3>1. Leaves(x, F, i) /\ i # r
      BY <1>3, <2>1, <2>4, RingFacts
    <3>2. i + 1 < x => i + 1 \in Ranks
      BY <1>2
    <3>3. Leaves(x, F, i)'
      BY <1>1, <1>10, <3>1, <3>2 DEF Leaves
    <3> QED
      BY <2>1, <2>4, <3>3
  <2> QED
    BY <2>2, <2>3, <2>4
<1>12. ASSUME NEW i \in Ring(F), NEW j \in Ring(F), i < j, j < x, pc'[i] = "view"
       PROVE  pc'[j] = "view"
  <2>1. i # r /\ pc[i] = "view" /\ i \in Ranks /\ j \in Ranks
    BY <1>4, <1>10, <1>12
  <2>2. pc[j] = "view"
    BY <1>12, <2>1 DEF Rebuilding
  <2>3. j # r
    BY <1>3, <1>12, <2>1
  <2> QED
    BY <1>10, <2>1, <2>2, <2>3
<1>13. ASSUME NEW a \in Ranks, NEW b \in Ranks, Viewed(x, F, a, b)
       PROVE  a = s /\ b = r
  <2>1. a \in Ring(F) /\ b \in Ring(F) /\ send_to[a] = b /\ pc[b] = "view" /\ \A i \in Ring(F) : i < b => pc[i] # "view"
    BY <1>13 DEF Viewed
  <2>2. b = r
    BY <1>1, <1>3, <2>1
  <2>3. Follows(F, a, r) /\ Follows(F, s, r)
    BY <1>3, <1>6, <2>1, <2>2
  <2> QED
    BY <1>3, <2>1, <2>2, <2>3, FollowsOnce
<1>14. ASSUME NEW a \in Ranks, NEW b \in Ranks
       PROVE  /\ Told(x, F, a, b)' <=> Told(x, F, a, b)
              /\ ~Called(x, F, a, b) /\ ~Called(x, F, a, b)'
              /\ Viewed(x, F, a, b)' <=> a = r /\ b = q /\ q # 0
  <2>1. Told(x, F, a, b)' <=> Told(x, F, a, b)
    BY <1>1, <1>10 DEF Told
  <2>2. ~Called(x, F, a, b) /\ ~Called(x, F, a, b)'
    BY <1>2 DEF Called
  <2>3. ASSUME a = r, b = q, q # 0
        PROVE  Viewed(x, F, a, b)'
    <3>1. r < q /\ q \in Ranks /\ q < x
      BY <1>4, <1>7, <2>3 DEF Follows
    <3>2. pc[q] = "view"
      BY <1>1, <1>3, <1>7, <3>1 DEF Rebuilding
    <3>3. ASSUME NEW i \in Ring(F), i < q
          PROVE  pc'[i] # "view"
      <4>1. i \in Ranks /\ ~(r < i)
        BY <1>4, <1>7, <3>1, <3>3 DEF Follows
      <4>2. i = r \/ i < r
        BY <4>1
      <4> QED
        BY <1>3, <1>10, <4>1, <4>2
    <3> QED
      BY <1>2, <1>3, <1>7, <1>10, <2>3, <3>2, <3>3 DEF Viewed, q
  <2>4. ASSUME Viewed(x, F, a, b)'
        PROVE  a = r /\ b = q /\ q # 0
    <3>1. a \in Ring(F) /\ b \in Ring(F) /\ send_to[a] = b /\ pc'[b] = "view" /\ \A i \in Ring(F) : i < b => pc'[i] # "view"
      BY <1>10, <2>4 DEF Viewed
    <3>2. b # r /\ pc[b] = "view" /\ r < b
      BY <1>3, <1>10, <3>1
    <3>3. q # 0 /\ q <= b /\ r < q
      BY <1>7, <3>1, <3>2 DEF Follows
    <3>4. q < x /\ pc'[q] = "view"
      BY <1>1, <1>3, <1>4, <1>7, <1>10, <3>3 DEF Rebuilding
    <3>5. b = q
      BY <1>7, <3>1, <3>3, <3>4
    <3>6. Follows(F, a, q)
      BY <1>6, <3>1, <3>5
    <3> QED
      BY <1>3, <1>7, <3>1, <3>3, <3>5, <3>6, FollowsOnce
  <2> QED
    BY <2>1, <2>2, <2>3, <2>4
<1>15. ASSUME NEW a \in Ranks, NEW b \in Ranks
       PROVE  net'[a][b] = IF a = r /\ b = q /\ q # 0 THEN <<Topo(F)>>
                           ELSE IF a = s /\ b = r THEN <<>> ELSE net[a][b]
  <2>1. Rest(s, r, a, b) = IF a = s /\ b = r THEN <<>> ELSE net[a][b]
    <3>1. Tail(<<Topo(F)>>) = <<>>
      OBVIOUS
    <3> QED
      BY <1>2, <3>1 DEF Rest
  <2>2. CASE q # 0
    <3>1. net' = Exchanged(r, s, Letter(q, Topo(F)))
      BY <1>9, <2>2
    <3>2. net'[a][b] = IF a = r /\ b = q THEN Append(Rest(s, r, a, b), Topo(F)) ELSE Rest(s, r, a, b)
      BY <3>1, ExchangedOne
    <3>3. a = r /\ b = q => net[a][b] = <<>> /\ ~(b = r)
      <4>1. a = r /\ b = q => ~Told(x, F, a, b) /\ ~Viewed(x, F, a, b)
        BY <1>7, <1>13 DEF Told
      <4> QED
        BY <1>7, <1>14, <4>1 DEF Rebuilding
    <3> QED
      BY <2>1, <2>2, <3>2, <3>3, OneAppended
  <2>3. CASE q = 0
    <3>1. net' = Exchanged(r, s, {})
      BY <1>9, <2>3
    <3> QED
      BY <2>1, <2>3, <3>1, ExchangedNone
  <2> QED
    BY <2>2, <2>3
<1>16. ASSUME NEW a \in Ranks, NEW b \in Ranks
       PROVE  /\ Told(x, F, a, b)' => \E f : net'[a][b] = <<Topo(f)>> /\ Agrees(F, f, b)
              /\ Called(x, F, a, b)' \/ Viewed(x, F, a, b)' => net'[a][b] = <<Topo(F)>>
              /\ ~Told(x, F, a, b)' /\ ~Called(x, F, a, b)' /\ ~Viewed(x, F, a, b)' => net'[a][b] = <<>>
  <2>1. CASE Told(x, F, a, b)
    <3>1. b # r /\ b # q
      BY <1>1, <1>7, <2>1 DEF Told
    <3> QED
      BY <1>14, <1>15, <2>1, <3>1 DEF Rebuilding
  <2>2. CASE ~Told(x, F, a, b)
    <3>1. (a = s /\ b = r) \/ net[a][b] = <<>>
      BY <1>13, <1>14, <2>2 DEF Rebuilding
    <3> QED
      BY <1>14, <1>15, <2>2, <3>1
  <2> QED
    BY <2>1, <2>2
<1>17. auto'[0] /\ Chosen' /\ Reach(x, F)'
  BY <1>10 DEF Rebuilding, Chosen, Reach
<1> QED
  BY <1>10, <1>11, <1>12, <1>16, <1>17 DEF Rebuilding

\* A device stops when it has its place.
Stops(r) == pc'[r] = pc[r] \/ (pc[r] \in {"ready", "stopping"} /\ pc'[r] \in {"stopping", "stopped"})

LEMMA StopsKeep ==
  ASSUME NEW x \in 0 .. NWorld, NEW F \in SUBSET Ranks, Rebuilding(x, F),
         UNCHANGED <<view, send_to, signal_to, net>>, \A r \in Ranks : Stops(r)
  PROVE  Rebuilding(x, F)'
<1>1. UNCHANGED <<auto, working, flags, send_to, signal_to, net>>
  BY DEF view
<1>2. \A r \in Ranks : \A p \in {"topo", "view", "exit", "rebuild"} : pc'[r] = p <=> pc[r] = p
  BY DEF Stops
<1>3. \A r \in Ring(F) : r \in Ranks
  BY WorldFacts DEF Ring
<1>4. ASSUME NEW r \in Ranks
      PROVE  IF r >= x THEN Untouched(r)' ELSE IF r \in Ring(F) THEN Joined(x, F, r)' ELSE Leaves(x, F, r)'
  <2>1. CASE r >= x
    BY <1>1, <1>2, <2>1, RingFacts DEF Untouched
  <2>2. CASE ~(r >= x) /\ r \in Ring(F)
    <3>1. Joined(x, F, r)
      BY <2>2, WorldFacts, RingFacts
    <3>2. Joined(x, F, r)'
      BY <1>1, <3>1 DEF Joined, Stops
    <3> QED
      BY <2>2, <3>2
  <2>3. CASE ~(r >= x) /\ r \notin Ring(F)
    <3>1. Leaves(x, F, r)
      BY <2>3, WorldFacts, RingFacts
    <3>2. r + 1 < x => r + 1 \in Ranks
      BY WorldFacts
    <3>3. Leaves(x, F, r)'
      BY <1>1, <1>2, <3>1, <3>2 DEF Leaves
    <3> QED
      BY <2>3, <3>3
  <2> QED
    BY <2>1, <2>2, <2>3
<1>5. \A i, j \in Ring(F) : i < j /\ j < x /\ pc'[i] = "view" => pc'[j] = "view"
  BY <1>2, <1>3 DEF Rebuilding
<1>6. ASSUME NEW a \in Ranks, NEW b \in Ranks
      PROVE  /\ Told(x, F, a, b)' <=> Told(x, F, a, b)
             /\ Called(x, F, a, b)' <=> Called(x, F, a, b)
             /\ Viewed(x, F, a, b)' <=> Viewed(x, F, a, b)
  BY <1>1, <1>2, <1>3 DEF Told, Called, Viewed
<1>7. auto'[0] /\ Chosen' /\ Reach(x, F)'
  BY <1>1 DEF Rebuilding, Chosen, Reach
<1>8. ASSUME NEW a \in Ranks, NEW b \in Ranks
      PROVE  /\ Told(x, F, a, b)' => \E f : net'[a][b] = <<Topo(f)>> /\ Agrees(F, f, b)
             /\ Called(x, F, a, b)' \/ Viewed(x, F, a, b)' => net'[a][b] = <<Topo(F)>>
             /\ ~Told(x, F, a, b)' /\ ~Called(x, F, a, b)' /\ ~Viewed(x, F, a, b)' => net'[a][b] = <<>>
  BY <1>1, <1>6 DEF Rebuilding
<1> QED
  BY <1>4, <1>5, <1>7, <1>8 DEF Rebuilding

-----------------------------------------------------------------------------
(* The steps of the rebuilding                                             *)

LEMMA TypesSet ==
  ASSUME RingTypes, NEW r \in Ranks, NEW f \in SUBSET Ranks, NEW to \in Ranks \cup {None}, to # r,
         flags' = [flags EXCEPT ![r] = f], send_to' = [send_to EXCEPT ![r] = to], signals' = signals,
         signal_to' = signal_to \/ (to \in Ranks /\ signal_to' = [signal_to EXCEPT ![r] = to])
  PROVE  RingTypes'
<1>1. flags' \in [Ranks -> SUBSET Ranks] /\ signals' \subseteq Ranks
  BY DEF RingTypes
<1>2. send_to' \in [Ranks -> Ranks \cup {None}] /\ \A q \in Ranks : send_to'[q] # q
  BY DEF RingTypes
<1>3. signal_to' \in [Ranks -> Ranks] /\ \A q \in Ranks : signal_to'[q] # q
  BY DEF RingTypes
<1> QED
  BY <1>1, <1>2, <1>3 DEF RingTypes

\* While the ring is rebuilt every device knows which devices have a layer.
LEMMA WorkingKnown ==
  ASSUME RoundInv, NEW x \in 0 .. NWorld, NEW F \in SUBSET Ranks, Rebuilding(x, F)
  PROVE  \A r \in Ranks : working[r] = working[0]
<1>1. pc[0] \in {"rebuild", "view", "ready", "stopping", "stopped"}
  <2>1. CASE x = 0
    BY <2>1, WorldFacts, RingFacts DEF Untouched
  <2>2. CASE x > 0
    BY <2>2, WorldFacts, RingFacts DEF Joined, Ring
  <2> QED
    BY <2>1, <2>2
<1> QED
  BY <1>1, RoundInvMeans DEF Barriers

\* The device the rebuilding has come to rebuilds.
LEMMA NextRebuilt ==
  ASSUME RingTypes, Functions, NEW x \in Ranks, NEW F \in SUBSET Ranks, Rebuilding(x, F), working[x] = working[0],
         NEW s, NEW open, Rebuild(x, s, F, open),
         \A a, b \in Ranks : Rest(s, x, a, b) = IF Told(x, F, a, b) THEN net[a][b] ELSE <<>>
  PROVE  RingTypes' /\ \E y \in 0 .. NWorld, G \in SUBSET Ranks : Rebuilding(y, G)'
<1> USE WorldFacts
<1>1. Chosen /\ x \in Ring(F) /\ \A i \in F : i <= x /\ i # 0
  BY DEF Rebuilding, Reach
<1>2. /\ UNCHANGED <<auto, working, signals>>
      /\ IF x = 0 /\ working[0] = {0} THEN EndsAlone(x, s, F)
         ELSE \E c \in Ranks : Reachable(x, c) /\ Connects(x, s, F, c)
  BY <1>1, RebuildIs
<1>3. CASE x = 0 /\ working[0] = {0}
  <2>1. EndsAlone(0, s, F)
    BY <1>2, <1>3
  <2>2. ASSUME NEW a \in Ranks, NEW b \in Ranks
        PROVE  Rest(s, 0, a, b) = <<>>
    <3>1. ~Told(0, F, a, b)
      BY DEF Told
    <3> QED
      BY <1>3, <3>1
  <2>3. Rebuilding(NWorld, {})'
    BY <1>2, <1>3, <2>1, <2>2, AloneRebuilt
  <2>4. RingTypes'
    BY <1>2, <2>1, TypesSet, NoneAssumption DEF EndsAlone
  <2>5. NWorld \in 0 .. NWorld /\ {} \in SUBSET Ranks
    OBVIOUS
  <2> QED
    BY <2>3, <2>4, <2>5
<1>4. ASSUME ~(x = 0 /\ working[0] = {0}), NEW c \in Ranks, Reachable(x, c), Connects(x, s, F, c)
      PROVE  RingTypes' /\ \E y \in 0 .. NWorld, G \in SUBSET Ranks : Rebuilding(y, G)'
  <2>1. \E y \in 0 .. NWorld, G \in SUBSET Ranks : Rebuilding(y, G)'
    BY <1>2, <1>4, Connected
  <2>2. c # x /\ F \cup {c} \in SUBSET Ranks
    BY <1>4 DEF Reachable
  <2>3. RingTypes'
    BY <1>2, <1>4, <2>2, TypesSet DEF Connects
  <2> QED
    BY <2>1, <2>3
<1> QED
  BY <1>2, <1>3, <1>4

LEMMA FirstRebuilt ==
  ASSUME RoundInv, RingTypes, NEW x \in 0 .. NWorld, NEW F \in SUBSET Ranks, Rebuilding(x, F), RebuildFirst
  PROVE  RingTypes' /\ \E y \in 0 .. NWorld, G \in SUBSET Ranks : Rebuilding(y, G)'
<1> USE WorldFacts
<1>1. pc[0] = "rebuild"
  BY DEF RebuildFirst
<1>2. x = 0
  <2>1. 0 < x => Joined(x, F, 0)
    BY RingFacts DEF Ring
  <2> QED
    BY <1>1, <2>1 DEF Joined
<1>3. F = {}
  <2>1. \A i \in F : i \in 0 .. NWorld - 1 /\ i <= 0 /\ i # 0
    BY <1>2 DEF Rebuilding, Reach
  <2> QED
    BY <2>1
<1>4. PICK open : Rebuild(0, None, F, open)
  BY <1>3 DEF RebuildFirst
<1>5. ASSUME NEW a \in Ranks, NEW b \in Ranks
      PROVE  Rest(None, 0, a, b) = IF Told(0, F, a, b) THEN net[a][b] ELSE <<>>
  <2>1. ~Told(0, F, a, b) /\ ~Called(0, F, a, b) /\ ~Viewed(0, F, a, b)
    BY DEF Told, Called, Viewed
  <2>2. net[a][b] = <<>>
    BY <1>2, <2>1 DEF Rebuilding
  <2> QED
    BY <2>1, <2>2, NoneAssumption DEF Rest
<1>6. Rebuilding(0, F) /\ Functions
  BY <1>2 DEF RoundInv
<1>7. 0 \in Ranks /\ working[0] = working[0]
  OBVIOUS
<1> HIDE WorldFacts
<1> QED
  BY <1>4, <1>5, <1>6, <1>7, NextRebuilt

LEMMA OtherRebuilt ==
  ASSUME RoundInv, RingTypes, NEW x \in 0 .. NWorld, NEW F \in SUBSET Ranks, Rebuilding(x, F),
         NEW r \in Ranks, NEW s \in Ranks, RebuildNext(r, s)
  PROVE  RingTypes' /\ \E y \in 0 .. NWorld, G \in SUBSET Ranks : Rebuilding(y, G)'
<1> USE WorldFacts
<1>1. pc[r] = "topo" /\ net[s][r] # <<>> /\ Received(r, s, "topo") /\ working[r] = working[0]
  BY WorkingKnown DEF RebuildNext, Received
<1>2. PICK open : Rebuild(r, s, Head(net[s][r]).flags, open)
  BY DEF RebuildNext
<1>3. CASE r >= x
  <2>1. ~Told(x, F, s, r) /\ ~Viewed(x, F, s, r)
    BY <1>1, <1>3 DEF Told, Viewed
  <2>2. Called(x, F, s, r) /\ net[s][r] = <<Topo(F)>>
    BY <1>1, <2>1, TopoReceived
  <2>3. r = x /\ s < x /\ s \in Ring(F) /\ send_to[s] = x
    BY <2>2 DEF Called
  <2>4. 0 < x /\ x < NWorld
    BY <2>3
  <2>5. \A a \in Ring(F) : a < x => Follows(F, a, send_to[a])
    BY <2>4, RingFacts DEF Joined, Rebuilding, Reach
  <2>6. Head(net[s][r]).flags = F
    BY <2>2 DEF Topo
  <2>7. Rebuild(x, s, F, open)
    BY <1>2, <2>3, <2>6
  <2>8. ASSUME NEW a \in Ranks, NEW b \in Ranks
        PROVE  Rest(s, x, a, b) = IF Told(x, F, a, b) THEN net[a][b] ELSE <<>>
    <3>1. ~Viewed(x, F, a, b)
      BY <2>4 DEF Viewed
    <3>2. Called(x, F, a, b) => a = s /\ b = x
      BY <2>3, <2>5, FollowsOnce DEF Called
    <3>3. Tail(<<Topo(F)>>) = <<>>
      OBVIOUS
    <3>4. CASE a = s /\ b = x
      <4>1. ~Told(x, F, a, b)
        BY <3>4 DEF Told
      <4> QED
        BY <2>2, <2>3, <3>3, <3>4, <4>1 DEF Rest
    <3>5. CASE ~(a = s /\ b = x)
      <4>1. ~Told(x, F, a, b) => net[a][b] = <<>>
        BY <3>1, <3>2, <3>5 DEF Rebuilding
      <4> QED
        BY <3>5, <4>1 DEF Rest
    <3> QED
      BY <3>4, <3>5
  <2>9. Functions /\ x \in Ranks /\ working[x] = working[0]
    BY <1>1, <2>3 DEF RoundInv
  <2> QED
    BY <2>7, <2>8, <2>9, NextRebuilt
<1>4. CASE ~(r >= x)
  <2>1. r \notin Ring(F)
    BY <1>1, <1>4, RingFacts DEF Joined
  <2>2. Functions /\ r < x
    BY <1>4 DEF RoundInv
  <2>3. Rebuilding(x, F)' /\ flags'[r] \subseteq F
    BY <1>1, <1>2, <2>1, <2>2, LeaverLeaves
  <2>4. PICK f : f \subseteq F /\ net[s][r] = <<Topo(f)>>
    <3> HIDE WorldFacts
    <3>1. \E f : f \subseteq F /\ net[s][r] = <<Topo(f)>> /\ Agrees(F, f, r)
      BY <1>1, TopoReceived
    <3> QED
      BY <3>1
  <2>5. Head(net[s][r]).flags = f /\ r \notin working[r] \cup f
    <3>1. Head(net[s][r]).flags = f
      BY <2>4 DEF Topo
    <3> QED
      BY <1>1, <2>1, <2>2, <2>4, <3>1 DEF Rebuilding, Reach, Ring
  <2>6. /\ flags' = [flags EXCEPT ![r] = f] /\ send_to' = [send_to EXCEPT ![r] = None]
        /\ signal_to' = [signal_to EXCEPT ![r] = @] /\ signals' = signals
    BY <1>2, <2>5 DEF Rebuild
  <2>7. signal_to' = signal_to
    BY <2>6 DEF RingTypes
  <2>8. RingTypes'
    BY <2>4, <2>6, <2>7, TypesSet, NoneAssumption
  <2> QED
    BY <2>3, <2>8
<1> QED
  BY <1>3, <1>4

\* A STOP goes to a device, and nothing else happens.
LEMMA StopSteps ==
  ASSUME Functions, RingTypes, SendStop \/ \E r \in Ranks : PassStop(r)
  PROVE  UNCHANGED <<view, send_to, signal_to, net>> /\ (\A q \in Ranks : Stops(q)) /\ RingTypes'
<1> USE WorldFacts
<1>1. UNCHANGED <<view, send_to, signal_to, net>>
  BY DEF SendStop, PassStop
<1>2. \A r \in Ranks : StopTarget(r) \in Ranks
  BY DEF StopTarget, RingTypes
<1>3. signals' \subseteq Ranks
  BY <1>2 DEF SendStop, PassStop, RingTypes
<1>4. RingTypes'
  BY <1>1, <1>3 DEF RingTypes, view
<1>5. CASE SendStop
  BY <1>1, <1>4, <1>5 DEF SendStop, Go, Functions, Stops
<1>6. ASSUME NEW r \in Ranks, PassStop(r)
      PROVE  \A q \in Ranks : Stops(q)
  BY <1>6 DEF PassStop, Go, Functions, Stops
<1> QED
  BY <1>1, <1>4, <1>5, <1>6

LEMMA RebuildingKept ==
  ASSUME RoundInv, RingTypes, NEW x \in 0 .. NWorld, NEW F \in SUBSET Ranks, Rebuilding(x, F), [Next]_vars
  PROVE  RingInv'
<1> USE WorldFacts
<1> DEFINE Ok == RingTypes' /\ \E y \in 0 .. NWorld, G \in SUBSET Ranks : Rebuilding(y, G)'
<1>1. Functions
  BY DEF RoundInv
<1>2. CASE UNCHANGED vars
  <2>1. RingTypes'
    BY <1>2 DEF vars, view, RingTypes
  <2>2. UNCHANGED <<view, send_to, signal_to, net>>
    BY <1>2 DEF vars, view
  <2>3. \A r \in Ranks : Stops(r)
    BY <1>2 DEF vars, Stops
  <2>4. Rebuilding(x, F)'
    BY <2>2, <2>3, StopsKeep
  <2> QED
    BY <2>1, <2>4 DEF RingInv
<1>3. CASE SendStop \/ \E r \in Ranks : PassStop(r)
  <2>1. UNCHANGED <<view, send_to, signal_to, net>> /\ (\A r \in Ranks : Stops(r)) /\ RingTypes'
    BY <1>1, <1>3, StopSteps
  <2>2. Rebuilding(x, F)'
    BY <2>1, StopsKeep
  <2> QED
    BY <2>1, <2>2 DEF RingInv
<1>4. ASSUME NEW r \in Ranks, NEW s \in Ranks, PassView(r, s)
      PROVE  RingInv'
  <2>1. Rebuilding(x, F)' /\ flags'[r] = F
    BY <1>1, <1>4, ViewPassed
  <2>2. flags' \in [Ranks -> SUBSET Ranks] /\ UNCHANGED <<send_to, signal_to, signals>>
    BY <1>4, <2>1 DEF PassView, RingTypes
  <2>3. RingTypes'
    BY <2>2 DEF RingTypes
  <2> QED
    BY <2>1, <2>3 DEF RingInv
<1>5. CASE RebuildFirst
  <2>1. RingTypes' /\ \E y \in 0 .. NWorld, G \in SUBSET Ranks : Rebuilding(y, G)'
    BY <1>5, FirstRebuilt
  <2> QED
    BY <2>1 DEF RingInv
<1>6. ASSUME NEW r \in Ranks, NEW s \in Ranks, RebuildNext(r, s)
      PROVE  RingInv'
  <2>1. RingTypes' /\ \E y \in 0 .. NWorld, G \in SUBSET Ranks : Rebuilding(y, G)'
    BY <1>6, OtherRebuilt
  <2> QED
    BY <2>1 DEF RingInv
<1>7. \A r \in Ranks : pc[r] \in {"topo", "rebuild", "view", "ready", "exit", "stopping", "stopped"}
  BY RingFacts
<1>8. /\ ~SendArgs /\ \A w : ~SendSetup(w)
      /\ \A r, s \in Ranks : /\ ~PassArgs(r, s) /\ ~PassInfo(r, s) /\ ~PassSetup(r, s)
                             /\ ~SendInfo(s) /\ ~GatherInfo(s) /\ ~EndSetup(s)
  <2>1. 0 \in Ranks /\ pc[0] \notin {"start", "assign", "args_ack", "infos", "setup_ack"}
    BY <1>7, RankFacts
  <2>2. \A r \in Ranks : pc[r] \notin {"args", "infos", "setup"}
    BY <1>7
  <2>3. ~SendArgs /\ (\A w : ~SendSetup(w)) /\ \A s : ~SendInfo(s) /\ ~GatherInfo(s) /\ ~EndSetup(s)
    BY <2>1 DEF SendArgs, SendSetup, SendInfo, GatherInfo, EndSetup
  <2>4. \A r, s \in Ranks : ~PassArgs(r, s) /\ ~PassInfo(r, s) /\ ~PassSetup(r, s)
    BY <2>2 DEF PassArgs, PassInfo, PassSetup
  <2> QED
    BY <2>3, <2>4
<1> QED
  BY <1>2, <1>3, <1>4, <1>5, <1>6, <1>8 DEF Next, Device

LEMMA KeptRingKept ==
  ASSUME RoundInv, RingTypes, KeptRing, [Next]_vars
  PROVE  RingInv'
<1> USE WorldFacts
<1>1. \A r \in Ranks : pc[r] \in {"ready", "stopping", "stopped"}
  BY DEF KeptRing
<1>2. UNCHANGED vars \/ SendStop \/ \E r \in Ranks : PassStop(r)
  <2>1. /\ ~SendArgs /\ ~RebuildFirst /\ (\A w : ~SendSetup(w))
        /\ \A s \in Ranks : ~SendInfo(s) /\ ~GatherInfo(s) /\ ~EndSetup(s)
    BY <1>1 DEF SendArgs, RebuildFirst, SendSetup, SendInfo, GatherInfo, EndSetup
  <2>2. \A r, s \in Ranks : /\ ~PassArgs(r, s) /\ ~PassInfo(r, s) /\ ~PassSetup(r, s)
                            /\ ~RebuildNext(r, s) /\ ~PassView(r, s)
    BY <1>1 DEF PassArgs, PassInfo, PassSetup, RebuildNext, PassView
  <2> QED
    BY <2>1, <2>2 DEF Next, Device
<1>3. UNCHANGED <<view, send_to, signal_to, net>> /\ (\A q \in Ranks : Stops(q)) /\ RingTypes'
  <2>1. CASE UNCHANGED vars
    BY <2>1 DEF vars, view, Stops, RingTypes
  <2>2. CASE SendStop \/ \E r \in Ranks : PassStop(r)
    BY <2>2, StopSteps DEF RoundInv
  <2> QED
    BY <1>2, <2>1, <2>2
<1>4. KeptRing'
  BY <1>1, <1>3 DEF KeptRing, Chosen, NoMessage, NoMessageIn, Stops, view
<1> QED
  BY <1>3, <1>4 DEF RingInv

\* A device without a layer leaves after the master, and tells the next one when that has none either.
LEMMA DeserterLeaves ==
  ASSUME Functions, RingTypes, NEW x \in Ranks, Deserted(x), x \notin working[0], working[x] = working[0],
         NEW s, NEW open, Rebuild(x, s, {}, open), \A a, b \in Ranks : Rest(s, x, a, b) = <<>>
  PROVE  RingTypes' /\ Deserted(x + 1)'
<1> USE WorldFacts
<1>1. x + 1 \in Ranks /\ Succ(x) = x + 1 /\ \A w \in working[0] : x + 1 <= w
  <2>1. PICK w \in working[0] : w \in Ranks /\ x <= w /\ w # x
    BY DEF Deserted
  <2>2. x # Last /\ x + 1 \in Ranks
    BY <2>1
  <2>3. ASSUME NEW v \in working[0] PROVE x + 1 <= v
    <3>1. v \in Ranks /\ x <= v /\ v # x
      BY DEF Deserted
    <3> QED
      BY <3>1
  <2>4. Succ(x) = x + 1
    BY <2>2, Modulo
  <2> QED
    BY <2>2, <2>3, <2>4
<1> DEFINE tells == x + 1 \notin working[0]
           next == x + 1
<1>2. x \notin working[x] \cup {} /\ (TellsNext(x, {}) <=> tells) /\ (tells => Succ(x) \notin working[x] \cup {})
  BY <1>1 DEF TellsNext
<1>3. send_to[x] = next /\ next \in Ranks /\ next # x
  BY <1>1 DEF Deserted
<1> HIDE DEF tells, next
<1>4. /\ net' = Exchanged(x, s, IF tells THEN Letter(send_to[x], Topo({})) ELSE {})
      /\ flags' = [flags EXCEPT ![x] = {}] /\ send_to' = [send_to EXCEPT ![x] = None]
      /\ signal_to' = [signal_to EXCEPT ![x] = @] /\ UNCHANGED <<auto, working, signals>> /\ Go(x, "exit")
  <2>1. net' = Exchanged(x, s, (IF tells THEN Letter(send_to[x], Topo({})) ELSE {}) \cup {})
    BY <1>2 DEF Rebuild, Letter, Topo
  <2>2. Go(x, "exit")
    BY <1>2 DEF Rebuild
  <2>3. flags' = [flags EXCEPT ![x] = {}] /\ send_to' = [send_to EXCEPT ![x] = None]
        /\ signal_to' = [signal_to EXCEPT ![x] = @] /\ UNCHANGED <<auto, working, signals>>
    BY <1>2 DEF Rebuild
  <2>4. (IF tells THEN Letter(send_to[x], Topo({})) ELSE {}) \cup {} = IF tells THEN Letter(send_to[x], Topo({})) ELSE {}
    OBVIOUS
  <2> QED
    BY <2>1, <2>2, <2>3, <2>4
<1>5. /\ pc'[x] = "exit" /\ UNCHANGED <<auto, working, signal_to>>
      /\ \A q \in Ranks : /\ q # x => pc'[q] = pc[q] /\ send_to'[q] = send_to[q]
                          /\ flags'[q] = {}
  BY <1>4 DEF Go, Functions, RingTypes, Deserted
<1>6. RingTypes'
  <2>1. {} \in SUBSET Ranks /\ None \in Ranks \cup {None} /\ None # x
    BY NoneAssumption
  <2> QED
    BY <1>4, <1>5, <2>1, TypesSet
<1>7. ASSUME NEW a \in Ranks, NEW b \in Ranks
      PROVE  net'[a][b] = IF a = x /\ b = next /\ tells THEN <<Topo({})>> ELSE <<>>
  <2>1. Rest(s, x, a, b) = <<>>
    OBVIOUS
  <2>2. CASE tells
    <3>1. net' = Exchanged(x, s, Letter(next, Topo({})))
      BY <1>3, <1>4, <2>2
    <3>2. net'[a][b] = IF a = x /\ b = next THEN Append(Rest(s, x, a, b), Topo({})) ELSE Rest(s, x, a, b)
      BY <3>1, ExchangedOne
    <3> QED
      BY <2>1, <2>2, <3>2, OneAppended
  <2>3. CASE ~tells
    <3>1. net' = Exchanged(x, s, {})
      BY <1>4, <2>3
    <3> QED
      BY <2>1, <2>3, <3>1, ExchangedNone
  <2> QED
    BY <2>2, <2>3
<1>8. \A r \in Ranks : r < x + 1 => pc'[r] = "exit"
  <2>1. \A r \in Ranks : r < x + 1 => r = x \/ r < x
    OBVIOUS
  <2> QED
    BY <1>5, <2>1 DEF Deserted
<1>9. \A r \in Ranks : x + 1 <= r => /\ pc'[r] = (IF r = 0 THEN "rebuild" ELSE "topo")
                                     /\ send_to'[r] = Succ(r)
  <2>1. \A r \in Ranks : x + 1 <= r => r # x /\ x <= r
    OBVIOUS
  <2> QED
    BY <1>5, <2>1 DEF Deserted
<1>10. /\ auto'[0] /\ 0 \notin working'[0] /\ working'[0] # {} /\ working'[0] \subseteq Ranks
       /\ x + 1 \in 0 .. NWorld /\ \A w \in working'[0] : x + 1 <= w
  BY <1>1, <1>5 DEF Deserted
<1>11. (x + 1) - 1 = x /\ working'[0] = working[0]
  BY <1>5
<1>12. ASSUME NEW a \in Ranks, NEW b \in Ranks
       PROVE  net'[a][b] = IF a = (x + 1) - 1 /\ b = x + 1 /\ x + 1 \notin working'[0] THEN <<Topo({})>> ELSE <<>>
  BY <1>7, <1>11 DEF tells, next
<1> QED
  BY <1>5, <1>6, <1>8, <1>9, <1>10, <1>12 DEF Deserted

\* Where a device stands that has no layer, and where the others do.
LEMMA DesertedFacts ==
  ASSUME RoundInv, NEW x \in 0 .. NWorld, Deserted(x)
  PROVE  /\ x \in Ranks /\ \A r \in Ranks : pc[r] \in {"rebuild", "topo", "exit"} /\ working[r] = working[0]
         /\ \A a, b \in Ranks : net[a][b] # <<>> => b = x /\ x \notin working[0] /\ net[a][b] = <<Topo({})>>
         /\ (x = 0 => pc[0] = "rebuild") /\ \E r \in Ranks : pc[r] \in {"rebuild", "topo"}
<1> USE WorldFacts
<1>1. x \in Ranks
  <2>1. PICK w \in working[0] : w \in Ranks /\ x <= w
    BY DEF Deserted
  <2> QED
    BY <2>1
<1>2. \A r \in Ranks : r < x \/ x <= r
  BY <1>1
<1>3. \A r \in Ranks : pc[r] \in {"rebuild", "topo", "exit"}
  BY <1>2 DEF Deserted
<1>4. pc[0] \in {"rebuild", "exit"}
  BY <1>2 DEF Deserted
<1>5. \A r \in Ranks : working[r] = working[0]
  BY <1>4, RoundInvMeans DEF Barriers
<1>6. pc[x] \in {"rebuild", "topo"} /\ (x = 0 => pc[0] = "rebuild")
  BY <1>1 DEF Deserted
<1>7. \A a, b \in Ranks : net[a][b] # <<>> => b = x /\ x \notin working[0] /\ net[a][b] = <<Topo({})>>
  BY DEF Deserted
<1> QED
  BY <1>1, <1>3, <1>5, <1>6, <1>7

LEMMA DesertedKept ==
  ASSUME RoundInv, RingTypes, NEW x \in 0 .. NWorld, Deserted(x), [Next]_vars
  PROVE  RingInv'
<1> USE WorldFacts
<1>1. /\ x \in Ranks /\ \A r \in Ranks : pc[r] \in {"rebuild", "topo", "exit"} /\ working[r] = working[0]
      /\ \A a, b \in Ranks : net[a][b] # <<>> => b = x /\ x \notin working[0] /\ net[a][b] = <<Topo({})>>
  BY DesertedFacts
<1>2. x + 1 \in 0 .. NWorld /\ Functions
  BY <1>1 DEF RoundInv
<1>3. CASE UNCHANGED vars
  <2>1. RingTypes'
    BY <1>3 DEF vars, view, RingTypes
  <2>2. Deserted(x)'
    BY <1>3 DEF vars, view, Deserted
  <2> QED
    BY <2>1, <2>2 DEF RingInv
<1>4. CASE RebuildFirst
  <2>1. x = 0
    <3>1. 0 < x => pc[0] = "exit"
      BY DEF Deserted
    <3> QED
      BY <1>1, <1>4, <3>1 DEF RebuildFirst
  <2>2. PICK open : Rebuild(x, None, {}, open)
    BY <1>4, <2>1 DEF RebuildFirst
  <2>3. \A a, b \in Ranks : Rest(None, x, a, b) = <<>>
    BY <2>1, NoneAssumption DEF Deserted, Rest
  <2>4. x \notin working[0]
    BY <2>1 DEF Deserted
  <2>5. RingTypes' /\ Deserted(x + 1)'
    BY <1>1, <1>2, <2>2, <2>3, <2>4, DeserterLeaves
  <2> QED
    BY <1>2, <2>5 DEF RingInv
<1>5. ASSUME NEW r \in Ranks, NEW s \in Ranks, RebuildNext(r, s)
      PROVE  RingInv'
  <2>1. net[s][r] # <<>>
    BY <1>5 DEF RebuildNext, Received
  <2>2. r = x /\ x \notin working[0] /\ net[s][r] = <<Topo({})>>
    BY <1>1, <2>1
  <2>3. Head(net[s][r]).flags = {}
    BY <2>2 DEF Topo
  <2>4. PICK open : Rebuild(x, s, {}, open)
    BY <1>5, <2>2, <2>3 DEF RebuildNext
  <2>5. ASSUME NEW a \in Ranks, NEW b \in Ranks
        PROVE  Rest(s, x, a, b) = <<>>
    <3>1. Tail(<<Topo({})>>) = <<>>
      OBVIOUS
    <3>2. CASE a = s /\ b = x
      BY <2>2, <3>1, <3>2 DEF Rest
    <3>3. CASE ~(a = s /\ b = x)
      <4>1. s = x - 1
        BY <2>1 DEF Deserted
      <4>2. net[a][b] = <<>>
        BY <3>3, <4>1 DEF Deserted
      <4> QED
        BY <3>3, <4>2 DEF Rest
    <3> QED
      BY <3>2, <3>3
  <2>6. RingTypes' /\ Deserted(x + 1)'
    BY <1>1, <1>2, <2>2, <2>4, <2>5, DeserterLeaves
  <2> QED
    BY <1>2, <2>6 DEF RingInv
<1>6. /\ ~SendStop /\ ~SendArgs /\ (\A w : ~SendSetup(w))
      /\ \A s \in Ranks : ~SendInfo(s) /\ ~GatherInfo(s) /\ ~EndSetup(s)
  <2>1. pc[0] \in {"rebuild", "topo", "exit"}
    BY <1>1
  <2> QED
    BY <2>1 DEF SendStop, SendArgs, SendSetup, SendInfo, GatherInfo, EndSetup
<1>7. \A r, s \in Ranks : /\ ~PassArgs(r, s) /\ ~PassInfo(r, s) /\ ~PassSetup(r, s)
                          /\ ~PassView(r, s) /\ ~PassStop(r)
  BY <1>1 DEF PassArgs, PassInfo, PassSetup, PassView, PassStop
<1> QED
  BY <1>3, <1>4, <1>5, <1>6, <1>7 DEF Next, Device

\* The master has the ACK of the last round: the ring is kept, or is to be rebuilt, or the master
\* has to leave it.
LEMMA RebuildingBegins ==
  ASSUME Functions, RingTypes, InRounds, SetupRound(NWorld), EndSetup(Last)
  PROVE  KeptRing' \/ Rebuilding(0, {})' \/ Deserted(0)'
<1> USE WorldFacts
<1>1. Selected /\ \A r \in Ranks : flags[r] = {} /\ signal_to[r] = Succ(r) /\ send_to[r] = Succ(r)
  BY DEF InRounds, SetupRound, NotRebuilt
<1>2. NoMessageIn(net')
  BY TakenAtEnd DEF SetupRound, EndSetup
<1>3. UNCHANGED <<view, send_to, signal_to>> /\ Go(0, IF auto[0] THEN "rebuild" ELSE "ready")
  BY DEF EndSetup
<1>4. \A r \in Ranks : pc'[r] = IF auto[0] THEN IF r = 0 THEN "rebuild" ELSE "topo" ELSE "ready"
  <2>1. \A r \in Ranks : r # 0 => r \in Others /\ r < NWorld
    BY DEF Others
  <2>2. \A r \in Ranks : r # 0 => pc[r] = IF auto[0] THEN "topo" ELSE "ready"
    BY <2>1 DEF SetupRound
  <2> QED
    BY <1>3, <2>2 DEF Go, Functions
<1>5. Selected' /\ auto' = auto /\ (0 \in working[0] => Chosen') /\ (~auto[0] => Chosen')
  BY <1>1, <1>3 DEF Selected, Chosen, view
<1>6. CASE ~auto[0]
  BY <1>1, <1>2, <1>3, <1>4, <1>5, <1>6 DEF KeptRing, NoMessage, view
<1>7. CASE auto[0] /\ 0 \in working[0]
  <2>1. Reach(0, {})'
    BY <1>5, <1>7 DEF Reach, Chosen, Ring
  <2>2. \A r \in Ranks : r >= 0 /\ Untouched(r)'
    BY <1>1, <1>3, <1>4, <1>7 DEF Untouched
  <2>3. \A i, j \in Ring({}) : ~(i < j)
    BY DEF Ring
  <2>4. \A a, b \in Ranks : /\ ~Told(0, {}, a, b)' /\ ~Called(0, {}, a, b)' /\ ~Viewed(0, {}, a, b)'
                            /\ net'[a][b] = <<>>
    BY <1>2 DEF Told, Called, Viewed, NoMessageIn
  <2> QED
    BY <1>5, <1>7, <2>1, <2>2, <2>3, <2>4 DEF Rebuilding
<1>8. CASE auto[0] /\ 0 \notin working[0]
  <2>1. /\ auto'[0] /\ 0 \notin working'[0] /\ working'[0] # {} /\ working'[0] \subseteq Ranks
        /\ \A w \in working'[0] : 0 <= w
    BY <1>3, <1>5, <1>8 DEF Selected, view
  <2>2. \A r \in Ranks : ~(r < 0) /\ flags'[r] = {} /\ send_to'[r] = Succ(r)
    BY <1>1, <1>3 DEF view
  <2>3. \A r \in Ranks : pc'[r] = IF r = 0 THEN "rebuild" ELSE "topo"
    BY <1>4, <1>8
  <2>4. \A a, b \in Ranks : net'[a][b] = <<>> /\ ~(a = 0 - 1)
    BY <1>2 DEF NoMessageIn
  <2> QED
    BY <2>1, <2>2, <2>3, <2>4 DEF Deserted
<1> QED
  BY <1>6, <1>7, <1>8

LEMMA InRoundsKept ==
  ASSUME RoundInv, RingTypes, InRounds, [Next]_vars
  PROVE  RingInv'
<1> USE RankFacts
<1> DEFINE Waiting == {"start", "args_ack", "infos", "assign", "setup_ack"}
<1>1. pc[0] \in Waiting /\ Functions /\ RoundInv'
  BY NextRoundInv DEF InRounds, RoundInv
<1>2. ASSUME UNCHANGED <<flags, send_to, signal_to, signals>>, pc'[0] \in Waiting, pc'[0] = "setup_ack" => Selected'
      PROVE  RingInv'
  BY <1>2 DEF RingInv, RingTypes, InRounds
<1>3. CASE UNCHANGED vars
  BY <1>1, <1>2, <1>3 DEF vars, view, InRounds, Selected
<1>4. CASE SendArgs
  BY <1>1, <1>2, <1>4 DEF SendArgs, Go, Functions, view
<1>5. ASSUME NEW w \in SUBSET Ranks, SendSetup(w)
      PROVE  RingInv'
  <2>1. pc'[0] = "setup_ack" /\ working'[0] = w /\ auto' = auto
    BY <1>1, <1>5 DEF SendSetup, Go, Functions
  <2>2. Selected'
    BY <1>5, <2>1 DEF SendSetup, Selected
  <2> QED
    BY <1>2, <1>5, <2>1, <2>2 DEF SendSetup
<1>6. ASSUME NEW r \in Others, NEW s, PassArgs(r, s) \/ PassInfo(r, s) \/ PassSetup(r, s)
      PROVE  RingInv'
  <2>1. pc'[0] = pc[0] /\ auto'[0] = auto[0] /\ working'[0] = working[0]
    BY <1>1, <1>6 DEF PassArgs, PassInfo, PassSetup, Go, Functions, view, Others
  <2>2. UNCHANGED <<flags, send_to, signal_to, signals>>
    BY <1>6 DEF PassArgs, PassInfo, PassSetup, view
  <2>3. Selected => Selected'
    BY <2>1 DEF Selected
  <2> QED
    BY <1>1, <1>2, <2>1, <2>2, <2>3 DEF InRounds
<1>7. CASE SendInfo(Last)
  BY <1>1, <1>2, <1>7 DEF SendInfo, Go, Functions, view
<1>8. CASE InfosRound(NWorld) /\ GatherInfo(Last)
  <2>1. pc'[0] = "assign"
    BY <1>1, <1>8, InfosGathered DEF BeforeSetup
  <2> QED
    BY <1>2, <1>8, <2>1 DEF GatherInfo, view
<1>9. CASE SetupRound(NWorld) /\ EndSetup(Last)
  <2>1. RingTypes'
    BY <1>9 DEF EndSetup, RingTypes, view
  <2>2. KeptRing' \/ Rebuilding(0, {})' \/ Deserted(0)'
    BY <1>1, <1>9, RebuildingBegins
  <2>3. 0 \in 0 .. NWorld /\ {} \in SUBSET Ranks
    OBVIOUS
  <2> QED
    BY <2>1, <2>2, <2>3 DEF RingInv
<1>10. CASE BeforeArgs \/ BeforeSetup
  BY <1>3, <1>4, <1>5, <1>10, BetweenRounds DEF BeforeArgs, BeforeSetup
<1>11. ASSUME NEW k \in 1 .. NWorld, ArgsRound(k)
       PROVE  RingInv'
  <2>1. ArgsMsg(k).type \in {"args", "ack"} /\ pc[0] = "args_ack"
    BY <1>11 DEF ArgsMsg, Ack, ArgsRound
  <2>2. UNCHANGED vars \/ (k < NWorld /\ (PassArgs(k, k - 1) \/ PassInfo(k, k - 1) \/ PassSetup(k, k - 1)))
        \/ SendInfo(Last)
    BY <1>11, <2>1, InARound DEF ArgsRound
  <2> QED
    BY <1>3, <1>6, <1>7, <2>2
<1>12. ASSUME NEW k \in 1 .. NWorld, InfosRound(k)
       PROVE  RingInv'
  <2>1. InfosMsg(k).type = "infos" /\ pc[0] = "infos"
    BY <1>12 DEF InfosMsg, InfosRound
  <2>2. UNCHANGED vars \/ (k < NWorld /\ (PassArgs(k, k - 1) \/ PassInfo(k, k - 1) \/ PassSetup(k, k - 1)))
        \/ (k = NWorld /\ GatherInfo(Last))
    BY <1>12, <2>1, InARound DEF InfosRound
  <2> QED
    BY <1>3, <1>6, <1>8, <1>12, <2>2
<1>13. ASSUME NEW k \in 1 .. NWorld, SetupRound(k)
       PROVE  RingInv'
  <2>1. SetupMsg(k).type \in {"setup", "ack"} /\ pc[0] = "setup_ack"
    BY <1>13 DEF SetupMsg, Ack, SetupRound
  <2>2. UNCHANGED vars \/ (k < NWorld /\ (PassArgs(k, k - 1) \/ PassInfo(k, k - 1) \/ PassSetup(k, k - 1)))
        \/ (k = NWorld /\ EndSetup(Last))
    BY <1>13, <2>1, InARound DEF SetupRound
  <2> QED
    BY <1>3, <1>6, <1>9, <1>13, <2>2
<1>14. ~AfterRounds
  BY <1>1 DEF AfterRounds
<1> QED
  BY <1>10, <1>11, <1>12, <1>13, <1>14 DEF RoundInv, Rounds

LEMMA InitRingInv == Init => RingInv
<1> SUFFICES ASSUME Init PROVE RingInv
  OBVIOUS
<1>1. \A r \in Ranks : Succ(r) \in Ranks /\ Succ(r) # r
  BY Modulo, WorldFacts
<1>2. RingTypes
  BY <1>1 DEF Init, RingTypes
<1>3. InRounds
  BY WorldFacts DEF Init, InRounds
<1> QED
  BY <1>2, <1>3 DEF RingInv

LEMMA NextRingInv == RoundInv /\ RingInv /\ [Next]_vars => RingInv'
<1> SUFFICES ASSUME RoundInv, RingInv, [Next]_vars PROVE RingInv'
  OBVIOUS
<1>1. RingTypes
  BY DEF RingInv
<1>2. CASE InRounds
  BY <1>1, <1>2, InRoundsKept
<1>3. CASE KeptRing
  BY <1>1, <1>3, KeptRingKept
<1>4. ASSUME NEW x \in 0 .. NWorld, NEW F \in SUBSET Ranks, Rebuilding(x, F)
      PROVE  RingInv'
  BY <1>1, <1>4, RebuildingKept
<1>5. ASSUME NEW x \in 0 .. NWorld, Deserted(x)
      PROVE  RingInv'
  BY <1>1, <1>5, DesertedKept
<1> QED
  BY <1>2, <1>3, <1>4, <1>5 DEF RingInv

-----------------------------------------------------------------------------
(* What the invariant means                                                *)

\* What a device knows is of the right kind, and so are the messages it is told it in.
Known == auto[0] \in BOOLEAN /\ \A r \in Ranks : working[r] \subseteq Ranks

LEMMA NextKnown == RoundInv /\ Known /\ [Next]_vars => Known'
<1> SUFFICES ASSUME RoundInv, Known, [Next]_vars PROVE Known'
  OBVIOUS
<1> USE RankFacts
<1>1. Functions /\ Rounds
  BY DEF RoundInv
<1>2. CASE UNCHANGED <<auto, working>>
  BY <1>2 DEF Known
<1>3. ASSUME NEW w \in SUBSET Ranks, SendSetup(w)
      PROVE  Known'
  BY <1>1, <1>3 DEF SendSetup, Known, Functions
<1>4. ASSUME NEW r \in Ranks, NEW s \in Ranks, PassArgs(r, s)
      PROVE  Known'
  <2>1. pc[0] # "args"
    BY <1>1 DEF Rounds, BeforeArgs, BeforeSetup, AfterRounds, ArgsRound, InfosRound, SetupRound
  <2>2. auto'[0] = auto[0] /\ working' = working
    BY <1>1, <1>4, <2>1 DEF PassArgs, Functions
  <2> QED
    BY <2>2 DEF Known
<1>5. ASSUME NEW r \in Ranks, NEW s \in Ranks, PassSetup(r, s)
      PROVE  Known'
  <2>1. Received(r, s, "setup") /\ pc[r] = "setup" /\ auto' = auto
    BY <1>5 DEF PassSetup
  <2>2. ~BeforeArgs /\ ~BeforeSetup
    BY <2>1, NothingReceived DEF BeforeArgs, BeforeSetup
  <2>3. ~AfterRounds
    BY <2>1 DEF AfterRounds
  <2>4. ASSUME NEW k \in 1 .. NWorld, ArgsRound(k) \/ InfosRound(k) PROVE FALSE
    <3>1. ArgsMsg(k).type # "setup" /\ InfosMsg(k).type # "setup"
      BY DEF ArgsMsg, Ack, InfosMsg
    <3> QED
      BY <2>1, <2>4, <3>1, ReceivedAt DEF ArgsRound, InfosRound
  <2>5. PICK k \in 1 .. NWorld : SetupRound(k)
    BY <1>1, <2>2, <2>3, <2>4 DEF Rounds
  <2>6. Head(net[s][r]) = SetupMsg(k) /\ SetupMsg(k).type = "setup"
    BY <2>1, <2>5, ReceivedAt DEF SetupRound
  <2>7. Head(net[s][r]).working = working[0]
    BY <2>6 DEF SetupMsg, Ack
  <2>8. working' = [working EXCEPT ![r] = working[0]]
    BY <1>5, <2>7 DEF PassSetup
  <2> QED
    BY <1>1, <2>1, <2>8 DEF Known, Functions
<1>6. UNCHANGED vars \/ SendStop \/ (\E r \in Ranks : PassStop(r)) \/ SendArgs \/ RebuildFirst => UNCHANGED <<auto, working>>
  BY DEF vars, view, SendStop, PassStop, SendArgs, RebuildFirst, Rebuild
<1>7. \A s \in Ranks : SendInfo(s) \/ GatherInfo(s) \/ EndSetup(s) => UNCHANGED <<auto, working>>
  BY DEF SendInfo, GatherInfo, EndSetup, view
<1>8. \A r, s \in Ranks : PassInfo(r, s) \/ RebuildNext(r, s) \/ PassView(r, s) => UNCHANGED <<auto, working>>
  <2>1. ASSUME NEW r \in Ranks, NEW s \in Ranks, RebuildNext(r, s)
        PROVE  UNCHANGED <<auto, working>>
    BY <2>1 DEF RebuildNext, Rebuild
  <2>2. \A r, s \in Ranks : PassInfo(r, s) \/ PassView(r, s) => UNCHANGED <<auto, working>>
    BY DEF PassInfo, PassView, view
  <2> QED
    BY <2>1, <2>2
<1> QED
  BY <1>2, <1>3, <1>4, <1>5, <1>6, <1>7, <1>8 DEF Next, Device

SetupInv == RoundInv /\ RingInv /\ Known

LEMMA SetupInvariant == Spec => []SetupInv
<1>1. Init => SetupInv
  <2>1. Init => Known
    BY WorldFacts DEF Init, Known
  <2> QED
    BY <2>1, InitRoundInv, InitRingInv DEF SetupInv
<1>2. SetupInv /\ [Next]_vars => SetupInv'
  BY NextRoundInv, NextRingInv, NextKnown DEF SetupInv
<1> QED
  BY <1>1, <1>2, PTL DEF Spec

\* What device r asks of the message it gets.
Asked(r) == CASE pc[r] \in {"args_ack", "setup_ack"} -> "ack" [] pc[r] = "view" -> "topo" [] OTHER -> pc[r]

LEMMA RoundsMean ==
  ASSUME RoundInv, Known, InRounds
  PROVE  /\ \A r \in Ranks : pc[r] \in {"start", "args", "args_ack", "infos", "assign", "setup", "setup_ack",
                                        "topo", "ready"}
         /\ \/ NoMessage
            \/ \E k \in 1 .. NWorld, msg \in Messages : At(k, msg) /\ msg.type = Asked(k % NWorld)
<1> USE RankFacts
<1>1. Rounds /\ ~AfterRounds
  BY DEF RoundInv, InRounds, AfterRounds
<1>2. \A r \in Ranks : r = 0 \/ r \in Others
  BY DEF Others
<1>3. CASE BeforeArgs \/ BeforeSetup
  BY <1>2, <1>3 DEF BeforeArgs, BeforeSetup
<1>4. ASSUME NEW k \in 1 .. NWorld, ArgsRound(k)
      PROVE  /\ \A r \in Ranks : pc[r] \in {"args_ack", "infos", "setup", "args"}
             /\ At(k, ArgsMsg(k)) /\ ArgsMsg(k) \in Messages /\ ArgsMsg(k).type = Asked(k % NWorld)
  <2>1. \A r \in Others : r < k \/ r >= k
    OBVIOUS
  <2>2. \A r \in Ranks : pc[r] \in {"args_ack", "infos", "setup", "args"}
    BY <1>2, <1>4, <2>1 DEF ArgsRound
  <2>3. ArgsMsg(k) \in Messages
    BY DEF ArgsMsg, Ack, Messages, Known
  <2>4. ArgsMsg(k).type = Asked(k % NWorld)
    <3>1. CASE k = NWorld
      BY <1>4, <3>1 DEF ArgsRound, ArgsMsg, Ack, Asked
    <3>2. CASE k < NWorld
      <4>1. pc[k] = "args" /\ k % NWorld = k
        BY <1>4, <3>2 DEF ArgsRound
      <4> QED
        BY <3>2, <4>1 DEF ArgsMsg, Asked
    <3> QED
      BY <3>1, <3>2
  <2> QED
    BY <1>4, <2>2, <2>3, <2>4 DEF ArgsRound
<1>5. ASSUME NEW k \in 1 .. NWorld, InfosRound(k)
      PROVE  /\ \A r \in Ranks : pc[r] \in {"infos", "setup"}
             /\ At(k, InfosMsg(k)) /\ InfosMsg(k) \in Messages /\ InfosMsg(k).type = Asked(k % NWorld)
  <2>1. \A r \in Ranks : pc[r] \in {"infos", "setup"}
    BY <1>2, <1>5 DEF InfosRound
  <2>2. InfosMsg(k) \in Messages
    <3>1. [i \in 1 .. k |-> i - 1] \in Seq(Ranks)
      <4>1. \A i \in 1 .. k : i - 1 \in Ranks
        BY DEF Ranks
      <4> QED
        BY <4>1
    <3> QED
      BY <3>1 DEF InfosMsg, Messages
  <2>3. InfosMsg(k).type = Asked(k % NWorld)
    <3>1. pc[k % NWorld] = "infos"
      BY <1>5 DEF InfosRound
    <3> QED
      BY <3>1 DEF InfosMsg, Asked
  <2> QED
    BY <1>5, <2>1, <2>2, <2>3 DEF InfosRound
<1>6. ASSUME NEW k \in 1 .. NWorld, SetupRound(k)
      PROVE  /\ \A r \in Ranks : pc[r] \in {"setup_ack", "topo", "ready", "setup"}
             /\ At(k, SetupMsg(k)) /\ SetupMsg(k) \in Messages /\ SetupMsg(k).type = Asked(k % NWorld)
  <2>1. \A r \in Others : r < k \/ r >= k
    OBVIOUS
  <2>2. \A r \in Ranks : pc[r] \in {"setup_ack", "topo", "ready", "setup"}
    BY <1>2, <1>6, <2>1 DEF SetupRound
  <2>3. SetupMsg(k) \in Messages
    BY DEF SetupMsg, Ack, Messages, Known
  <2>4. SetupMsg(k).type = Asked(k % NWorld)
    <3>1. CASE k = NWorld
      BY <1>6, <3>1 DEF SetupRound, SetupMsg, Ack, Asked
    <3>2. CASE k < NWorld
      <4>1. pc[k] = "setup" /\ k % NWorld = k
        BY <1>6, <3>2 DEF SetupRound
      <4> QED
        BY <3>2, <4>1 DEF SetupMsg, Asked
    <3> QED
      BY <3>1, <3>2
  <2> QED
    BY <1>6, <2>2, <2>3, <2>4 DEF SetupRound
<1> QED
  BY <1>1, <1>3, <1>4, <1>5, <1>6 DEF Rounds

\* While the ring is rebuilt only topologies are on their way, one at a time, to devices that wait for one.
LEMMA RebuildingMeans ==
  ASSUME NEW x \in 0 .. NWorld, NEW F \in SUBSET Ranks, Rebuilding(x, F), NEW r \in Ranks, NEW s \in Ranks,
         net[s][r] # <<>>
  PROVE  (\E f \in SUBSET Ranks : net[s][r] = <<Topo(f)>>) /\ Asked(r) = "topo"
<1>1. \E f \in SUBSET Ranks : net[s][r] = <<Topo(f)>>
  <2>1. PICK f : f \subseteq F /\ net[s][r] = <<Topo(f)>>
    BY TopoReceived
  <2> QED
    BY <2>1
<1>2. Told(x, F, s, r) \/ Called(x, F, s, r) \/ Viewed(x, F, s, r)
  BY TopoReceived
<1>3. CASE Told(x, F, s, r) \/ Viewed(x, F, s, r)
  BY <1>1, <1>3 DEF Told, Viewed, Asked
<1>4. CASE Called(x, F, s, r)
  <2>1. r >= x /\ r # 0
    BY <1>4, WorldFacts DEF Called
  <2>2. pc[r] = "topo"
    BY <2>1, RingFacts DEF Untouched
  <2> QED
    BY <1>1, <2>2 DEF Asked
<1> QED
  BY <1>2, <1>3, <1>4

\* Those that are left are the ring, all know it, and no message is left.
SettledRing(F) ==
  /\ Chosen /\ working[0] \subseteq Ring(F) /\ Left = Ring(F)
  /\ \A r \in Ranks : working[r] = working[0]
  /\ \A r \in Ring(F), i \in Ranks : Stays(r, i) <=> i \in Ring(F)
  /\ \A r \in Ring(F) : Ring(F) = {0} \/ (Follows(F, r, send_to[r]) /\ signal_to[r] = send_to[r])
  /\ NoMessage

LEMMA WhenSettled ==
  ASSUME SetupInv, AllSettled
  PROVE  \E F \in SUBSET Ranks : SettledRing(F)
<1> USE WorldFacts
<1>1. RoundInv /\ RingInv /\ \A r \in Ranks : Settled(r)
  BY DEF SetupInv, AllSettled
<1>2. ~InRounds
  BY <1>1 DEF InRounds, Settled
<1>3. CASE KeptRing
  <2>1. Ring(Ranks) = Ranks /\ Left = Ranks /\ Chosen /\ working[0] = Ranks
    BY <1>3 DEF KeptRing, Ring, Left, Chosen
  <2>2. \A r \in Ranks : working[r] = working[0]
    BY <1>1, <1>3, RoundInvMeans DEF Barriers, KeptRing
  <2>3. \A r \in Ranks, i \in Ranks : Stays(r, i)
    BY <2>1, <2>2 DEF Stays
  <2>4. ASSUME NEW r \in Ranks
        PROVE  Follows(Ranks, r, send_to[r]) /\ signal_to[r] = send_to[r]
    <3>1. Succ(r) = IF r = NWorld - 1 THEN 0 ELSE r + 1
      BY Modulo
    <3>2. Follows(Ranks, r, Succ(r))
      BY <2>1, <3>1 DEF Follows
    <3> QED
      BY <1>3, <3>2 DEF KeptRing
  <2>5. SettledRing(Ranks)
    BY <1>3, <2>1, <2>2, <2>3, <2>4 DEF KeptRing, SettledRing
  <2> QED
    BY <2>5
<1>4. ASSUME NEW x \in 0 .. NWorld, NEW F \in SUBSET Ranks, Rebuilding(x, F)
      PROVE  SettledRing(F)
  <2>1. x = NWorld
    <3>1. x \in Ranks => ~Untouched(x)
      BY <1>1 DEF Untouched, Settled
    <3> QED
      BY <1>4, <3>1, RingFacts
  <2>2. \A r \in Ranks : r < x
    BY <2>1
  <2>3. \A r \in Ring(F) : r \in Ranks /\ Joined(x, F, r)
    BY <1>4, <2>2, RingFacts
  <2>4. \A r \in Ranks \ Ring(F) : Leaves(x, F, r)
    BY <1>4, <2>2, RingFacts
  <2>5. Left = Ring(F)
    <3>1. \A r \in Ring(F) : r \in Ranks /\ pc[r] # "exit"
      BY <2>3 DEF Joined
    <3>2. \A r \in Ranks \ Ring(F) : pc[r] = "exit"
      BY <1>1, <2>4 DEF Leaves, Settled
    <3> QED
      BY <3>1, <3>2 DEF Left
  <2>6. Chosen /\ working[0] \subseteq Ring(F)
    BY <1>4, <2>1, <2>2 DEF Rebuilding, Reach, Chosen
  <2>7. \A r \in Ranks : working[r] = working[0]
    BY <1>1, <1>4, WorkingKnown
  <2>8. \A r \in Ring(F) : flags[r] = F
    BY <1>1, <2>3 DEF Joined, Settled
  <2>9. \A r \in Ring(F), i \in Ranks : Stays(r, i) <=> i \in Ring(F)
    BY <2>3, <2>6, <2>7, <2>8 DEF Stays, Ring
  <2>10. \A r \in Ring(F) : Ring(F) = {0} \/ (Follows(F, r, send_to[r]) /\ signal_to[r] = send_to[r])
    <3>1. working[0] = {0} => F = {}
      BY <1>4, <2>1 DEF Rebuilding, Reach
    <3> QED
      BY <2>3, <3>1 DEF Joined, Ring
  <2>11. NoMessage
    <3> SUFFICES ASSUME NEW a \in Ranks, NEW b \in Ranks PROVE net[a][b] = <<>>
      BY DEF NoMessage, NoMessageIn
    <3>1. ~Told(x, F, a, b) /\ ~Called(x, F, a, b) /\ ~Viewed(x, F, a, b)
      BY <1>1, <2>1 DEF Told, Called, Viewed, Settled
    <3> QED
      BY <1>4, <3>1 DEF Rebuilding
  <2> QED
    BY <2>5, <2>6, <2>7, <2>9, <2>10, <2>11 DEF SettledRing
<1>5. ASSUME NEW x \in 0 .. NWorld, Deserted(x)
      PROVE  FALSE
  <2>1. PICK r \in Ranks : pc[r] \in {"rebuild", "topo"}
    BY <1>1, <1>5, DesertedFacts
  <2> QED
    BY <1>1, <2>1 DEF Settled
<1> QED
  BY <1>1, <1>2, <1>3, <1>4, <1>5 DEF RingInv

LEMMA RightKinds == SetupInv => TypeOK
<1> SUFFICES ASSUME SetupInv PROVE TypeOK
  OBVIOUS
<1>1. RoundInv /\ RingInv /\ Known /\ RingTypes
  BY DEF SetupInv, RingInv
<1>2. \A r \in Ranks : working[r] \subseteq Ranks /\ flags[r] \subseteq Ranks
  BY <1>1 DEF Known, RingTypes
<1>3. \A r \in Ranks : send_to[r] \in (Ranks \ {r}) \cup {None} /\ signal_to[r] \in Ranks \ {r}
  BY <1>1 DEF RingTypes
<1>4. signals \subseteq Ranks
  BY <1>1 DEF RingTypes
<1>5. \A r \in Ranks : pc[r] \in {"start", "args", "args_ack", "infos", "assign", "setup", "setup_ack",
                                  "topo", "rebuild", "view", "ready", "exit", "stopping", "stopped"}
  <2>1. CASE InRounds
    BY <1>1, <2>1, RoundsMean
  <2>2. CASE KeptRing
    BY <2>2 DEF KeptRing
  <2>3. ASSUME NEW x \in 0 .. NWorld, NEW F \in SUBSET Ranks, Rebuilding(x, F)
        PROVE  \A r \in Ranks : pc[r] \in {"topo", "rebuild", "view", "ready", "exit", "stopping", "stopped"}
    BY <2>3, RingFacts
  <2>4. ASSUME NEW x \in 0 .. NWorld, Deserted(x)
        PROVE  \A r \in Ranks : pc[r] \in {"rebuild", "topo", "exit"}
    BY <1>1, <2>4, DesertedFacts
  <2> QED
    BY <1>1, <2>1, <2>2, <2>3, <2>4 DEF RingInv
<1>6. \A r, s \in Ranks : net[r][s] = <<>> \/ \E msg \in Messages : net[r][s] = <<msg>>
  <2>1. CASE InRounds
    BY <1>1, <2>1, RoundsMean DEF NoMessage, NoMessageIn, At, AtIn
  <2>2. CASE KeptRing
    BY <2>2 DEF KeptRing, NoMessage, NoMessageIn
  <2>3. ASSUME NEW x \in 0 .. NWorld, NEW F \in SUBSET Ranks, Rebuilding(x, F)
        PROVE  \A r, s \in Ranks : net[r][s] = <<>> \/ \E msg \in Messages : net[r][s] = <<msg>>
    <3>1. \A f \in SUBSET Ranks : Topo(f) \in Messages
      BY DEF Topo, Messages
    <3> QED
      BY <2>3, <3>1, RebuildingMeans
  <2>4. ASSUME NEW x \in 0 .. NWorld, Deserted(x)
        PROVE  \A r, s \in Ranks : net[r][s] = <<>> \/ \E msg \in Messages : net[r][s] = <<msg>>
    <3>1. Topo({}) \in Messages
      BY DEF Topo, Messages
    <3> QED
      BY <1>1, <2>4, <3>1, DesertedFacts
  <2> QED
    BY <1>1, <2>1, <2>2, <2>3, <2>4 DEF RingInv
<1>7. \A msg \in Messages : <<msg>> \in Seq(Messages) /\ Len(<<msg>>) = 1
  OBVIOUS
<1>8. <<>> \in Seq(Messages) /\ Len(<<>>) = 0
  OBVIOUS
<1>9. \A r, s \in Ranks : net[r][s] \in Seq(Messages) /\ Len(net[r][s]) <= 1
  <2> SUFFICES ASSUME NEW r \in Ranks, NEW s \in Ranks
               PROVE  net[r][s] \in Seq(Messages) /\ Len(net[r][s]) <= 1
    OBVIOUS
  <2>1. CASE net[r][s] = <<>>
    BY <1>8, <2>1
  <2>2. ASSUME NEW msg \in Messages, net[r][s] = <<msg>>
        PROVE  net[r][s] \in Seq(Messages) /\ Len(net[r][s]) <= 1
    BY <1>7, <2>2
  <2> QED
    BY <1>6, <2>1, <2>2
<1> QED
  BY <1>2, <1>3, <1>4, <1>5, <1>9 DEF TypeOK

LEMMA RightMessages == SetupInv => AssertionsHold
<1> SUFFICES ASSUME SetupInv PROVE AssertionsHold
  OBVIOUS
<1>1. RoundInv /\ RingInv /\ Known
  BY DEF SetupInv
<1>2. CASE InRounds
  <2>1. \A r \in Ranks : pc[r] # "aborted"
    BY <1>1, <1>2, RoundsMean
  <2>2. ASSUME NEW r \in Ranks, NEW s \in Ranks, net[s][r] # <<>>
        PROVE  Head(net[s][r]).type = Asked(r)
    <3>1. PICK k \in 1 .. NWorld, msg \in Messages : At(k, msg) /\ msg.type = Asked(k % NWorld)
      BY <1>1, <1>2, <2>2, RoundsMean DEF NoMessage, NoMessageIn
    <3> DEFINE end == k % NWorld
    <3>2. net[s][r] = IF s = k - 1 /\ r = end THEN <<msg>> ELSE <<>>
      BY <3>1 DEF At, AtIn
    <3>3. msg.type = Asked(end)
      BY <3>1
    <3> HIDE DEF end
    <3>4. net[s][r] = <<msg>> /\ r = end
      BY <2>2, <3>2
    <3> QED
      BY <3>3, <3>4
  <2> QED
    BY <2>1, <2>2 DEF AssertionsHold, Asked
<1>3. CASE KeptRing
  BY <1>3 DEF KeptRing, NoMessage, NoMessageIn, AssertionsHold
<1>4. ASSUME NEW x \in 0 .. NWorld, NEW F \in SUBSET Ranks, Rebuilding(x, F)
      PROVE  AssertionsHold
  <2>1. \A r \in Ranks : pc[r] # "aborted"
    BY <1>4, RingFacts
  <2>2. ASSUME NEW r \in Ranks, NEW s \in Ranks, net[s][r] # <<>>
        PROVE  Head(net[s][r]).type = Asked(r)
    <3>1. PICK f \in SUBSET Ranks : net[s][r] = <<Topo(f)>>
      BY <1>4, <2>2, RebuildingMeans
    <3>2. Head(net[s][r]).type = "topo"
      BY <3>1 DEF Topo
    <3> QED
      BY <1>4, <2>2, <3>2, RebuildingMeans
  <2> QED
    BY <2>1, <2>2 DEF AssertionsHold, Asked
<1>5. ASSUME NEW x \in 0 .. NWorld, Deserted(x)
      PROVE  AssertionsHold
  <2>1. \A r \in Ranks : pc[r] # "aborted"
    BY <1>1, <1>5, DesertedFacts
  <2>2. ASSUME NEW r \in Ranks, NEW s \in Ranks, net[s][r] # <<>>
        PROVE  Head(net[s][r]).type = Asked(r)
    <3>1. net[s][r] = <<Topo({})>> /\ s = x - 1 /\ r = x
      BY <1>5, <2>2 DEF Deserted
    <3>2. r # 0 /\ x <= r
      BY <3>1, WorldFacts
    <3>3. pc[r] = "topo"
      BY <1>5, <3>2 DEF Deserted
    <3> QED
      BY <3>1, <3>3 DEF Topo, Asked
  <2> QED
    BY <2>1, <2>2 DEF AssertionsHold, Asked
<1> QED
  BY <1>1, <1>2, <1>3, <1>4, <1>5 DEF RingInv

LEMMA SetIsFinite ==
  /\ \A S \in SUBSET Ranks : IsFiniteSet(S) /\ Cardinality(S) \in Nat
  /\ \A S, T \in SUBSET Ranks : S \subseteq T => Cardinality(S) <= Cardinality(T) /\ (Cardinality(S) = Cardinality(T) => S = T)
<1>1. IsFiniteSet(Ranks)
  BY WorldFacts, FS_Interval
<1>2. \A S \in SUBSET Ranks : IsFiniteSet(S) /\ Cardinality(S) \in Nat
  BY <1>1, FS_Subset, FS_CardinalityType
<1>3. \A S, T \in SUBSET Ranks : S \subseteq T => Cardinality(S) <= Cardinality(T) /\ (Cardinality(S) = Cardinality(T) => S = T)
  BY <1>2, FS_Subset
<1> QED
  BY <1>2, <1>3

\* The new ranks go up by one along the ring.
LEMMA RankGoesUp ==
  ASSUME NEW F \in SUBSET Ranks, NEW r \in Ring(F), NEW q \in Ring(F), Follows(F, r, q), Cardinality(Ring(F)) > 1,
         \A p \in Ring(F), i \in Ranks : Stays(p, i) <=> i \in Ring(F)
  PROVE  new_rank(q) = (new_rank(r) + 1) % Cardinality(Ring(F))
<1> USE WorldFacts
<1> DEFINE n    == Cardinality(Ring(F))
           U(p) == {i \in 1 .. p : i \in Ring(F)}
           rest == Ring(F) \ {0}
<1>1. Ring(F) \in SUBSET Ranks /\ 0 \in Ring(F) /\ rest \in SUBSET Ranks
  BY DEF Ring
<1>2. ASSUME NEW p \in Ring(F)
      PROVE  /\ new_rank(p) = Cardinality(U(p))
             /\ U(p) \subseteq rest /\ U(p) \in SUBSET Ranks /\ Cardinality(U(p)) \in Nat
  <2>1. \A i \in 1 .. p : i \in Ranks /\ (Stays(p, i) <=> i \in Ring(F))
    BY <1>1
  <2>2. {i \in 1 .. p : Stays(p, i)} = U(p)
    BY <2>1
  <2>3. U(p) \subseteq rest
    OBVIOUS
  <2>4. U(p) \in SUBSET Ranks
    BY <1>1, <2>3
  <2> QED
    BY <2>2, <2>3, <2>4, SetIsFinite DEF new_rank
<1>3. n = Cardinality(rest) + 1 /\ Cardinality(rest) \in Nat /\ n > 1
  <2>1. IsFiniteSet(rest)
    BY <1>1, SetIsFinite
  <2>2. rest \cup {0} = Ring(F) /\ 0 \notin rest
    BY <1>1
  <2> HIDE DEF rest
  <2> QED
    BY <2>1, <2>2, FS_AddElement, FS_CardinalityType
<1>4. Cardinality(U(r)) <= Cardinality(rest) /\ Cardinality(U(q)) <= Cardinality(rest)
  <2> HIDE DEF U, rest
  <2> QED
    BY <1>1, <1>2, SetIsFinite
<1>5. CASE q # 0
  <2>1. U(q) = U(r) \cup {q} /\ q \notin U(r)
    <3>1. r < q /\ \A i \in Ring(F) : r < i => q <= i
      BY <1>5 DEF Follows
    <3>2. r \in 0 .. NWorld - 1 /\ q \in 0 .. NWorld - 1
      BY <1>1
    <3>3. \A i \in 1 .. q : i \in Ring(F) => i \in 1 .. r \/ i = q
      BY <3>1, <3>2
    <3>4. \A i \in 1 .. r : i \in 1 .. q /\ i # q
      BY <3>1, <3>2
    <3>5. q \in 1 .. q
      BY <1>5, <3>2
    <3> QED
      BY <3>3, <3>4, <3>5
  <2>2. Cardinality(U(q)) = Cardinality(U(r)) + 1
    <3>1. IsFiniteSet(U(r))
      BY <1>2, SetIsFinite
    <3> HIDE DEF U
    <3> QED
      BY <2>1, <3>1, FS_AddElement
  <2> DEFINE m == Cardinality(U(q))
  <2>3. m \in Nat /\ m < n /\ n \in Nat
    <3> HIDE DEF U, rest
    <3>1. Cardinality(U(q)) \in Nat
      BY <1>2
    <3> QED
      BY <1>3, <1>4, <3>1
  <2> HIDE DEF m, n, U
  <2>4. m % n = m
    BY <1>3, <2>3, ModuloOf
  <2> QED
    BY <1>2, <2>2, <2>4 DEF m, n
<1>6. CASE q = 0
  <2>1. U(r) = rest
    <3>1. \A i \in Ring(F) : ~(r < i)
      BY <1>6 DEF Follows
    <3>2. r \in 0 .. NWorld - 1 /\ \A i \in Ring(F) : i \in 0 .. NWorld - 1
      BY <1>1
    <3>3. \A i \in rest : i \in 1 .. r
      BY <3>1, <3>2
    <3> QED
      BY <1>2, <3>3
  <2>2. Cardinality(U(q)) = 0
    <3>1. U(q) = {}
      BY <1>6
    <3> QED
      BY <3>1, FS_EmptySet
  <2> HIDE DEF U, n
  <2>3. (0 + n) % n = 0 /\ 0 + n = n
    BY <1>3, ModuloOf
  <2> QED
    BY <1>2, <1>3, <2>1, <2>2, <2>3 DEF n
<1> QED
  BY <1>5, <1>6

LEMMA RingIsOne == SetupInv => OneRing
<1> SUFFICES ASSUME SetupInv, AllSettled
             PROVE  /\ working[0] \subseteq Left
                    /\ \A r \in Left :
                         /\ new_world(r) = Cardinality(Left)
                         /\ Cardinality(Left) > 1 =>
                              /\ send_to[r] \in Left /\ signal_to[r] = send_to[r]
                              /\ new_rank(send_to[r]) = (new_rank(r) + 1) % new_world(r)
  BY DEF OneRing
<1>1. PICK F \in SUBSET Ranks : SettledRing(F)
  BY WhenSettled
<1>2. /\ working[0] \subseteq Ring(F) /\ Left = Ring(F)
      /\ \A p \in Ring(F), i \in Ranks : Stays(p, i) <=> i \in Ring(F)
      /\ \A p \in Ring(F) : Ring(F) = {0} \/ (Follows(F, p, send_to[p]) /\ signal_to[p] = send_to[p])
  BY <1>1 DEF SettledRing
<1>3. ASSUME NEW r \in Left
      PROVE  new_world(r) = Cardinality(Left)
  <2>1. {i \in Ranks : Stays(r, i)} = Left
    BY <1>2, WorldFacts DEF Ring
  <2> QED
    BY <2>1 DEF new_world
<1>4. ASSUME NEW r \in Left, Cardinality(Left) > 1
      PROVE  /\ send_to[r] \in Left /\ signal_to[r] = send_to[r]
             /\ new_rank(send_to[r]) = (new_rank(r) + 1) % new_world(r)
  <2>1. Ring(F) # {0}
    <3>1. Cardinality({0}) = 1
      BY FS_Singleton
    <3> QED
      BY <1>2, <1>4, <3>1
  <2>2. Follows(F, r, send_to[r]) /\ signal_to[r] = send_to[r]
    BY <1>2, <2>1
  <2>3. send_to[r] \in Ring(F)
    BY <2>2 DEF Follows
  <2>4. new_rank(send_to[r]) = (new_rank(r) + 1) % Cardinality(Ring(F))
    BY <1>2, <1>4, <2>2, <2>3, RankGoesUp
  <2> QED
    BY <1>2, <1>3, <2>2, <2>3, <2>4
<1> QED
  BY <1>2, <1>3, <1>4

LEMMA LastIsOne == SetupInv => OneLastWorker
<1> SUFFICES ASSUME SetupInv, AllSettled
             PROVE  LET last == {r \in working[0] : worker_rank(r) = n_worker(r) - 1}
                    IN  Cardinality(last) = 1 /\ \A r \in last, q \in working[0] : q <= r
  BY DEF OneLastWorker
<1> USE WorldFacts
<1>1. /\ 0 \in working[0] /\ working[0] \subseteq Ranks /\ \A r \in Ranks : working[r] = working[0]
  BY WhenSettled DEF SettledRing, Chosen
<1> DEFINE W    == working[0]
           U(r) == {i \in 1 .. r : i \in W}
           rest == {i \in Ranks \ {0} : i \in W}
           last == {r \in W : worker_rank(r) = n_worker(r) - 1}
<1>2. ASSUME NEW r \in W
      PROVE  worker_rank(r) = n_worker(r) - 1 <=> \A q \in W : q <= r
  <2>1. r \in Ranks /\ worker_rank(r) = Cardinality(U(r)) /\ n_worker(r) = 1 + Cardinality(rest)
    BY <1>1 DEF worker_rank, n_worker
  <2>2. U(r) \subseteq rest /\ U(r) \in SUBSET Ranks /\ rest \in SUBSET Ranks
    BY <1>1
  <2>3. (\A q \in W : q <= r) <=> U(r) = rest
    <3>1. \A i \in 1 .. r : i \in Int /\ i <= r
      BY <2>1
    <3>2. \A q \in W : q \in 0 .. NWorld - 1
      BY <1>1
    <3>3. ASSUME \A q \in W : q <= r PROVE rest \subseteq U(r)
      BY <2>1, <3>2, <3>3
    <3>4. ASSUME U(r) = rest, NEW q \in W PROVE q <= r
      <4>1. q = 0 \/ q \in U(r)
        BY <3>2, <3>4
      <4> QED
        BY <2>1, <3>1, <4>1
    <3> QED
      BY <2>2, <3>3, <3>4
  <2> HIDE DEF U, rest
  <2>4. U(r) = rest <=> Cardinality(U(r)) = Cardinality(rest)
    BY <2>2, SetIsFinite
  <2>5. Cardinality(U(r)) \in Nat /\ Cardinality(rest) \in Nat
    BY <2>2, SetIsFinite
  <2> QED
    BY <2>1, <2>3, <2>4, <2>5
<1>3. PICK m \in W : \A q \in W : q <= m
  <2> DEFINE T == {NWorld - q : q \in W}
  <2>1. T \in SUBSET Nat /\ T # {}
    BY <1>1
  <2>2. PICK t \in T : \A y \in T : t <= y
    <3> HIDE DEF T
    <3> QED
      BY <2>1, LeastNat
  <2>3. PICK m \in W : t = NWorld - m
    BY <2>2
  <2>4. ASSUME NEW q \in W PROVE q <= m
    <3>1. NWorld - m <= NWorld - q /\ q \in Int /\ m \in Int
      BY <1>1, <2>2, <2>3
    <3> QED
      BY <3>1
  <2> QED
    BY <2>4
<1>4. last = {m}
  <2>1. \A r \in W : r \in Int
    BY <1>1
  <2>2. \A r \in W : (\A q \in W : q <= r) <=> r = m
    BY <1>3, <2>1
  <2> HIDE DEF W
  <2> QED
    BY <1>2, <1>3, <2>2
<1>5. Cardinality(last) = 1
  BY <1>4, FS_Singleton
<1> HIDE DEF last
<1>6. \A r \in last, q \in W : q <= r
  BY <1>3, <1>4
<1> QED
  BY <1>5, <1>6 DEF last

LEMMA NothingIsLeft == SetupInv => NothingLeft
BY WhenSettled DEF SettledRing, NothingLeft, NoMessage, NoMessageIn

-----------------------------------------------------------------------------
(* Theorems                                                                *)

\* With any number of devices: the devices wait for one of the messages there are, know only devices
\* of the ring, and no two messages are ever on their way between the same two of them.
THEOREM KindsAreRight == Spec => []TypeOK
BY SetupInvariant, RightKinds, PTL

\* With any number of devices, whatever layers are assigned and whatever devices can be reached: the
\* message that arrives at a waiting device is the one it asserts (key, rank and type checks of the
\* llama_recv_* functions), and no device gives up.
THEOREM AssertionsNeverFail == Spec => []AssertionsHold
BY SetupInvariant, RightMessages, PTL

\* With any number of devices, whatever layers are assigned and whatever devices can be reached: once
\* all devices are settled what is left is one ring with every working device in it, all count the
\* same devices, the new ranks (llama_rebuild_topo, llama_free_sockets) go up by one along the
\* connections and back to the master, and the STOP goes the same way.
THEOREM RingIsRebuilt == Spec => []OneRing
BY SetupInvariant, RingIsOne, PTL

\* With any number of devices and whatever layers are assigned: exactly one working device takes
\* itself for the last one, and no working device is behind it.
THEOREM LastWorkerIsOne == Spec => []OneLastWorker
BY SetupInvariant, LastIsOne, PTL

\* With any number of devices: the set-up leaves no message in a socket for the first decode.
THEOREM SocketsAreEmpty == Spec => []NothingLeft
BY SetupInvariant, NothingIsLeft, PTL

=============================================================================
