---------------------------- MODULE RequestBroker ----------------------------
(***************************************************************************)
(* What the request path of the server promises, seen from the HTTP side:  *)
(* a handler opens the ids of its tasks, each open id is answered at most  *)
(* once, an id that was closed is neither answered nor opened again, and   *)
(* while the server runs no id stays open for ever.                        *)
(***************************************************************************)
EXTENDS Naturals

CONSTANT Ids        \* the ids that tasks may be given

VARIABLES
  open,             \* the ids somebody waits for
  known,            \* the ids that were ever opened
  answers,          \* how many answers each id was given
  stopped           \* the server no longer serves

brokerVars == <<open, known, answers, stopped>>

Init == open = {} /\ known = {} /\ answers = [id \in Ids |-> 0] /\ stopped = FALSE

Open(S) ==
  /\ S \cap known = {}
  /\ open' = open \cup S
  /\ known' = known \cup S
  /\ UNCHANGED <<answers, stopped>>

Answer(id) ==
  /\ ~stopped
  /\ id \in open
  /\ answers[id] = 0
  /\ answers' = [answers EXCEPT ![id] = 1]
  /\ UNCHANGED <<open, known, stopped>>

Close(S) ==
  /\ S \subseteq open
  /\ open' = open \ S
  /\ UNCHANGED <<known, answers, stopped>>

Stop == stopped' = TRUE /\ UNCHANGED <<open, known, answers>>

Next ==
  \/ \E S \in SUBSET Ids : S # {} /\ (Open(S) \/ Close(S))
  \/ \E id \in Ids : Answer(id)
  \/ Stop

Spec == Init /\ [][Next]_brokerVars

\* An open id is answered or closed, and an answered one is closed, unless the server stops.
Settle(id) ==
  /\ ~stopped
  /\ Answer(id) \/ \E S \in SUBSET Ids : id \in S /\ Close(S)

FairSpec == Spec /\ \A id \in Ids : WF_brokerVars(Settle(id))

=============================================================================
