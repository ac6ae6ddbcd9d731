-------------------------- MODULE AgentChat_proofs --------------------------
(***************************************************************************)
(* Proofs about AgentChat, for any number of processes, recordings, texts  *)
(* and calls: what holds as long as the files have one user at a time.     *)
(***************************************************************************)
EXTENDS AgentChat, SequenceTheorems, TLAPS

Thing == Recordings \cup Texts \cup {None}

\* The types the invariants need: a text step has a text, and a chain once it has its session.
Types ==
  /\ pc \in [Processes -> {"idle"} \cup AudioSteps \cup TextSteps]
  /\ input \in [Processes -> Thing] /\ heard \in [Processes -> Thing]
  /\ seen \in [Processes -> Seq(Thing)]
  /\ chain \in [Processes -> Seq(Thing) \cup {None}]
  /\ temp \in Thing /\ planning \in Seq(Thing)
  /\ memory \in Seq([content : Thing]) \cup {Torn}
  /\ saved \in Seq(Thing) /\ turns \in Seq(Texts)
  /\ answered \in Seq([sent : Thing, heard : Thing])
  /\ \A p \in Processes :
       /\ pc[p] \in TextSteps => input[p] \in Texts /\ p \in talkers
       /\ pc[p] \in {"turn", "store"} => chain[p] \in Seq(Thing)

LEMMA TornIsRead == Torn \in Seq(Thing) /\ DOMAIN Torn = {1} /\ Torn[1] = None
<1>1. None \in Thing /\ Torn = <<None>>
  BY DEF Thing, Torn
<1>. QED
  BY <1>1

LEMMA StoredType ==
  ASSUME NEW messages \in Seq(Thing)
  PROVE  Stored(messages) \in Seq([content : Thing])
<1>. DEFINE Message == [content : Thing]
<1>1. Len(messages) \in Nat /\ DOMAIN messages = 1 .. Len(messages)
  OBVIOUS
<1>2. \A k \in 1 .. Len(messages) : [content |-> messages[k]] \in Message
  OBVIOUS
<1>3. Stored(messages) = [k \in 1 .. Len(messages) |-> [content |-> messages[k]]]
  BY <1>1, Zenon DEF Stored
<1>. HIDE DEF Message
<1>4. Stored(messages) \in [1 .. Len(messages) -> Message]
  BY <1>2, <1>3, Zenon
<1>5. Stored(messages) \in Seq(Message)
  BY <1>1, <1>4, IsASeq
<1>. QED
  BY <1>5 DEF Message

LEMMA OnlyContent ==
  ASSUME NEW S, NEW message \in [content : S]
  PROVE  DOMAIN message = {"content"}
OBVIOUS

\* The only file that a process can load is the empty one, from before the first turn.
LEMMA OnlyEmptyLoads ==
  ASSUME NEW file \in Seq([content : Thing]) \cup {Torn}, Readable(file)
  PROVE  file = <<>> /\ Loaded(file) = <<>>
<1>1. file \in Seq([content : Thing]) /\ DOMAIN file = {}
  <2>1. file \in Seq([content : Thing]) /\ \A k \in DOMAIN file : "data" \in DOMAIN file[k]
    BY DEF Readable
  <2>2. ASSUME NEW k \in DOMAIN file PROVE FALSE
    <3>1. file[k] \in [content : Thing]
      <4>. DEFINE Message == [content : Thing]
      <4>1. file \in Seq(Message)
        BY <2>1
      <4>. HIDE DEF Message
      <4>2. file[k] \in Message
        BY <4>1
      <4>. QED
        BY <4>2 DEF Message
    <3>2. DOMAIN file[k] = {"content"}
      BY <3>1, OnlyContent, Zenon
    <3>. QED
      BY <2>1, <3>2
  <2>. QED
    BY <2>1, <2>2
<1>2. file = <<>>
  BY <1>1
<1>. QED
  BY <1>2 DEF Loaded

LEMMA InitTypes == Init => Types
BY DEF Init, Types, Thing, AudioSteps, TextSteps

LEMMA NextTypes == Types /\ [Next]_vars => Types'
<1> SUFFICES ASSUME Types, [Next]_vars PROVE Types'
  OBVIOUS
<1> USE DEF Types, Thing
<1>1. ASSUME NEW p \in Processes, NEW a \in Recordings, Record(p, a) PROVE Types'
  BY <1>1 DEF Record, files, Goes, AudioSteps, TextSteps
<1>2. ASSUME NEW p \in Processes, NEW t \in Texts, Send(p, t) PROVE Types'
  BY <1>2 DEF Send, files, Goes, AudioSteps, TextSteps
<1>3. ASSUME NEW p \in Processes, WriteTemp(p) PROVE Types'
  BY <1>3 DEF WriteTemp, local, past, Goes, AudioSteps, TextSteps
<1>4. ASSUME NEW p \in Processes, Listen(p) PROVE Types'
  BY <1>4 DEF Listen, files, past, Goes, AudioSteps, TextSteps
<1>5. ASSUME NEW p \in Processes, LoadPlanning(p) PROVE Types'
  BY <1>5 DEF LoadPlanning, files, past, Goes, AudioSteps, TextSteps
<1>6. ASSUME NEW p \in Processes, AskSettings(p) PROVE Types'
  BY <1>6 DEF AskSettings, local, files, past, Goes, AudioSteps, TextSteps
<1>7. ASSUME NEW p \in Processes, OpenPlanning(p) PROVE Types'
  BY <1>7, TornIsRead DEF OpenPlanning, local, past, Goes, AudioSteps, TextSteps
<1>8. ASSUME NEW p \in Processes, DumpPlanning(p) PROVE Types'
  BY <1>8 DEF DumpPlanning, local, Goes, AudioSteps, TextSteps
<1>9. ASSUME NEW p \in Processes, Answer(p) PROVE Types'
  BY <1>9 DEF Answer, local, Goes, AudioSteps, TextSteps
<1>10. ASSUME NEW p \in Processes, GetSession(p) PROVE Types'
  <2>1. chain[p] = None => Loaded(memory) \in Seq(Thing)
    <3>1. ASSUME chain[p] = None PROVE Readable(memory)
      BY <1>10, <3>1 DEF GetSession
    <3>2. ASSUME chain[p] = None PROVE Loaded(memory) = <<>>
      BY <3>1, <3>2, OnlyEmptyLoads
    <3>. QED
      BY <3>2
  <2>2. chain[p] # None => chain[p] \in Seq(Thing)
    OBVIOUS
  <2>3. chain' = [chain EXCEPT ![p] = IF chain[p] = None THEN Loaded(memory) ELSE chain[p]]
    BY <1>10, Zenon DEF GetSession
  <2>4. chain' \in [Processes -> Seq(Thing) \cup {None}] /\ chain'[p] \in Seq(Thing)
    BY <2>1, <2>2, <2>3
  <2>5. \A q \in Processes : q # p => chain'[q] = chain[q]
    BY <2>3
  <2>. QED
    BY <1>10, <2>4, <2>5 DEF GetSession, files, past, Goes, AudioSteps, TextSteps
<1>11. ASSUME NEW p \in Processes, SaveTurn(p) PROVE Types'
  BY <1>11, TornIsRead DEF SaveTurn, past, Goes, AudioSteps, TextSteps
<1>12. ASSUME NEW p \in Processes, StoreMemory(p) PROVE Types'
  <2>1. chain[p] \in Seq(Thing)
    BY <1>12 DEF StoreMemory, Goes
  <2>2. memory' \in Seq([content : Thing])
    BY <1>12, <2>1, StoredType DEF StoreMemory
  <2>. QED
    BY <1>12, <2>2 DEF StoreMemory, local, Goes, AudioSteps, TextSteps
<1>13. ASSUME NEW p \in Processes, Fail(p) PROVE Types'
  BY <1>13 DEF Fail, local, files, past, AudioSteps, TextSteps
<1>14. ASSUME NEW p \in Processes, Crash(p) PROVE Types'
  BY <1>14 DEF Crash, files, past, AudioSteps, TextSteps
<1>15. CASE UNCHANGED vars
  BY <1>15 DEF vars, local, files, past
<1>. QED
  BY <1>1, <1>2, <1>3, <1>4, <1>5, <1>6, <1>7, <1>8, <1>9, <1>10, <1>11, <1>12, <1>13, <1>14,
     <1>15 DEF Next, AudioStep, TextStep

-----------------------------------------------------------------------------
(* Recordings that do not overlap                                          *)

\* At most one process works at a recording.  Once it has the history, that is what was saved;
\* the temporary file is its own until it has heard it, and what it has heard is its own.
Alone ==
  ~overlap =>
    /\ \A p, q \in Processes : pc[p] \in AudioSteps /\ pc[q] \in AudioSteps => p = q
    /\ planning \in {saved, Torn}
    /\ \A p \in Processes :
         /\ pc[p] \in {"ask", "save", "dump"} => seen[p] = saved
         /\ pc[p] = "listen" => temp = input[p]
         /\ pc[p] \in {"load", "ask", "save", "dump", "remove"} => heard[p] = input[p]
    /\ \A i \in DOMAIN answered : answered[i].heard = answered[i].sent

LEMMA NextAlone == Types /\ Alone /\ [Next]_vars => Alone'
<1> SUFFICES ASSUME Types, Alone, [Next]_vars PROVE Alone'
  OBVIOUS
<1> USE DEF Types, Alone
<1>1. ASSUME NEW p \in Processes, NEW a \in Recordings, Record(p, a) PROVE Alone'
  BY <1>1 DEF Record, files, Goes, AudioSteps
<1>2. ASSUME NEW p \in Processes, NEW t \in Texts, Send(p, t) PROVE Alone'
  BY <1>2 DEF Send, files, Goes, AudioSteps
<1>3. ASSUME NEW p \in Processes, WriteTemp(p) PROVE Alone'
  BY <1>3 DEF WriteTemp, local, past, Goes, AudioSteps
<1>4. ASSUME NEW p \in Processes, Listen(p) PROVE Alone'
  BY <1>4 DEF Listen, files, past, Goes, AudioSteps
<1>5. ASSUME NEW p \in Processes, LoadPlanning(p) PROVE Alone'
  BY <1>5 DEF LoadPlanning, files, past, Goes, AudioSteps
<1>6. ASSUME NEW p \in Processes, AskSettings(p) PROVE Alone'
  BY <1>6 DEF AskSettings, local, files, past, Goes, AudioSteps
<1>7. ASSUME NEW p \in Processes, OpenPlanning(p) PROVE Alone'
  BY <1>7 DEF OpenPlanning, local, past, Goes, AudioSteps
<1>8. ASSUME NEW p \in Processes, DumpPlanning(p) PROVE Alone'
  BY <1>8 DEF DumpPlanning, local, Goes, AudioSteps
<1>9. ASSUME NEW p \in Processes, Answer(p) PROVE Alone'
  <2>1. \A i \in DOMAIN answered' :
          \/ i \in DOMAIN answered /\ answered'[i] = answered[i]
          \/ answered'[i] = [sent |-> input[p], heard |-> heard[p]]
    BY <1>9 DEF Answer
  <2>2. ~overlap => heard[p] = input[p]
    BY <1>9 DEF Answer, Goes
  <2>. QED
    BY <1>9, <2>1, <2>2 DEF Answer, local, Goes, AudioSteps
<1>10. ASSUME NEW p \in Processes, GetSession(p) PROVE Alone'
  BY <1>10 DEF GetSession, files, past, Goes, AudioSteps
<1>11. ASSUME NEW p \in Processes, SaveTurn(p) PROVE Alone'
  BY <1>11 DEF SaveTurn, past, Goes, AudioSteps
<1>12. ASSUME NEW p \in Processes, StoreMemory(p) PROVE Alone'
  BY <1>12 DEF StoreMemory, local, Goes, AudioSteps
<1>13. ASSUME NEW p \in Processes, Fail(p) PROVE Alone'
  BY <1>13 DEF Fail, local, files, past, AudioSteps
<1>14. ASSUME NEW p \in Processes, Crash(p) PROVE Alone'
  BY <1>14 DEF Crash, files, past, AudioSteps
<1>15. CASE UNCHANGED vars
  BY <1>15 DEF vars, local, files, past
<1>. QED
  BY <1>1, <1>2, <1>3, <1>4, <1>5, <1>6, <1>7, <1>8, <1>9, <1>10, <1>11, <1>12, <1>13, <1>14,
     <1>15 DEF Next, AudioStep, TextStep

LEMMA SpecAlone == Spec => [](Types /\ Alone)
<1>1. Init => Types /\ Alone
  BY InitTypes DEF Init, Alone, AudioSteps
<1>2. Types /\ Alone /\ [Next]_vars => (Types /\ Alone)'
  BY NextTypes, NextAlone
<1>. QED
  BY <1>1, <1>2, PTL DEF Spec

\* The planning history that is read holds every request that was saved, once and in order, for
\* any number of processes and calls, as long as recordings do not overlap
\* (generate_initial_settings_from_description).
THEOREM HistoryIsKept == Spec => []HistoryKept
<1>1. Types /\ Alone => HistoryKept
  BY DEF Alone, HistoryKept
<1>. QED
  BY <1>1, SpecAlone, PTL

\* A client is answered for its own recording, whatever earlier calls have left behind, as long
\* as recordings do not overlap (chat_agent_audio).
THEOREM RecordingIsOwn == Spec => []OwnRecording
<1>1. Types /\ Alone => OwnRecording
  BY DEF Alone, OwnRecording
<1>. QED
  BY <1>1, SpecAlone, PTL

-----------------------------------------------------------------------------
(* The one session                                                         *)

\* If p alone has had the session, the file holds the turns, and so does its memory, if it has one;
\* or the file is being written and the memory has one turn more; or p has died while writing.
OneTalker ==
  \A p \in Processes : talkers \subseteq {p} =>
    \/ /\ memory = Stored(turns) /\ pc[p] # "store" /\ chain[p] \in {None, turns}
       /\ pc[p] = "turn" => chain[p] = turns
    \/ memory = Torn /\ pc[p] = "store" /\ chain[p] = Append(turns, input[p])
    \/ memory = Torn /\ pc[p] \notin {"turn", "store"} /\ chain[p] = None

LEMMA NextOneTalker == Types /\ OneTalker /\ [Next]_vars => OneTalker'
<1> SUFFICES ASSUME Types, OneTalker, [Next]_vars PROVE OneTalker'
  OBVIOUS
<1> USE DEF Types, OneTalker
<1>1. ASSUME NEW p \in Processes, NEW a \in Recordings, Record(p, a) PROVE OneTalker'
  BY <1>1 DEF Record, files, Goes, TextSteps
<1>2. ASSUME NEW p \in Processes, NEW t \in Texts, Send(p, t) PROVE OneTalker'
  BY <1>2 DEF Send, files, Goes, TextSteps
<1>3. ASSUME NEW p \in Processes, AudioStep(p) PROVE OneTalker'
  BY <1>3 DEF AudioStep, WriteTemp, Listen, LoadPlanning, AskSettings, OpenPlanning,
                    DumpPlanning, Answer, local, files, past, Goes
<1>4. ASSUME NEW p \in Processes, GetSession(p) PROVE OneTalker'
  <2>1. p \in talkers
    BY <1>4 DEF GetSession, Goes, TextSteps
  <2>2. chain[p] = None => memory = <<>> /\ Loaded(memory) = <<>> /\ memory # Torn
    BY <1>4, OnlyEmptyLoads DEF GetSession, Readable
  <2>3. memory = <<>> /\ memory = Stored(turns) => turns = <<>>
    <3>1. ASSUME memory = <<>>, memory = Stored(turns) PROVE DOMAIN turns = {}
      BY <3>1 DEF Stored
    <3>. QED
      BY <3>1
  <2>. QED
    BY <1>4, <2>1, <2>2, <2>3 DEF GetSession, files, past, Goes, TextSteps
<1>5. ASSUME NEW p \in Processes, SaveTurn(p) PROVE OneTalker'
  BY <1>5 DEF SaveTurn, past, Goes, TextSteps
<1>6. ASSUME NEW p \in Processes, StoreMemory(p) PROVE OneTalker'
  BY <1>6 DEF StoreMemory, local, Goes, TextSteps
<1>7. ASSUME NEW p \in Processes, Fail(p) PROVE OneTalker'
  BY <1>7 DEF Fail, local, files, past, TextSteps
<1>8. ASSUME NEW p \in Processes, Crash(p) PROVE OneTalker'
  BY <1>8 DEF Crash, files, past, TextSteps
<1>9. CASE UNCHANGED vars
  BY <1>9 DEF vars, local, files, past
<1>. QED
  BY <1>1, <1>2, <1>3, <1>4, <1>5, <1>6, <1>7, <1>8, <1>9 DEF Next, TextStep

\* The file of the session holds every turn that was stored, and the memory of its process does,
\* through failures and whatever takes the place of the process, for any number of processes and
\* calls, as long as one of them serves the session (save_session_memory, load_session_memory).
THEOREM TurnsAreKept == Spec => []TurnsKept
<1>1. Init => Types /\ OneTalker
  BY InitTypes DEF Init, OneTalker, Stored
<1>2. Types /\ OneTalker /\ [Next]_vars => (Types /\ OneTalker)'
  BY NextTypes, NextOneTalker
<1>3. OneTalker => TurnsKept
  BY DEF OneTalker, TurnsKept
<1>. QED
  BY <1>1, <1>2, <1>3, PTL DEF Spec

=============================================================================
