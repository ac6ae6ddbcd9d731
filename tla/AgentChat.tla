----------------------------- MODULE AgentChat -----------------------------
(***************************************************************************)
(* The agent chat of the web backend (agent_chat.py).  A recorded request  *)
(* is transcribed, answered by the language model with the requests before *)
(* it as examples, and added to planning_history.json; a text holds sensor *)
(* data of the one session, whose turns are kept in memory and in a file.  *)
(* The handlers call blocking code, so a process serves one call at a      *)
(* time; the processes of the server share the files.                      *)
(***************************************************************************)
EXTENDS Integers, Sequences

CONSTANTS
  Processes,   \* the processes of the server
  Recordings, Texts,   \* what clients send
  MaxCalls,    \* bound: calls of clients
  None         \* no file, no chain, nothing recorded

ASSUME NoneAssumption == None \notin Recordings /\ None \notin Texts

VARIABLES
  pc,        \* what a process does
  input,     \* what it was sent
  heard,     \* the recording it has transcribed
  seen,      \* history: the list generate_initial_settings has loaded
  chain,     \* SESSIONS: the memory of the chain, None before there is one
  temp,      \* temp_file.wav
  planning,  \* planning_history.json
  memory,    \* the file of the session
  calls,
  saved, answered, turns, talkers, overlap
             \* history: the requests that were saved and those that were answered, the turns,
             \* the processes that had a text, and whether two recordings were in work at once

files == <<temp, planning, memory>>
local == <<input, heard, seen, chain>>
past  == <<saved, answered, turns, talkers, overlap>>
vars  == <<pc, local, files, calls, past>>

\* A file that is open for writing, or was when its process died, is no JSON.
Torn == <<None>>

\* The session file holds what dict() makes of each message.
Stored(messages) == [k \in DOMAIN messages |-> [content |-> messages[k]]]

\* load_session_memory makes a message of msg['data'].
Readable(file) == file # Torn /\ \A k \in DOMAIN file : "data" \in DOMAIN file[k]
Loaded(file) == [k \in DOMAIN file |-> file[k].data]

AudioSteps == {"write", "listen", "load", "ask", "save", "dump", "remove"}
TextSteps  == {"session", "turn", "store"}

Init ==
  /\ pc = [p \in Processes |-> "idle"]
  /\ input = [p \in Processes |-> None] /\ heard = [p \in Processes |-> None]
  /\ seen = [p \in Processes |-> <<>>] /\ chain = [p \in Processes |-> None]
  /\ temp = None /\ planning = <<>> /\ memory = <<>>
  /\ calls = 0
  /\ saved = <<>> /\ answered = <<>> /\ turns = <<>> /\ talkers = {} /\ overlap = FALSE

Goes(p, from, to) == pc[p] = from /\ pc' = [pc EXCEPT ![p] = to]

\* An exception leaves the handler: the input is no recording or no JSON, a service, the model
\* or the parser fails, a file is not there or is torn.
Fail(p) ==
  /\ \/ pc[p] \in {"write", "listen", "ask", "session", "turn"}
     \/ pc[p] = "load" /\ planning = Torn
     \/ pc[p] = "remove" /\ temp = None
  /\ pc' = [pc EXCEPT ![p] = "idle"]
  /\ UNCHANGED <<local, files, calls, past>>

-----------------------------------------------------------------------------
(* chat_agent_audio                                                        *)

Record(p, a) ==
  /\ Goes(p, "idle", "write")
  /\ calls < MaxCalls /\ calls' = calls + 1
  /\ input' = [input EXCEPT ![p] = a]
  /\ overlap' = (overlap \/ \E q \in Processes : pc[q] \in AudioSteps)
  /\ UNCHANGED <<heard, seen, chain, files, saved, answered, turns, talkers>>

\* Mutant of WriteTemp: a file that a failed call has left is not written again.
WriteTempOnce(p) ==
  /\ Goes(p, "write", "listen")
  /\ temp' = IF temp = None THEN input[p] ELSE temp
  /\ UNCHANGED <<local, planning, memory, calls, past>>

WriteTemp(p) ==
  /\ Goes(p, "write", "listen")
  /\ temp' = input[p]
  /\ UNCHANGED <<local, planning, memory, calls, past>>

Listen(p) ==
  /\ temp # None
  /\ Goes(p, "listen", "load")
  /\ heard' = [heard EXCEPT ![p] = temp]
  /\ UNCHANGED <<input, seen, chain, files, calls, past>>

LoadPlanning(p) ==
  /\ planning # Torn
  /\ Goes(p, "load", "ask")
  /\ seen' = [seen EXCEPT ![p] = planning]
  /\ UNCHANGED <<input, heard, chain, files, calls, past>>

AskSettings(p) ==
  /\ Goes(p, "ask", "save")
  /\ UNCHANGED <<local, files, calls, past>>

\* save_planning_history opens the file, which empties it, and writes the list.
OpenPlanning(p) ==
  /\ Goes(p, "save", "dump")
  /\ planning' = Torn
  /\ UNCHANGED <<local, temp, memory, calls, past>>

\* Mutant of DumpPlanning: the request is not appended to the list that was loaded.
DumpPlanningAlone(p) ==
  /\ Goes(p, "dump", "remove")
  /\ planning' = <<heard[p]>>
  /\ saved' = Append(saved, heard[p])
  /\ UNCHANGED <<local, temp, memory, calls, answered, turns, talkers, overlap>>

DumpPlanning(p) ==
  /\ Goes(p, "dump", "remove")
  /\ planning' = Append(seen[p], heard[p])
  /\ saved' = Append(saved, heard[p])
  /\ UNCHANGED <<local, temp, memory, calls, answered, turns, talkers, overlap>>

\* The recording is removed, and its process answers.
Answer(p) ==
  /\ temp # None
  /\ Goes(p, "remove", "idle")
  /\ temp' = None
  /\ answered' = Append(answered, [sent |-> input[p], heard |-> heard[p]])
  /\ UNCHANGED <<local, planning, memory, calls, saved, turns, talkers, overlap>>

-----------------------------------------------------------------------------
(* chat_agent_text                                                         *)

Send(p, t) ==
  /\ Goes(p, "idle", "session")
  /\ calls < MaxCalls /\ calls' = calls + 1
  /\ input' = [input EXCEPT ![p] = t]
  /\ talkers' = talkers \cup {p}
  /\ UNCHANGED <<heard, seen, chain, files, saved, answered, turns, overlap>>

\* Mutant of GetSession: a file that cannot be loaded counts as none.
GetSessionNew(p) ==
  /\ Goes(p, "session", "turn")
  /\ chain' = [chain EXCEPT ![p] =
                 IF @ # None THEN @ ELSE IF Readable(memory) THEN Loaded(memory) ELSE <<>>]
  /\ UNCHANGED <<input, heard, seen, files, calls, past>>

\* get_or_create_session; a message of the file without 'data' is a KeyError.
GetSession(p) ==
  /\ chain[p] # None \/ Readable(memory)
  /\ Goes(p, "session", "turn")
  /\ chain' = [chain EXCEPT ![p] = IF @ = None THEN Loaded(memory) ELSE @]
  /\ UNCHANGED <<input, heard, seen, files, calls, past>>

\* The model has answered: save_context, and save_session_memory opens the file.
SaveTurn(p) ==
  /\ Goes(p, "turn", "store")
  /\ chain' = [chain EXCEPT ![p] = Append(@, input[p])]
  /\ memory' = Torn
  /\ UNCHANGED <<input, heard, seen, temp, planning, calls, past>>

\* The turns are written, and the client gets back what it sent.
StoreMemory(p) ==
  /\ Goes(p, "store", "idle")
  /\ memory' = Stored(chain[p])
  /\ turns' = Append(turns, input[p])
  /\ UNCHANGED <<local, temp, planning, calls, saved, answered, talkers, overlap>>

-----------------------------------------------------------------------------

\* The process dies, and a new one takes its place.
Crash(p) ==
  /\ pc' = [pc EXCEPT ![p] = "idle"]
  /\ chain' = [chain EXCEPT ![p] = None]
  /\ UNCHANGED <<input, heard, seen, files, calls, past>>

AudioStep(p) ==
  WriteTemp(p) \/ Listen(p) \/ LoadPlanning(p) \/ AskSettings(p) \/ OpenPlanning(p) \/ DumpPlanning(p)
    \/ Answer(p)

TextStep(p) == GetSession(p) \/ SaveTurn(p) \/ StoreMemory(p)

Next ==
  \E p \in Processes :
    \/ \E a \in Recordings : Record(p, a)
    \/ \E t \in Texts : Send(p, t)
    \/ AudioStep(p) \/ TextStep(p) \/ Fail(p) \/ Crash(p)

Spec == Init /\ [][Next]_vars

-----------------------------------------------------------------------------
(* Properties                                                              *)

\* As long as recordings do not overlap, whatever fails and whichever process dies, the planning
\* history that the prompt is given holds every request that was saved, once and in order, unless
\* a process died just while it wrote (generate_initial_settings_from_description).
HistoryKept == ~overlap => planning \in {saved, Torn}

\* As long as recordings do not overlap, a client is answered for its own recording, also after
\* calls that failed and left theirs (chat_agent_audio).
OwnRecording == ~overlap => \A i \in DOMAIN answered : answered[i].heard = answered[i].sent

\* As long as one process serves the session, the file holds every turn that was stored, and so
\* does the memory of the process, which has the turn being stored already.  A process that takes
\* its place, and cannot load the file, does not write over it (save_session_memory,
\* load_session_memory).
TurnsKept ==
  \A p \in Processes :
    talkers \subseteq {p} =>
      /\ memory \in {Stored(turns), Torn}
      /\ memory # Torn => chain[p] \in {None, turns}

\* create_realtime_control_chain loads the memory "from the file or creates a new one": a new
\* process can load the session that an earlier one has stored.
SessionLoads ==
  \A p \in Processes : pc[p] = "session" /\ chain[p] = None /\ memory # Torn => Readable(memory)

=============================================================================
