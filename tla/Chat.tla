-------------------------------- MODULE Chat --------------------------------
(****************************************************************************)
(* The chat room of one consultation in the chat mode: chat_message, the    *)
(* handlers of the socket gateway and what the web client shows.  A device  *)
(* enters the room, then the gateway reads the history and answers with it; *)
(* what is told to the room meanwhile goes down the same socket before the  *)
(* answer, and the answer replaces what the device shows.  Every change is  *)
(* written first and told to the room in a later step.  Read receipts,      *)
(* typing signs and the system's own messages are left out.                 *)
(****************************************************************************)
EXTENDS Integers, FiniteSets, Sequences

CONSTANTS
    Devices,     \* sockets; one user may have several
    OwnerOf,     \* whose device: "student" or "teacher"
    Messages,    \* ids of chat_message, in use or not
    FreeLimit,   \* messages a student may send after the consultation ended
    HistoryLimit, \* messages the history returns
    MaxJoins, MaxCalls \* bounds

ASSUME ChatAssumption ==
    /\ OwnerOf \in [Devices -> {"student", "teacher"}]
    /\ {FreeLimit, HistoryLimit} \subseteq Nat \ {0} /\ {MaxJoins, MaxCalls} \subseteq Nat

VARIABLES
    message,    \* chat_message
    phase,      \* the consultation goes on, has ended, or is closed for writing
    socket,     \* how far each device has joined, and the history read for it
    wire,       \* events on their way to each device, in order
    screen,     \* what each device shows
    call,       \* what the gateway is doing for each device
    joins, calls,  \* how many were made, there only to bound them
    doubtful,   \* history: <<device, message>> the rooms' order of events cannot settle
    staleSends,  \* history: messages sent on a count that had changed
    oldest,      \* the HistoryLimit messages that were saved first
    leftOut      \* history: <<device, message>> where its last history had no place for the message

historyVars == <<oldest, leftOut>>
chatVars == <<message, phase, socket, wire, screen, call, joins, calls, doubtful, staleSends,
              historyVars>>

NoMessage == [by |-> "nobody", late |-> FALSE, deleted |-> FALSE, liked |-> {}]
Away == [at |-> "out", rows |-> [m \in Messages |-> NoMessage]]
Still == [at |-> "still"]
Seen(by, deleted, liked) == [by |-> by, deleted |-> deleted, liked |-> liked]
Nothing == Seen("nobody", FALSE, {})

\* A message as a client gets it: of a deleted one only the tombstone.
Shape(r) == Seen(r.by, r.deleted, IF r.deleted THEN {} ELSE r.liked)

\* A socket hears the room from the moment it joins, before its answer is ready.
InRoom(d) == socket[d].at # "out"

SessionOpen == phase # "closed"
Works(d, m) == call[d].at # "still" /\ call[d].of = m
Live(m) == message[m].by # "nobody" /\ ~message[m].deleted
CountPostEnd == Cardinality({m \in Messages : Live(m) /\ message[m].by = "student" /\ message[m].late})

\* The free messages after the end, counted before the message is saved.
MaySend(by) == by = "student" /\ phase = "ended" => CountPostEnd < FreeLimit

ChatInit ==
    /\ message = [m \in Messages |-> NoMessage]
    /\ phase = "open"
    /\ socket = [d \in Devices |-> Away]
    /\ wire = [d \in Devices |-> <<>>]
    /\ screen = [d \in Devices |-> [m \in Messages |-> Nothing]]
    /\ call = [d \in Devices |-> Still]
    /\ joins = 0 /\ calls = 0
    /\ doubtful = {} /\ staleSends = 0
    /\ oldest = {} /\ leftOut = {}

----------------------------------------------------------------------------
(* chat:join and the client's answer to it.                                 *)

Enter(d) ==
    /\ socket[d].at = "out" /\ joins < MaxJoins
    /\ socket' = [socket EXCEPT ![d].at = "entered"]
    /\ joins' = joins + 1
    /\ UNCHANGED <<message, phase, wire, screen, call, calls, doubtful, staleSends, historyVars>>

\* In the order they were saved, and no more than HistoryLimit.
HistoryRows == [m \in Messages |-> IF m \in oldest THEN message[m] ELSE NoMessage]

ReadHistory(d) ==
    /\ socket[d].at = "entered"
    /\ socket' = [socket EXCEPT ![d] = [at |-> "read", rows |-> HistoryRows]]
    /\ leftOut' = {p \in leftOut : p[1] # d} \cup
                  ({d} \X {m \in Messages : HistoryRows[m] # message[m]})
    /\ doubtful' = {p \in doubtful : p[1] # d} \cup
                   {<<d, p[2]>> : p \in {p \in doubtful : \E e \in Devices : Works(e, p[2])}}
    /\ UNCHANGED <<message, phase, wire, screen, call, joins, calls, staleSends, oldest>>

AnswerJoin(d) ==
    /\ socket[d].at = "read"
    /\ wire' = [wire EXCEPT ![d] = Append(@, [kind |-> "history", rows |-> socket[d].rows])]
    /\ socket' = [socket EXCEPT ![d] = [Away EXCEPT !.at = "in"]]
    /\ UNCHANGED <<message, phase, screen, call, joins, calls, doubtful, staleSends, historyVars>>

\* What an event does to a screen: the history replaces it, a message already
\* there is not added again, a reaction or a deletion changes one that is there.
Shown(s, e) ==
    CASE e.kind = "history" -> [m \in Messages |-> Shape(e.rows[m])]
      [] e.kind = "message" -> IF s[e.of] = Nothing THEN [s EXCEPT ![e.of] = e.as] ELSE s
      [] e.kind = "reaction" -> IF s[e.of] = Nothing THEN s ELSE [s EXCEPT ![e.of].liked = e.liked]
      [] e.kind = "deleted" ->
             IF s[e.of] = Nothing THEN s
             ELSE [s EXCEPT ![e.of] = Seen(s[e.of].by, TRUE, {})]

Receive(d) ==
    /\ wire[d] # <<>>
    /\ screen' = [screen EXCEPT ![d] = Shown(@, Head(wire[d]))]
    /\ wire' = [wire EXCEPT ![d] = Tail(@)]
    /\ UNCHANGED <<message, phase, socket, call, joins, calls, doubtful, staleSends, historyVars>>

----------------------------------------------------------------------------
(* chat:send, chat:delete, chat:react.                                      *)

\* A handler takes up message m, perhaps while another is at work on it.
TakeUp(d, m, c) ==
    /\ calls < MaxCalls /\ calls' = calls + 1
    /\ call' = [call EXCEPT ![d] = c]
    /\ doubtful' = IF \E e \in Devices \ {d} : Works(e, m)
                   THEN doubtful \cup ({e \in Devices : InRoom(e)} \X {m}) ELSE doubtful

\* The client offers its tools once its own join was answered.
MayWrite(d) == socket[d].at = "in" /\ call[d].at = "still" /\ SessionOpen

CheckSend(d, m) ==
    /\ MayWrite(d) /\ MaySend(OwnerOf[d])
    /\ message[m] = NoMessage /\ \A e \in Devices : ~Works(e, m)
    /\ TakeUp(d, m, [at |-> "save", of |-> m, used |-> CountPostEnd, ended |-> phase = "ended"])
    /\ UNCHANGED <<message, phase, socket, wire, screen, joins, staleSends, historyVars>>

SaveMessage(d) ==
    /\ call[d].at = "save"
    /\ LET c == call[d]
           late == phase # "open"
       IN /\ message' = [message EXCEPT ![c.of] = [NoMessage EXCEPT !.by = OwnerOf[d], !.late = late]]
          /\ oldest' = IF Cardinality(oldest) < HistoryLimit THEN oldest \cup {c.of} ELSE oldest
          /\ staleSends' = IF late /\ OwnerOf[d] = "student" /\ (~c.ended \/ CountPostEnd > c.used)
                          THEN staleSends + 1 ELSE staleSends
          /\ call' = [call EXCEPT ![d] = [at |-> "tell", of |-> c.of, event |->
                         [kind |-> "message", of |-> c.of, as |-> Seen(OwnerOf[d], FALSE, {})]]]
    /\ UNCHANGED <<phase, socket, wire, screen, joins, calls, doubtful, leftOut>>

\* Only the sender's own, once; the message keeps its text, its view does not.
DeleteMessage(d, m) ==
    /\ MayWrite(d) /\ screen[d][m] # Nothing
    /\ Live(m) /\ message[m].by = OwnerOf[d]
    /\ message' = [message EXCEPT ![m].deleted = TRUE]
    /\ TakeUp(d, m, [at |-> "tell", of |-> m, event |-> [kind |-> "deleted", of |-> m]])
    /\ UNCHANGED <<phase, socket, wire, screen, joins, staleSends, historyVars>>

\* A reaction is toggled in what was read and written back by the message's id.
Reactable_Deleted(m) == message[m].by # "nobody"
Reactable(m) == Live(m)

ReadReactions(d, m) ==
    /\ MayWrite(d) /\ screen[d][m] # Nothing /\ Reactable(m)
    /\ LET mine == {OwnerOf[d]}
           liked == (message[m].liked \ mine) \cup (mine \ message[m].liked)
       IN TakeUp(d, m, [at |-> "react", of |-> m, liked |-> liked])
    /\ UNCHANGED <<message, phase, socket, wire, screen, joins, staleSends, historyVars>>

WriteReactions(d) ==
    /\ call[d].at = "react"
    /\ LET c == call[d]
       IN /\ message' = [message EXCEPT ![c.of].liked = c.liked]
          /\ call' = [call EXCEPT ![d] = [at |-> "tell", of |-> c.of, event |->
                         [kind |-> "reaction", of |-> c.of, liked |-> c.liked]]]
    /\ UNCHANGED <<phase, socket, wire, screen, joins, calls, doubtful, staleSends, historyVars>>

\* The room is told; a device between its history and its answer loses what is new.
TellRoom(d) ==
    /\ call[d].at = "tell"
    /\ LET m == call[d].of
       IN /\ wire' = [e \in Devices |-> IF InRoom(e) THEN Append(wire[e], call[d].event) ELSE wire[e]]
          /\ doubtful' = doubtful \cup
                 {<<e, m>> : e \in {o \in Devices :
                                     socket[o].at = "read" /\ socket[o].rows[m] # message[m]}}
    /\ call' = [call EXCEPT ![d] = Still]
    /\ UNCHANGED <<message, phase, socket, screen, joins, calls, staleSends, historyVars>>

----------------------------------------------------------------------------
(* Time, a lost connection and a restart of the server.                     *)

Later ==
    /\ \/ phase = "open" /\ phase' = "ended"
       \/ phase = "ended" /\ phase' = "closed"
    /\ UNCHANGED <<message, socket, wire, screen, call, joins, calls, doubtful, staleSends, historyVars>>

\* A device keeps its screen until the next join is answered.
Drop(d) ==
    /\ InRoom(d)
    /\ socket' = [socket EXCEPT ![d] = Away]
    /\ wire' = [wire EXCEPT ![d] = <<>>]
    /\ UNCHANGED <<message, phase, screen, call, joins, calls, doubtful, staleSends, historyVars>>

ServerRestarts ==
    /\ \E d \in Devices : call[d] # Still
    /\ socket' = [d \in Devices |-> Away]
    /\ wire' = [d \in Devices |-> <<>>]
    /\ call' = [d \in Devices |-> Still]
    /\ UNCHANGED <<message, phase, screen, joins, calls, doubtful, staleSends, historyVars>>

ChatNext ==
    \/ Later \/ ServerRestarts
    \/ \E d \in Devices :
          \/ Enter(d) \/ ReadHistory(d) \/ AnswerJoin(d) \/ Receive(d) \/ Drop(d)
          \/ SaveMessage(d) \/ WriteReactions(d) \/ TellRoom(d)
          \/ \E m \in Messages : CheckSend(d, m) \/ DeleteMessage(d, m) \/ ReadReactions(d, m)

----------------------------------------------------------------------------

\* A device that has joined and has nothing left to receive shows every message as
\* the room's table has it, a recalled one as a tombstone, except a message that
\* is still to be told, one that was not among the HistoryLimit oldest when the device
\* joined, and those the code leaves to chance: two handlers were at work on it at
\* once, or it was told between the history and the answer.
ScreensShowTheRoom ==
    \A d \in Devices, m \in Messages :
        /\ socket[d].at = "in" /\ wire[d] = <<>> /\ <<d, m>> \notin doubtful \cup leftOut
        /\ \A e \in Devices : ~Works(e, m)
        => screen[d][m] = Shape(message[m])

\* After the end a student has at most FreeLimit messages standing, but for those
\* saved on a count, or a phase, that had changed since it was read.
FreeWithinLimit == CountPostEnd <= FreeLimit + staleSends

\* The two together: what a room promises its participants.
ChatConsistent == ScreensShowTheRoom /\ FreeWithinLimit
=============================================================================
