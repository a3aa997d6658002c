----------------------------- MODULE DevSessions -----------------------------
(***************************************************************************)
(* The recorder of the phone (dev-session/recorder.ts) and the routes it   *)
(* feeds (dev-sessions.service.ts): a session is started when the app is   *)
(* shown and stopped when it is not, and the events pushed in between are  *)
(* sent by batches.                                                        *)
(*                                                                         *)
(* Nothing is awaited by the app: each call is a task that goes on while   *)
(* the app is shown, hidden and shown again, and that may fail before or   *)
(* after the server has done it.  An event is a number, its content and    *)
(* its validation are left out; the first event of a session (device_info) *)
(* is an event like the others.                                            *)
(***************************************************************************)
EXTENDS Naturals, FiniteSets, Sequences

CONSTANTS
    Task,         \* the calls that may be under way together
    Null,
    MaxBuffer,    \* MAX_BUFFER
    MaxEvents,    \* bound: events pushed by the app, device_info apart
    MaxSessions,  \* bound: calls of startSession
    MaxChanges    \* bound: changes of AppState

DevAssumption ==
    /\ IsFiniteSet(Task) /\ MaxBuffer \in Nat \ {0} /\ MaxEvents \in Nat
    /\ MaxSessions \in Nat \ {0}  \* initDevSession calls it once
    /\ MaxChanges \in Nat

VARIABLES
    appState,   \* AppState.currentState
    sessionId,  \* the session the recorder holds
    buffer,     \* the events that wait
    pushed,     \* events so far
    task,       \* the calls under way
    ended,      \* DevSession rows: whether endedAt is set
    copies,     \* DevEvent rows: how often an event was recorded
    lost,       \* history: events of batches that never reached the server
    starts, changes,
    failed      \* history: a call has failed

recorder == <<appState, sessionId, buffer, pushed, task>>
rows == <<ended, copies>>
vars == <<recorder, rows, lost, starts, changes, failed>>

Event == 1 .. (MaxEvents + MaxSessions)
Session == DOMAIN ended
NoTask == [kind |-> "none", session |-> Null, events |-> {}, served |-> FALSE]

Tasks == [kind : {"none", "start", "batch", "last", "stop"}, session : Nat \cup {Null},
          events : SUBSET (1 .. pushed), served : BOOLEAN]

TypeOK ==
    /\ appState \in {"active", "inactive", "background"}
    /\ sessionId \in Nat \cup {Null} /\ pushed \in Nat /\ buffer \subseteq 1 .. pushed
    /\ task \in [Task -> Tasks]
    /\ ended \in Seq(BOOLEAN) /\ copies \in [Event -> Nat] /\ lost \subseteq 1 .. pushed
    /\ starts \in 1 .. MaxSessions /\ changes \in 0 .. MaxChanges /\ failed \in BOOLEAN

Sent(kind, session, events) ==
    [kind |-> kind, session |-> session, events |-> events, served |-> FALSE]

Init ==
    /\ appState = "active" /\ sessionId = Null /\ buffer = {} /\ pushed = 0
    \* initDevSession starts a session.
    /\ \E t \in Task : task = [x \in Task |-> IF x = t THEN Sent("start", Null, {}) ELSE NoTask]
    /\ ended = <<>> /\ copies = [e \in Event |-> 0] /\ lost = {}
    /\ starts = 1 /\ changes = 0 /\ failed = FALSE

\* Mutant: the buffer is emptied once its batch is answered.
Taken_Later(events) == events

\* flush(): the buffer is replaced before the call.
Taken(events) == {}

\* A task for each call; the bound on tasks only delays them.
Flushed(t, kind, session, events) ==
    /\ task' = [task EXCEPT ![t] = Sent(kind, session, events)]
    /\ buffer' = Taken(events)

\* push(), which flushes a full buffer.
Push ==
    /\ pushed < MaxEvents
    /\ pushed' = pushed + 1
    /\ LET events == buffer \cup {pushed + 1}
       IN IF Cardinality(events) >= MaxBuffer /\ sessionId # Null
          THEN \E t \in Task : task[t] = NoTask /\ Flushed(t, "batch", sessionId, events)
          ELSE buffer' = events /\ UNCHANGED task
    /\ UNCHANGED <<appState, sessionId, rows, lost, starts, changes, failed>>

\* The interval of FLUSH_INTERVAL_MS.
FlushTimer ==
    /\ sessionId # Null /\ buffer # {}
    /\ \E t \in Task : task[t] = NoTask /\ Flushed(t, "batch", sessionId, buffer)
    /\ UNCHANGED <<appState, sessionId, pushed, rows, lost, starts, changes, failed>>

Released(id) == Null

\* stopSession(), after its flush: the session held by then.
TakeAndStop(t) ==
    /\ task' = [task EXCEPT ![t] = Sent("stop", sessionId, {})]
    /\ sessionId' = Released(sessionId)

\* The listener on AppState.
Change(to) ==
    /\ appState # to /\ changes < MaxChanges
    /\ appState' = to /\ changes' = changes + 1
    /\ IF to = "active" /\ sessionId = Null
       THEN /\ starts < MaxSessions /\ starts' = starts + 1
            /\ \E t \in Task : /\ task[t] = NoTask
                               /\ task' = [task EXCEPT ![t] = Sent("start", Null, {})]
            /\ UNCHANGED <<sessionId, buffer>>
       ELSE /\ UNCHANGED starts
            /\ IF to # "active" /\ sessionId # Null
               THEN \E t \in Task :
                       /\ task[t] = NoTask
                       /\ IF buffer # {}
                          THEN Flushed(t, "last", sessionId, buffer) /\ UNCHANGED sessionId
                          ELSE TakeAndStop(t) /\ UNCHANGED buffer
               ELSE UNCHANGED <<task, sessionId, buffer>>
    /\ UNCHANGED <<pushed, rows, lost, failed>>

-----------------------------------------------------------------------------
(* The server.                                                              *)

\* startSession, ingestEvents, and stopSession, which does nothing twice.
Serve(t) ==
    /\ task[t].kind # "none" /\ ~task[t].served
    /\ \/ /\ task[t].kind = "start"
          /\ ended' = Append(ended, FALSE)
          /\ task' = [task EXCEPT ![t].served = TRUE, ![t].session = Len(ended')]
          /\ UNCHANGED copies
       \/ /\ task[t].kind \in {"batch", "last"}
          /\ copies' = [e \in Event |-> copies[e] + IF e \in task[t].events THEN 1 ELSE 0]
          /\ task' = [task EXCEPT ![t].served = TRUE]
          /\ UNCHANGED ended
       \/ /\ task[t].kind = "stop"
          /\ ended' = [s \in Session |-> ended[s] \/ s = task[t].session]
          /\ task' = [task EXCEPT ![t].served = TRUE]
          /\ UNCHANGED copies
    /\ UNCHANGED <<appState, sessionId, buffer, pushed, lost, starts, changes, failed>>

\* The session started is the one held from now on, and device_info is pushed.
Started(t) ==
    /\ task[t].kind = "start" /\ task[t].served
    /\ sessionId' = task[t].session
    /\ pushed' = pushed + 1
    /\ LET events == buffer \cup {pushed + 1}
       IN IF Cardinality(events) >= MaxBuffer
          THEN Flushed(t, "batch", task[t].session, events)
          ELSE buffer' = events /\ task' = [task EXCEPT ![t] = NoTask]
    /\ UNCHANGED <<appState, rows, lost, starts, changes, failed>>

\* A batch is over when it is answered or fails, and the last one then stops
\* the session; nothing is tried again.
Over(t) ==
    IF task[t].kind = "last" THEN TakeAndStop(t)
    ELSE task' = [task EXCEPT ![t] = NoTask] /\ UNCHANGED sessionId

Done(t) ==
    /\ task[t].kind \in {"batch", "last", "stop"} /\ task[t].served
    /\ Over(t)
    /\ UNCHANGED <<appState, buffer, pushed, rows, lost, starts, changes, failed>>

Fails(t) ==
    /\ task[t].kind # "none"
    /\ Over(t)
    /\ failed' = TRUE
    /\ lost' = IF task[t].served THEN lost ELSE lost \cup task[t].events
    /\ UNCHANGED <<appState, buffer, pushed, rows, starts, changes>>

Next ==
    \/ Push \/ FlushTimer
    \/ \E to \in {"active", "inactive", "background"} : Change(to)
    \/ \E t \in Task : Serve(t) \/ Started(t) \/ Done(t) \/ Fails(t)

Spec == Init /\ [][Next]_vars

-----------------------------------------------------------------------------
(* flush: whatever calls overlap and fail, an event is in one place: it       *)
(* waits, or it is on its way, or it was recorded once, or its batch was lost. *)
EventsAreConserved ==
    \A e \in 1 .. pushed :
       LET carriers == {t \in Task : e \in task[t].events /\ ~task[t].served}
       IN (IF e \in buffer THEN 1 ELSE 0) + Cardinality(carriers) + copies[e]
             + (IF e \in lost THEN 1 ELSE 0) = 1

(* It is inductive with what is known of the calls: only a batch carries      *)
(* events, and a session to be started has its device_info still to come.     *)
Carries(t, e) == e \in task[t].events /\ ~task[t].served

InOnePlace(e) ==
    LET nowhere == \A t \in Task : ~Carries(t, e)
    IN  \/ e \in buffer /\ e \notin lost /\ copies[e] = 0 /\ nowhere
        \/ e \notin buffer /\ e \in lost /\ copies[e] = 0 /\ nowhere
        \/ e \notin buffer /\ e \notin lost /\ copies[e] = 1 /\ nowhere
        \/ /\ e \notin buffer /\ e \notin lost /\ copies[e] = 0
           /\ \E t \in Task : \A u \in Task : Carries(u, e) <=> u = t

OnlyBatchesCarry == \A t \in Task : task[t].kind \notin {"batch", "last"} => task[t].events = {}

Starting == {t \in Task : task[t].kind = "start"}
EveryEventFits ==
    /\ Cardinality(Starting) <= starts
    /\ pushed + Cardinality(Starting) <= MaxEvents + starts

RecorderInv ==
    /\ TypeOK /\ OnlyBatchesCarry /\ EveryEventFits
    /\ \A e \in 1 .. pushed : InOnePlace(e)
    /\ \A e \in Event \ (1 .. pushed) : copies[e] = 0

(* stopSession: the session the recorder sends its events to was never        *)
(* stopped, however the calls that stop and start sessions overlap.           *)
HeldSessionIsOpen == sessionId # Null => ~ended[sessionId]

(* recorder.ts:7-8: "Une session = un passage en foreground : demarree a      *)
(* l'activation de l'app, flushee + arretee au passage en arriere-plan".      *)
OneSessionPerPassage ==
    ~failed /\ (\A t \in Task : task[t] = NoTask)
       => Cardinality({s \in Session : ~ended[s]}) = IF appState = "active" THEN 1 ELSE 0
=============================================================================
