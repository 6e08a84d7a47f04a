----------------------------- MODULE ClientStates -----------------------------
(***************************************************************************)
(* What a centrifuge client promises about its connection state, without   *)
(* transports, tokens, timers or callers: the four states of               *)
(* ClientState (protocol.rs), the moves between them, and that a           *)
(* connection exists, or is being sought, only while the application wants *)
(* one.  ConnectionLifecycle implements this specification.                *)
(***************************************************************************)
VARIABLES
  state,    \* what Client::state() answers
  wanted    \* connect() was called, and nothing has ended that wish since

States == {"Disconnected", "Connecting", "Connected", "Closed"}

TypeOK == /\ state \in States
          /\ wanted \in BOOLEAN

Init == /\ state = "Disconnected"
        /\ wanted = FALSE

\* The application asks for a connection.
Connect == /\ state = "Disconnected"
           /\ state' = "Connecting"
           /\ wanted' = TRUE

\* A handshake succeeded.
Establish == /\ state = "Connecting"
             /\ state' = "Connected"
             /\ UNCHANGED wanted

\* The connection was lost and is sought again.
Lose == /\ state = "Connected"
        /\ state' = "Connecting"
        /\ UNCHANGED wanted

\* The application or the server ended the connection for good.
GiveUp == /\ state \in {"Connecting", "Connected"}
          /\ state' = "Disconnected"
          /\ wanted' = FALSE

\* close() is final.
Close == /\ state # "Closed"
         /\ state' = "Closed"
         /\ UNCHANGED wanted

Next == Connect \/ Establish \/ Lose \/ GiveUp \/ Close

Spec == Init /\ [][Next]_<<state, wanted>>

\* A connection that nobody asked for never exists.
ConnectionWanted == state \in {"Connecting", "Connected"} => wanted
===============================================================================
