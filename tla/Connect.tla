------------------------------ MODULE Connect ------------------------------
(***************************************************************************)
(* How nodes get connected: connectToServer() in each client's thread, and *)
(* the mediator's accepting thread, which serves one client at a time from *)
(* accept() to startReceiveCycle().  The client waits for "ack", sends its *)
(* name and waits for "clr"; the mediator blocks until the name comes.     *)
(* Clients time out, say nothing, keep a socket that failed, or die.       *)
(***************************************************************************)
EXTENDS Naturals, Sequences, SequencesExt

CONSTANTS
    Clients,
    Impatient,      \* those that pass a timeout to connectToServer()
    Silent,         \* those that connect and send nothing
    Backlog,        \* listen_backlog
    AcceptErrors,   \* whether accept() may fail, out of descriptors for one
    Nobody

ASSUME ConnectAssumption ==
    /\ Impatient \cup Silent \subseteq Clients /\ Nobody \notin Clients
    /\ Backlog \in Nat \ {0} /\ AcceptErrors \in BOOLEAN

VARIABLES
    active,         \* MROS::active_
    server,         \* where the accepting thread is
    serving,        \* connection_socket
    backlog,        \* connections the kernel holds for accept()
    named,          \* entries of node_table_ that have their name
    started,        \* connections whose receive thread runs
    open,           \* connections whose server end is open
    client,         \* where each client is
    down, name      \* what is on the way to it; whether its name is on the way

accepting == <<server, serving, backlog, named, started, open>>
clients   == <<client, down, name>>
vars == <<active, accepting, clients>>

Handshake == {"ack", "name", "clr", "start"}

TypeOK ==
    /\ active \in BOOLEAN
    /\ server \in {"test", "accept", "sleep", "clear", "exited", "failed"} \cup Handshake
    /\ IF server \in Handshake THEN serving \in Clients ELSE serving = Nobody
    /\ backlog \in Seq(Clients) /\ Len(backlog) <= Backlog
    /\ started \subseteq named /\ named \subseteq Clients /\ open \subseteq Clients
    /\ client \in [Clients -> {"none", "polling", "naming", "waiting", "connected",
                               "failed", "gone"}]
    /\ down \in [Clients -> {"nothing", "ack", "clr"}]
    /\ name \in [Clients -> BOOLEAN]

Init ==
    /\ active = TRUE /\ server = "test" /\ serving = Nobody /\ backlog = <<>>
    /\ named = {} /\ started = {} /\ open = {}
    /\ client = [c \in Clients |-> "none"]
    /\ down = [c \in Clients |-> "nothing"]
    /\ name = [c \in Clients |-> FALSE]

Listening == server \notin {"clear", "exited", "failed"}

-----------------------------------------------------------------------------
(* connectToServer().  An exception leaves the socket open, in the hands of *)
(* its owner.                                                               *)

Becomes(c, state) == client' = [client EXCEPT ![c] = state]

\* connect() waits for room in the backlog.
Connect(c) ==
    /\ client[c] = "none" /\ Listening /\ Len(backlog) < Backlog
    /\ Becomes(c, "polling")
    /\ backlog' = Append(backlog, c) /\ open' = open \cup {c}
    /\ UNCHANGED <<active, server, serving, named, started, down, name>>

Refused(c) ==
    /\ client[c] = "none" /\ ~Listening
    /\ Becomes(c, "failed")
    /\ UNCHANGED <<active, accepting, down, name>>

\* poll(), then receiveMessage(), of whatever comes.
ReceiveAck(c) ==
    /\ client[c] = "polling" /\ down[c] # "nothing"
    /\ Becomes(c, "naming")
    /\ down' = [down EXCEPT ![c] = "nothing"]
    /\ UNCHANGED <<active, accepting, name>>

TimeOut(c) ==
    /\ c \in Impatient /\ client[c] = "polling" /\ down[c] = "nothing"
    /\ Becomes(c, "failed")
    /\ UNCHANGED <<active, accepting, down, name>>

SendName(c) ==
    /\ client[c] = "naming"
    /\ IF c \in open THEN Becomes(c, "waiting") /\ name' = [name EXCEPT ![c] = TRUE]
                     ELSE Becomes(c, "failed") /\ UNCHANGED name
    /\ UNCHANGED <<active, accepting, down>>

\* The receive cycle starts.
ReceiveClr(c) ==
    /\ client[c] = "waiting" /\ down[c] # "nothing"
    /\ Becomes(c, "connected")
    /\ down' = [down EXCEPT ![c] = "nothing"]
    /\ UNCHANGED <<active, accepting, name>>

\* The end of the stream, or the reset that an unread name causes.
ReceiveFails(c) ==
    /\ client[c] \in {"polling", "waiting"} /\ c \notin open
    /\ down[c] = "nothing" \/ name[c]
    /\ Becomes(c, "failed")
    /\ UNCHANGED <<active, accepting, down, name>>

\* The process ends, or the owner destroys the socket.
Leave(c) ==
    /\ client[c] \notin {"none", "gone"}
    /\ Becomes(c, "gone")
    /\ UNCHANGED <<active, accepting, down, name>>

-----------------------------------------------------------------------------
(* The mediator's accepting thread.                                        *)

Deactivate ==
    /\ active
    /\ active' = FALSE
    /\ UNCHANGED <<accepting, clients>>

\* After the loop the server is closed, and with it whoever nobody accepted.
Test ==
    /\ server = "test"
    /\ IF active
       THEN server' = "accept" /\ UNCHANGED <<backlog, open>>
       ELSE server' = "clear" /\ backlog' = <<>> /\ open' = open \ ToSet(backlog)
    /\ UNCHANGED <<active, serving, named, started, clients>>

\* Variant: the connection is not tested for null.
AcceptBlindly ==
    /\ server = "accept"
    /\ server' = "ack" /\ UNCHANGED <<backlog, serving>>
    /\ UNCHANGED <<active, named, started, open, clients>>
Accept ==
    /\ server = "accept"
    /\ IF backlog = <<>>
       THEN server' = "sleep" /\ UNCHANGED <<backlog, serving>>
       ELSE server' = "ack" /\ serving' = Head(backlog) /\ backlog' = Tail(backlog)
    /\ UNCHANGED <<active, named, started, open, clients>>

\* An exception is caught around the loop; main() returns, the process ends.
Fail ==
    /\ server' = "failed" /\ serving' = Nobody
    /\ backlog' = <<>> /\ open' = {}
    /\ UNCHANGED <<active, named, started, clients>>

AcceptFails == AcceptErrors /\ server = "accept" /\ Fail

Gone == client[serving] = "gone"

\* sendMessage() finds that the client has closed, receiveMessage() that it
\* closed and sent nothing.  Variant: the end of the stream is not an error.
HandshakeWaits ==
    /\ server \in {"ack", "clr"}
    /\ Gone /\ Fail
HandshakeFails ==
    /\ \/ server \in {"ack", "clr"}
       \/ server = "name" /\ ~name[serving]
    /\ Gone /\ Fail

SendDown(message, next) ==
    /\ ~Gone
    /\ down' = [down EXCEPT ![serving] = message]
    /\ server' = next
    /\ UNCHANGED <<active, serving, backlog, started, open, client>>

SendAck == server = "ack" /\ SendDown("ack", "name") /\ UNCHANGED <<named, name>>

\* The name is received and the connecting callback called, addNode().
\* Variant: the client is cleared first.
ReceiveNameLate ==
    /\ server = "name" /\ name[serving]
    /\ name' = [name EXCEPT ![serving] = FALSE]
    /\ server' = "clr"
    /\ UNCHANGED <<active, serving, backlog, named, started, open, client, down>>
ReceiveName ==
    /\ server = "name" /\ name[serving]
    /\ name' = [name EXCEPT ![serving] = FALSE]
    /\ named' = named \cup {serving}
    /\ server' = "clr"
    /\ UNCHANGED <<active, serving, backlog, started, open, client, down>>

SendClr == server = "clr" /\ SendDown("clr", "start") /\ UNCHANGED <<named, name>>

StartReceiveCycle ==
    /\ server = "start"
    /\ started' = started \cup {serving} /\ serving' = Nobody
    /\ server' = "sleep"
    /\ UNCHANGED <<active, backlog, named, open, clients>>

Sleep ==
    /\ server = "sleep"
    /\ server' = "test"
    /\ UNCHANGED <<active, serving, backlog, named, started, open, clients>>

\* The tables are cleared, the sockets destroyed.
Clear ==
    /\ server = "clear"
    /\ server' = "exited" /\ open' = {}
    /\ UNCHANGED <<active, serving, backlog, named, started, clients>>

-----------------------------------------------------------------------------
AcceptingThread ==
    \/ Test \/ Accept \/ AcceptFails \/ SendAck \/ ReceiveName \/ SendClr
    \/ StartReceiveCycle \/ HandshakeFails \/ Sleep \/ Clear

ConnectToServer(c) ==
    ReceiveAck(c) \/ SendName(c) \/ ReceiveClr(c) \/ ReceiveFails(c)

Next ==
    \/ Deactivate \/ AcceptingThread
    \/ \E c \in Clients : Connect(c) \/ Refused(c) \/ Leave(c)
    \/ \E c \in Clients \ Silent : ConnectToServer(c) \/ TimeOut(c)

Spec == Init /\ [][Next]_vars

\* The accepting thread and the clients' threads run; a blocked receive waits.
FairSpec == /\ Spec
            /\ WF_vars(AcceptingThread)
            /\ \A c \in Clients \ Silent : WF_vars(ConnectToServer(c))

-----------------------------------------------------------------------------
(* Properties.                                                             *)

\* When connectToServer() returns, the mediator knows the client by its name
\* and reads its requests or is about to, unless it has stopped serving
\* (connection_bson_rpc_socket.cpp:12-20).
KnownWhenConnected ==
    \A c \in Clients : client[c] = "connected" =>
        c \in named /\ (c \in started \/ serving = c \/ ~Listening)

\* The accepting thread waits for a name that nobody will send: the client is
\* silent, or its connectToServer() has failed and it keeps the socket.
Held == /\ server = "name" /\ ~name[serving]
        /\ serving \in Silent \/ client[serving] = "failed"

\* Every client that waits is served in its turn, unless the mediator stops,
\* however others time out, until one holds the accepting thread.
ClientsConnect ==
    \A c \in Clients \ Silent : client[c] = "polling" ~>
        \/ client[c] \in {"connected", "gone"} \/ Held
        \/ client[c] = "failed" /\ (c \in Impatient \/ ~Listening)

\* After SIGINT the loop ends, and nobody is left waiting, not even those that
\* were never accepted (mediator.cpp:84-91); only a held thread goes on waiting.
ShutdownCompletes ==
    ~active ~> \/ Held
               \/ /\ server \in {"exited", "failed"}
                  /\ \A c \in Clients \ Silent :
                         client[c] \in {"none", "connected", "failed", "gone"}

\* mediator.hpp:54: "Accept and set up connections from nodes until the process
\* is terminated".
ExitsOnlyWhenTerminated == ~Listening => ~active
=============================================================================
