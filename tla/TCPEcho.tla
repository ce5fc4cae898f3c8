------------------------------ MODULE TCPEcho ------------------------------
(***************************************************************************)
(* The echo client and server (src/example/TCPEcho): some clients, one     *)
(* server, and TCP between them.  Each process has a loop of its own.      *)
(*                                                                         *)
(* A link is a connection seen from the kernels: what is on its way there  *)
(* and back, and who has its end open.  An end that is closed with unread  *)
(* data, or written to after it has been closed, resets the link.  Write   *)
(* and read are whole here; what a TCPConnection does for it is in module  *)
(* TCPConnection, and how a connector tries again in TCPConnector.         *)
(*                                                                         *)
(* A loop that was told to end may still run handlers of the same round.   *)
(* An event may be older than a reset that has come in since.              *)
(***************************************************************************)
EXTENDS Integers, Sequences, FiniteSetsExt

CONSTANTS
  Clients,      \* the client processes
  nobody,       \* no client
  MaxMessages   \* bound: messages a client sends

ASSUME EchoAssumption ==
  IsFiniteSet(Clients) /\ nobody \notin Clients /\ MaxMessages \in Nat \ {0}

VARIABLES
  client,   \* the EchoClient of each process, see EchoTypeOK
  server,   \* the EchoServer
  link      \* the connection of each client

echoVars == <<client, server, link>>

Counts == 0..MaxMessages
Loops == {"setup", "running", "quit", "ended", "aborted"}
Fds == 1..Cardinality(Clients)

EchoTypeOK ==
  /\ client \in [Clients ->
       [loop : Loops, running_ : BOOLEAN, connected_ : BOOLEAN,
        connection_ : BOOLEAN,  \* is there one?
        connector_ : {"null", "trying", "done"},
        messageCount_ : Counts,
        timers : 0..1,          \* of scheduleNextMessage()
        received : Seq(Counts)]]
  /\ server \in [loop : Loops, running_ : BOOLEAN,
                 listenSocket_ : BOOLEAN,
                 clients_ : [Fds -> Clients \cup {nobody}]]
  /\ link \in [Clients ->
       [there : Seq(Counts), back : Seq(Counts),
        near : {"none", "open", "closed"},
        far : {"none", "backlog", "open", "closed"},
        fd : Fds \cup {0},      \* of the server
        reset : BOOLEAN]]

NoLink == [there |-> <<>>, back |-> <<>>, near |-> "none", far |-> "none",
           fd |-> 0, reset |-> FALSE]

EchoInit ==
  /\ client = [c \in Clients |->
       [loop |-> "setup", running_ |-> FALSE, connected_ |-> FALSE,
        connection_ |-> FALSE, connector_ |-> "null", messageCount_ |-> 0,
        timers |-> 0, received |-> <<>>]]
  /\ server = [loop |-> "setup", running_ |-> FALSE, listenSocket_ |-> FALSE,
               clients_ |-> [fd \in Fds |-> nobody]]
  /\ link = [c \in Clients |-> NoLink]

Runs(process) == process.loop \in {"running", "quit"}

-----------------------------------------------------------------------------
(* The kernels *)

\* A descriptor is closed: by its owner, or with its process.
CloseNear(l) ==
  IF l.near # "open" THEN l
  ELSE [l EXCEPT !.near = "closed", !.reset = @ \/ l.back # <<>>,
                 !.back = <<>>]

CloseFar(l) ==
  CASE l.far = "open" -> [l EXCEPT !.far = "closed", !.fd = 0,
                                   !.reset = @ \/ l.there # <<>>,
                                   !.there = <<>>]
    [] l.far = "backlog" -> [l EXCEPT !.far = "closed", !.reset = TRUE,
                                      !.there = <<>>]
    [] OTHER -> l

\* A write where no reset has come in; the other end may be closed.
WriteThere(l, data) ==
  IF l.far = "closed" THEN [l EXCEPT !.reset = TRUE]
  ELSE [l EXCEPT !.there = @ \o data]

WriteBack(l, data) ==
  IF l.near = "closed" THEN [l EXCEPT !.reset = TRUE]
  ELSE [l EXCEPT !.back = @ \o data]

Handshake(c) ==
  /\ Runs(client[c]) /\ client[c].connector_ = "trying"
  /\ link[c].near = "none" /\ server.listenSocket_
  /\ link' = [link EXCEPT ![c].near = "open", ![c].far = "backlog"]
  /\ UNCHANGED <<client, server>>

-----------------------------------------------------------------------------
(* The client *)

Becomes(c, x, l) ==
  /\ client' = [client EXCEPT ![c] = x]
  /\ link' = [link EXCEPT ![c] = l]
  /\ UNCHANGED server

ToldToEnd(x) == [x EXCEPT !.loop = IF @ = "running" THEN "quit" ELSE @]

ClientStart(c) ==
  /\ client[c].loop = "setup" /\ ~client[c].running_
  /\ Becomes(c, [client[c] EXCEPT !.loop = "running", !.running_ = TRUE,
                                  !.connector_ = "trying"], link[c])

scheduleNextMessage(x) ==
  IF x.running_ /\ x.connected_ THEN [x EXCEPT !.timers = @ + 1] ELSE x

\* Mutant: as if nothing could have happened since the timer was set.
SendsAlways(x) == TRUE

Sends(x) == x.running_ /\ x.connected_

\* A process that writes through no connection, or to one that is reset, dies:
\* by a null pointer, or by SIGPIPE or HCHECK(!faultError).
sendMessage(c, x) ==
  CASE ~Sends(x) -> Becomes(c, x, link[c])
    [] Sends(x) /\ (~x.connection_ \/ link[c].reset) ->
         Becomes(c, [x EXCEPT !.loop = "aborted"], CloseNear(link[c]))
    [] OTHER ->
         LET n == x.messageCount_ + 1
         IN Becomes(c, scheduleNextMessage([x EXCEPT !.messageCount_ = n]),
                    WriteThere(link[c], <<n>>))

\* The connector has a connection; or a reset of it has come in first, and it
\* goes on to the next attempt.
HandleNewConnection(c) ==
  /\ Runs(client[c]) /\ client[c].connector_ = "trying"
  /\ link[c].near = "open"
  /\ \/ sendMessage(c, [client[c] EXCEPT !.connector_ = "done",
                          !.connection_ = TRUE, !.connected_ = TRUE])
     \/ link[c].reset /\ Becomes(c, client[c], NoLink)

\* Mutant: the loop is not told to end.
UnwoundOnly(x) == [x EXCEPT !.connected_ = FALSE, !.running_ = FALSE]

\* handleDisconnect() and handleError()
Unwound(x) == ToldToEnd([x EXCEPT !.connected_ = FALSE, !.running_ = FALSE])

FailedConnection(c) ==
  /\ Runs(client[c]) /\ client[c].connector_ = "trying"
  /\ link[c].near = "open" => link[c].reset
  /\ Becomes(c, Unwound([client[c] EXCEPT !.connector_ = "done"]),
             CloseNear(link[c]))

TimerFires(c) ==
  /\ Runs(client[c]) /\ client[c].timers > 0
  /\ client[c].messageCount_ < MaxMessages
  /\ sendMessage(c, [client[c] EXCEPT !.timers = @ - 1])

HasConnection(c) == Runs(client[c]) /\ client[c].connection_

HandleServerResponse(c) ==
  /\ HasConnection(c)
  /\ \E n \in 1..Len(link[c].back) :
       Becomes(c, [client[c] EXCEPT !.received =
                     IF client[c].connected_
                       THEN @ \o SubSeq(link[c].back, 1, n) ELSE @],
               [link[c] EXCEPT !.back = SubSeq(@, n + 1, Len(@))])

HandleDisconnect(c) ==
  /\ HasConnection(c)
  /\ \/ link[c].far = "closed" /\ link[c].back = <<>>
     \/ link[c].reset
  /\ Becomes(c, Unwound(client[c]), link[c])

\* stop()
Stopped(x) ==
  IF ~x.running_ THEN x
  ELSE [x EXCEPT !.running_ = FALSE, !.connected_ = FALSE,
                 !.connection_ = FALSE, !.connector_ = "null"]

Interrupt(c) ==
  /\ Runs(client[c])
  /\ Becomes(c, ToldToEnd(Stopped(client[c])),
             IF client[c].running_ THEN CloseNear(link[c]) ELSE link[c])

\* loop() returns, and main() with it.
ClientEnds(c) ==
  /\ client[c].loop = "quit"
  /\ Becomes(c, [client[c] EXCEPT !.loop = "ended", !.timers = 0,
                                  !.connection_ = FALSE],
             CloseNear(link[c]))

-----------------------------------------------------------------------------
(* The server *)

ServerStart ==
  /\ server.loop = "setup" /\ ~server.running_
  /\ server' = [server EXCEPT !.loop = "running", !.running_ = TRUE,
                              !.listenSocket_ = TRUE]
  /\ UNCHANGED <<client, link>>

\* accept() gives the lowest descriptor that is free.
ServerAccepts(c) ==
  /\ Runs(server) /\ server.listenSocket_ /\ link[c].far = "backlog"
  /\ LET fd == Min({n \in Fds : \A d \in Clients : link[d].fd # n})
     IN /\ server' = [server EXCEPT !.clients_[fd] = c]
        /\ link' = [link EXCEPT ![c].far = "open", ![c].fd = fd]
  /\ UNCHANGED client

\* The process is gone, and every descriptor with it.
ServerGone(how) ==
  /\ server' = [server EXCEPT !.loop = how, !.listenSocket_ = FALSE,
                              !.clients_ = [fd \in Fds |-> nobody]]
  /\ link' = [d \in Clients |-> CloseFar(link[d])]

\* Mutant: the data stays in the buffer and is echoed once more.
EchoTwice(data) == data \o data

Echo(data) == data

\* The n messages that are read are written back.  The callback knows the
\* connection by its descriptor only.
HandleClientData(c) ==
  /\ Runs(server) /\ link[c].far = "open"
  /\ \E n \in 1..Len(link[c].there) :
       LET data == SubSeq(link[c].there, 1, n)
           rest == [link[c] EXCEPT !.there = SubSeq(@, n + 1, Len(@))]
           found == server.clients_[link[c].fd]
       IN CASE found = nobody -> link' = [link EXCEPT ![c] = rest]
                                 /\ UNCHANGED server
            [] found # nobody /\ link[found].reset -> ServerGone("aborted")
            [] OTHER -> /\ link' = [[link EXCEPT ![c] = rest] EXCEPT
                                      ![found] = WriteBack(@, Echo(data))]
                        /\ UNCHANGED server
  /\ UNCHANGED client

\* Mutant: the descriptor is closed, the entry kept.
CloseOnly(c) ==
  /\ link' = [link EXCEPT ![c] = CloseFar(@)]
  /\ UNCHANGED server

\* forceClose() and erase(), the last reference.
CloseAndErase(c) ==
  /\ link' = [link EXCEPT ![c] = CloseFar(@)]
  /\ server' = [server EXCEPT !.clients_[link[c].fd] = nobody]

HandleClientDisconnect(c) ==
  /\ Runs(server) /\ link[c].far = "open"
  /\ \/ link[c].near = "closed" /\ link[c].there = <<>>
     \/ link[c].reset
  /\ CloseAndErase(c)
  /\ UNCHANGED client

\* stop(), and the listening socket takes its backlog along.
ServerInterrupt ==
  /\ Runs(server)
  /\ server' = ToldToEnd([server EXCEPT
                 !.running_ = FALSE, !.listenSocket_ = FALSE,
                 !.clients_ = [fd \in Fds |-> nobody]])
  /\ link' = [d \in Clients |-> CloseFar(link[d])]
  /\ UNCHANGED client

ServerEnds ==
  server.loop = "quit" /\ ServerGone("ended") /\ UNCHANGED client

-----------------------------------------------------------------------------

ClientLoopStep(c) ==
  \/ HandleNewConnection(c) \/ FailedConnection(c) \/ TimerFires(c)
  \/ HandleServerResponse(c) \/ HandleDisconnect(c) \/ ClientEnds(c)

ServerLoopStep(c) ==
  ServerAccepts(c) \/ HandleClientData(c) \/ HandleClientDisconnect(c)

EchoNext ==
  \/ \E c \in Clients : ClientStart(c) \/ Interrupt(c) \/ Handshake(c)
                          \/ ClientLoopStep(c) \/ ServerLoopStep(c)
  \/ ServerStart \/ ServerInterrupt \/ ServerEnds

\* Every loop serves what epoll reports, and returns when it was told to.
EchoFairness ==
  /\ \A c \in Clients : /\ WF_echoVars(ClientLoopStep(c))
                        /\ WF_echoVars(ServerLoopStep(c))
  /\ WF_echoVars(ServerEnds)

-----------------------------------------------------------------------------
(* Properties *)

\* What a client has got back is what it has sent, in its order and without
\* repetition, and as long as both ends are open the rest is on its way
\* (echo_client.cpp:142-179, echo_server.cpp:124-146).
EchoesInOrder ==
  \A c \in Clients :
    LET x == client[c]
        l == link[c]
        sent == [i \in 1..x.messageCount_ |-> i]
    IN /\ x.received = SubSeq(sent, 1, Len(x.received))
       /\ x.connected_ /\ l.far # "closed" /\ ~l.reset =>
            x.received \o l.back \o l.there = sent

\* clients_ holds the connections that are open and no other, under the
\* descriptors their callbacks were given, though descriptors are reused
\* (echo_server.cpp:100-114, 153-161).
ClientsAreOpen ==
  \A fd \in Fds, c \in Clients :
    server.clients_[fd] = c <=> link[c].far = "open" /\ link[c].fd = fd

\* A timer or an event that is left over after stop() finds no connection to
\* write through (echo_client.cpp:133-151).
WritesThroughConnection ==
  \A c \in Clients :
    /\ client[c].connected_ => client[c].running_ /\ client[c].connection_
    /\ client[c].loop = "aborted" => client[c].connection_

EchoLegal ==
  EchoTypeOK /\ EchoesInOrder /\ ClientsAreOpen /\ WritesThroughConnection

\* Every client that was started gets all its messages back or ends; none runs
\* on without a server, however either side was ended.
EchoIsLive ==
  \A c \in Clients :
    []<>(\/ client[c].loop \in {"setup", "ended", "aborted"}
         \/ Len(client[c].received) = MaxMessages)

\* A client that is ended does not end the server and with it all others.
ClientEndsAlone == server.loop # "aborted"

=============================================================================
