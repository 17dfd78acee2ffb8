----------------------------- MODULE ChatServer -----------------------------
(***************************************************************************)
(* The encrypted chat (Lab2/irc): a server that selects on its sockets,    *)
(* reads one block at a time and writes it, behind a block that names the  *)
(* sender, to every client; and the clients, each with a user who types,   *)
(* logs out, or kills it.                                                  *)
(*                                                                         *)
(* Everything travels in blocks of BUF_SIZE bytes; a block is what it says *)
(* and encryption is left out.  insist_read and insist_write move whole    *)
(* blocks, and a write waits while the socket buffers are full.  A client  *)
(* that dies in a write may leave part of a block behind.                  *)
(*                                                                         *)
(* Closing a socket with unread data in it resets the connection: the next *)
(* read of the server fails, unless a write has taken the error first.     *)
(* Otherwise the server reads what was sent, and then the end of the file. *)
(***************************************************************************)
EXTENDS Integers, Sequences, SequencesExt

CONSTANTS Clients,
          Lines,       \* Lines[c], bound: how many lines the user of c types
          UpCap,       \* blocks that fit between a client and the server
          DownCap,     \* blocks that fit between the server and a client
          NoClient

ASSUME ConstantsAssumption ==
    /\ NoClient \notin Clients
    /\ Lines \in [Clients -> Nat]
    /\ UpCap \in Nat \ {0} /\ DownCap \in Nat \ {0}

VARIABLES spc,       \* where the server stands
          clients,   \* its list of clients, the latest first
          ready,     \* readfds: the clients select found readable
          walk,      \* the rest of the list that the loop over ptr goes through
          todo,      \* the clients ahead of the loop over ptr2
          due,       \* how many of the last blocks of log the first of them lacks
          curr,      \* curr_sd or newsd: the client the writes are about
          backlog,   \* connections not yet accepted
          conn,      \* conn[c]: the connection as the server finds it
          up, down,  \* what is in the sockets: to the server, to the client
          cpc,       \* where client c stands
          sdReady,   \* did its last select find the socket readable?
          sent,      \* how many blocks c has sent
          log,       \* history: every block the server sends to the room
          pos,       \* history: how far in log client c has read
          broken     \* history: clients that left unread data or half a block

server == << spc, clients, ready, walk, todo, due, curr, log >>
net == << backlog, conn, up, down >>
client == << cpc, sdReady, sent, pos, broken >>
vars == << server, net, client >>

Part == 0      \* part of a block
Block(kind, c, n) == [kind |-> kind, from |-> c, n |-> n]
Blocks == [kind : {"login", "logout", "head", "body"},
           from : Clients, n : Nat]

TypeOK ==
    /\ spc \in {"select", "walk", "write", "insert", "delete", "timed_out", "failed"}
    /\ clients \in Seq(Clients) /\ walk \in Seq(Clients) /\ backlog \in Seq(Clients)
    /\ IsInjective(clients)
    /\ ready \subseteq Clients
    /\ todo \in Seq(Clients) /\ due \in 1 .. 2
    /\ curr \in Clients \union {NoClient}
    /\ conn \in [Clients -> {"none", "open", "fin", "rst", "closed"}]
    /\ up \in [Clients -> Seq(Nat)] /\ \A c \in Clients : Len(up[c]) <= UpCap + 1
    /\ down \in [Clients -> Seq(Blocks)] /\ \A c \in Clients : Len(down[c]) <= DownCap
    /\ cpc \in [Clients -> {"new", "select", "send", "recv", "gone"}]
    /\ sdReady \in [Clients -> BOOLEAN]
    /\ sent \in [Clients -> Nat] /\ \A c \in Clients : sent[c] <= Lines[c]
    /\ log \in Seq(Blocks)
    /\ pos \in [Clients -> 0 .. Len(log)]
    /\ broken \subseteq Clients

Init ==
    /\ spc = "select" /\ clients = <<>> /\ ready = {} /\ walk = <<>>
    /\ todo = <<>> /\ due = 1 /\ curr = NoClient /\ backlog = <<>>
    /\ conn = [c \in Clients |-> "none"]
    /\ up = [c \in Clients |-> <<>>] /\ down = [c \in Clients |-> <<>>]
    /\ cpc = [c \in Clients |-> "new"]
    /\ sdReady = [c \in Clients |-> FALSE]
    /\ sent = [c \in Clients |-> 0]
    /\ log = <<>> /\ pos = [c \in Clients |-> 0] /\ broken = {}

Ended == spc \in {"timed_out", "failed"}

-----------------------------------------------------------------------------
(* The server *)

Readable(c) == up[c] # <<>> \/ conn[c] \in {"fin", "rst"}
Listed == ToSet(clients)

\* What the server says is written to each client of dests, in the order of the
\* list, all blocks to one and then all to the next.
Say(blocks, dests) ==
    /\ log' = log \o blocks
    /\ todo' = dests
    /\ due' = Len(blocks)
    /\ spc' = "write"

\* The list without client c.
Others(c) == RemoveAt(clients, CHOOSE i \in DOMAIN clients : clients[i] = c)

\* Mutant: the new client is put into the list before the others are told, too.
AcceptAndInsert ==
    /\ spc = "select" /\ backlog # <<>>
    /\ LET c == Head(backlog) IN
         /\ Say(<< Block("login", c, 0) >>, clients)
         /\ clients' = << c >> \o clients
         /\ curr' = c
    /\ backlog' = Tail(backlog)
    /\ UNCHANGED << ready, walk, conn, up, down, client >>

\* select finds a new connection: it is accepted, and nothing else is done.
Accept ==
    /\ spc = "select" /\ backlog # <<>>
    /\ LET c == Head(backlog) IN
         /\ Say(<< Block("login", c, 0) >>, clients)
         /\ curr' = c
    /\ backlog' = Tail(backlog)
    /\ UNCHANGED << clients, ready, walk, conn, up, down, client >>

SelectClients ==
    /\ spc = "select" /\ backlog = <<>>
    /\ ready' = {c \in Listed : Readable(c)}
    /\ ready' # {}
    /\ walk' = clients
    /\ spc' = "walk"
    /\ UNCHANGED << clients, todo, due, curr, log, net, client >>

\* Nothing was readable for a hundred seconds.
Timeout ==
    /\ spc = "select" /\ backlog = <<>>
    /\ ~\E c \in Listed : Readable(c)
    /\ spc' = "timed_out"
    /\ UNCHANGED << clients, ready, walk, todo, due, curr, log, net, client >>

\* The next client of the list was not found readable, or the list is over.
WalkOn ==
    /\ spc = "walk"
    /\ IF walk = <<>>
         THEN spc' = "select" /\ ready' = {} /\ UNCHANGED walk
         ELSE Head(walk) \notin ready /\ walk' = Tail(walk) /\ UNCHANGED << spc, ready >>
    /\ UNCHANGED << clients, todo, due, curr, log, net, client >>

Reads(c) == spc = "walk" /\ walk # <<>> /\ c = Head(walk) /\ c \in ready

\* Mutant: as in the loop for a logout, the reader's client is left out.
ReadBlockToOthers(c) ==
    /\ Reads(c)
    /\ up[c] # <<>> /\ Head(up[c]) # Part
    /\ LET said == << Block("head", c, 0), Block("body", c, Head(up[c])) >> IN
         Say(said, Others(c))
    /\ up' = [up EXCEPT ![c] = Tail(@)]
    /\ curr' = c
    /\ walk' = Tail(walk)
    /\ UNCHANGED << clients, ready, backlog, conn, down, client >>

\* Mutant: the block is said under the name of the first client of the list.
ReadBlockMisnamed(c) ==
    /\ Reads(c)
    /\ up[c] # <<>> /\ Head(up[c]) # Part
    /\ LET first == Head(clients)
           said == << Block("head", first, 0), Block("body", first, Head(up[c])) >> IN
         Say(said, clients)
    /\ up' = [up EXCEPT ![c] = Tail(@)]
    /\ curr' = c
    /\ walk' = Tail(walk)
    /\ UNCHANGED << clients, ready, backlog, conn, down, client >>

ReadBlock(c) ==
    /\ Reads(c)
    /\ up[c] # <<>> /\ Head(up[c]) # Part
    /\ LET said == << Block("head", c, 0), Block("body", c, Head(up[c])) >> IN
         Say(said, clients)
    /\ up' = [up EXCEPT ![c] = Tail(@)]
    /\ curr' = c
    /\ walk' = Tail(walk)
    /\ UNCHANGED << clients, ready, backlog, conn, down, client >>

\* End of file: the others are told.  The loop will go on from the client that
\* it is about to free, whose link the memory allocator leaves in place.
ReadEnd(c) ==
    /\ Reads(c)
    /\ up[c] = <<>> /\ conn[c] = "fin"
    /\ Say(<< Block("logout", c, 0) >>, Others(c))
    /\ curr' = c
    /\ walk' = Tail(walk)
    /\ UNCHANGED << clients, ready, net, client >>

\* Mutant: an end of file is taken for a failure.
ReadFailsAtEnd(c) ==
    /\ Reads(c)
    /\ \/ up[c] = <<>>
       \/ up[c] # <<>> /\ Head(up[c]) = Part
    /\ spc' = "failed"
    /\ UNCHANGED << clients, ready, walk, todo, due, curr, log, net, client >>

\* A failed read or a short one ends the server.
ReadFails(c) ==
    /\ Reads(c)
    /\ \/ up[c] = <<>> /\ conn[c] = "rst"
       \/ up[c] # <<>> /\ Head(up[c]) = Part
    /\ spc' = "failed"
    /\ UNCHANGED << clients, ready, walk, todo, due, curr, log, net, client >>

\* A line of a client is written behind the block that names it.
LastKind == log[Len(log)].kind
BlocksSaid == IF LastKind = "body" THEN 2 ELSE 1

\* The block to be written, and what is left of the loop after it.
NextBlock == log[Len(log) - due + 1]
OneLess == IF due > 1 THEN due' = due - 1 /\ UNCHANGED todo
           ELSE due' = BlocksSaid /\ todo' = Tail(todo)

\* Mutant: a write that fails is tried again.
WriteAgain ==
    /\ spc = "write" /\ todo # <<>>
    /\ LET c == Head(todo) IN
         /\ conn[c] = "open" /\ Len(down[c]) < DownCap
         /\ down' = [down EXCEPT ![c] = Append(@, NextBlock)]
    /\ OneLess
    /\ UNCHANGED << spc, clients, ready, walk, curr, log, backlog, conn, up, client >>

\* One insist_write.  It waits for room; on a connection that is gone it fails,
\* takes the error with it, and nobody looks at the result.
Write ==
    /\ spc = "write" /\ todo # <<>>
    /\ LET c == Head(todo) IN
         IF conn[c] = "open"
           THEN /\ Len(down[c]) < DownCap
                /\ down' = [down EXCEPT ![c] = Append(@, NextBlock)]
                /\ UNCHANGED conn
           ELSE /\ conn' = [conn EXCEPT ![c] = "fin"]
                /\ UNCHANGED down
    /\ OneLess
    /\ UNCHANGED << spc, clients, ready, walk, curr, log, backlog, up, client >>

\* What is left to do when all is written depends on the block.
Written(kind) == spc = "write" /\ todo = <<>> /\ LastKind = kind

Relayed ==
    /\ Written("body")
    /\ spc' = "walk"
    /\ curr' = NoClient
    /\ UNCHANGED << clients, ready, walk, todo, due, log, net, client >>

Insert ==
    /\ Written("login")
    /\ clients' = << curr >> \o clients
    /\ pos' = [pos EXCEPT ![curr] = Len(log)]
    /\ spc' = "select"
    /\ curr' = NoClient
    /\ UNCHANGED << ready, walk, todo, due, log, net, cpc, sdReady, sent, broken >>

Delete ==
    /\ Written("logout")
    /\ clients' = Others(curr)
    /\ conn' = [conn EXCEPT ![curr] = "closed"]
    /\ spc' = "walk"
    /\ curr' = NoClient
    /\ UNCHANGED << ready, walk, todo, due, log, backlog, up, down, client >>

Server ==
    \/ Accept \/ SelectClients \/ WalkOn \/ Write \/ Relayed \/ Insert \/ Delete
    \/ \E c \in Clients : ReadBlock(c) \/ ReadEnd(c) \/ ReadFails(c)

-----------------------------------------------------------------------------
(* The clients *)

Connect(c) ==
    /\ cpc[c] = "new" /\ ~Ended
    /\ cpc' = [cpc EXCEPT ![c] = "select"]
    /\ conn' = [conn EXCEPT ![c] = "open"]
    /\ backlog' = Append(backlog, c)
    /\ UNCHANGED << server, up, down, sdReady, sent, pos, broken >>

\* select finds a line typed, and perhaps the socket readable as well.
Type(c) ==
    /\ cpc[c] = "select" /\ sent[c] < Lines[c]
    /\ cpc' = [cpc EXCEPT ![c] = "send"]
    /\ sdReady' = [sdReady EXCEPT ![c] = down[c] # <<>>]
    /\ UNCHANGED << server, net, sent, pos, broken >>

\* select finds only the socket readable.
Wake(c) ==
    /\ cpc[c] = "select" /\ down[c] # <<>>
    /\ cpc' = [cpc EXCEPT ![c] = "recv"]
    /\ UNCHANGED << server, net, sdReady, sent, pos, broken >>

Send(c) ==
    /\ cpc[c] = "send" /\ ~Ended
    /\ Len(up[c]) < UpCap
    /\ up' = [up EXCEPT ![c] = Append(@, sent[c] + 1)]
    /\ sent' = [sent EXCEPT ![c] = @ + 1]
    /\ cpc' = [cpc EXCEPT ![c] = IF sdReady[c] THEN "recv" ELSE "select"]
    /\ sdReady' = [sdReady EXCEPT ![c] = FALSE]
    /\ UNCHANGED << server, backlog, conn, down, pos, broken >>

Recv(c) ==
    /\ cpc[c] = "recv" /\ ~Ended
    /\ down' = [down EXCEPT ![c] = Tail(@)]
    /\ pos' = [pos EXCEPT ![c] = @ + 1]
    /\ cpc' = [cpc EXCEPT ![c] = "select"]
    /\ UNCHANGED << server, backlog, conn, up, sdReady, sent, broken >>

\* The socket is closed, with or without unread data in it.
Close(c) ==
    /\ cpc' = [cpc EXCEPT ![c] = "gone"]
    /\ conn' = [conn EXCEPT ![c] = IF down[c] = <<>> THEN "fin" ELSE "rst"]
    /\ down' = [down EXCEPT ![c] = <<>>]
    /\ sdReady' = [sdReady EXCEPT ![c] = FALSE]
    /\ UNCHANGED << server, backlog, sent, pos >>

\* The user types "logout" or kills the client, or the hundred seconds are
\* over, of which each select of the client takes what it has waited.
Leave(c) ==
    /\ cpc[c] \in {"select", "send", "recv"} /\ ~Ended
    /\ Close(c)
    /\ broken' = IF down[c] = <<>> THEN broken ELSE broken \union {c}
    /\ UNCHANGED up

KilledInWrite(c) ==
    /\ cpc[c] = "send" /\ ~Ended
    /\ Close(c)
    /\ broken' = broken \union {c}
    /\ up' = [up EXCEPT ![c] = Append(@, Part)]

\* The server is gone: the client reads or writes into the void, and ends.
RemoteClosed(c) ==
    /\ cpc[c] \in {"select", "send", "recv"} /\ Ended
    /\ cpc' = [cpc EXCEPT ![c] = "gone"]
    /\ UNCHANGED << server, net, sdReady, sent, pos, broken >>

Client(c) ==
    \/ Connect(c) \/ Type(c) \/ Wake(c) \/ Send(c) \/ Recv(c)
    \/ Leave(c) \/ KilledInWrite(c) \/ RemoteClosed(c)

Next == Server \/ Timeout \/ \E c \in Clients : Client(c)

Spec == Init /\ [][Next]_vars

\* A process that can go on does; users type, leave and kill as they please.
FairSpec ==
    /\ Spec
    /\ WF_vars(Server)
    /\ \A c \in Clients : WF_vars(Wake(c) \/ Send(c) \/ Recv(c))

-----------------------------------------------------------------------------
(* Properties *)

\* How many of the last blocks of log the server has still to write to c.
Ahead(c) == IF c \notin ToSet(todo) THEN 0 ELSE IF c = Head(todo) THEN due ELSE BlocksSaid

\* A client that is in the room and still there has had, or has before it in its
\* socket, or is about to be sent, everything said since it came in, each block
\* once and in the order in which everybody gets them.
SameForAll ==
    \A c \in Listed :
        conn[c] = "open" => down[c] = SubSeq(log, pos[c] + 1, Len(log) - Ahead(c))
                            /\ pos[c] + Len(down[c]) + Ahead(c) = Len(log)

\* Where log has a line of client c, and where its socket has one.
Said(c) == {i \in 1 .. Len(log) : log[i].kind = "body" /\ log[i].from = c}
Unread(c) == {i \in 1 .. Len(up[c]) : up[c][i] # Part}

\* What a client has sent is in its socket or has been said in the room, in
\* this order, once, and under its name.
EveryLineSaid ==
    \A c \in Clients :
        /\ {log[i].n : i \in Said(c)} \union {up[c][i] : i \in Unread(c)} = 1 .. sent[c]
        /\ \A i, j \in Said(c) : i < j => log[i].n < log[j].n
        /\ \A i, j \in Unread(c) : i < j => up[c][i] < up[c][j]
        /\ \A i \in Said(c), j \in Unread(c) : log[i].n < up[c][j]

\* The server waits for a client that has stopped reading because it waits for
\* the server.
Gridlock ==
    /\ spc = "write" /\ todo # <<>>
    /\ LET c == Head(todo) IN
         /\ conn[c] = "open" /\ Len(down[c]) = DownCap
         /\ cpc[c] = "send" /\ Len(up[c]) = UpCap

\* Whatever the clients do, the server comes back to its select, where it finds
\* the next connection and every line sent since: no read waits for a client
\* that has nothing to say, no write for one that is gone, and no coming and
\* going ends the server.  It does not come back when the room has been silent
\* for long, when everybody waits for everybody, or when a client has left with
\* something unread or in the middle of a block ("Make sure a broken connection
\* doesn't kill us", server.c:67, is true of writes only).
BackToSelect ==
    []<>(spc \in {"select", "timed_out"} \/ Gridlock \/ (spc = "failed" /\ broken # {}))
=============================================================================
