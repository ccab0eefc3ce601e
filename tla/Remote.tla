------------------------------- MODULE Remote -------------------------------
(***************************************************************************)
(* The control socket: the worker of Remote with its descriptors, buffers  *)
(* and passes over select(), the main thread that opens and closes the     *)
(* socket, and the pages of the web interface that connect to it.          *)
(*                                                                         *)
(* A line is a sequence of tokens that ends in NL, so that a read may end  *)
(* inside of one.  A row of an answer has two pieces, so that a write may  *)
(* end inside of one; the last row is 0 ("OK", or an error line).  A piece *)
(* also tells, as a history, the number of the line that it answers.  The  *)
(* kernel gives out the lowest free descriptor.  Another thread of the     *)
(* process opens a file at some time; once its descriptor has been hit by  *)
(* mistake (stolen) what follows is arbitrary and the model stops.         *)
(***************************************************************************)
EXTENDS Integers, Sequences, SequencesExt

CONSTANTS
  Tokens,       \* pieces of lines
  Commands,     \* those that are in command_vec
  Clients,      \* pages, each of which connects once
  Script,       \* the lines a client sends before CLOSE
  Aborted,      \* clients that may end at any point
  Fds,          \* descriptor numbers
  LineLimit,    \* tokens of a line that is not yet too long (1024 bytes)
  Capacity,     \* answers that the kernel holds for a client
  RowsOf,       \* rows that a command answers before the last: one per message for
                \* LOG, one per camera for LIST, length and JSON for STATUS
  MaxInits      \* bound on instances (reloads)

NL == "NL"
None == -1
ASSUME RemoteAssumption ==
  /\ {"RELOAD", "CLOSE"} \subseteq Commands /\ Commands \subseteq Tokens
  /\ NL \in Tokens \ Commands
  /\ Script \in [Clients -> Seq(Seq(Tokens \ {NL}))]
  /\ RowsOf \in [Commands -> Nat]
  /\ {"free", "listen", "pipe", "other"} \cap Clients = {}
  /\ Aborted \subseteq Clients
  /\ Fds \subseteq Nat
  /\ {LineLimit, Capacity, MaxInits} \subseteq Nat

VARIABLES
  owner,          \* what each descriptor refers to
  other,          \* the descriptor the other thread believes to have, or None
  \* main thread: "down", "up", "join"; descriptors it has noted; instances so far
  main, sockfd, killfds, inits,
  \* worker: place, kill flag, connections, what is left of the two fd_sets, the
  \* connection served, place in its lines, rows still to be written, the client served
  worker, kill, conns, readSet, writeSet, cur, pos, reply, serving,
  readBuf, writeBuf,          \* by descriptor; << >> is "no entry"
  backlog, toServer, toClient,\* kernel: connections to accept, data under way
  page, line, toSend,         \* clients: place, index of the line, rest of it
  \* history: had the connection an empty buffer when accepted; lines executed
  \* for it; rows passed to write_data() for it; rows its client has read
  clean, done, owed, got,
  stolen                      \* was a descriptor of the other thread closed or written?

mainVars   == <<main, sockfd, killfds, inits>>
passVars   == <<readSet, writeSet>>
serveVars  == <<cur, pos, reply, serving>>
kernelVars == <<backlog, toServer, toClient>>
pageVars   == <<page, line, toSend>>
histVars   == <<clean, done, owed, got>>
vars == <<owner, other, mainVars, worker, kill, conns, passVars, serveVars, readBuf,
          writeBuf, kernelVars, pageVars, histVars, stolen>>

Free == {fd \in Fds : owner[fd] = "free"}
Lowest(fd, S) == fd \in S /\ \A g \in S : fd <= g
Connection(c) == {fd \in Fds : owner[fd] = c}
Accepted(c) == Connection(c) # {}
Connected(c) == c \in backlog \/ Accepted(c)
Lines(c) == Append(Script[c], <<"CLOSE">>)
Pieces == [of : Nat, row : Nat, end : BOOLEAN]
Row(i, n) == <<[of |-> i, row |-> n, end |-> FALSE], [of |-> i, row |-> n, end |-> TRUE]>>

Init ==
  /\ owner = [fd \in Fds |-> "free"] /\ other = None
  /\ main = "down" /\ sockfd = None /\ killfds = {} /\ inits = 0
  /\ worker = "off" /\ kill = FALSE /\ conns = {}
  /\ readSet = {} /\ writeSet = {}
  /\ cur = None /\ pos = 0 /\ reply = << >> /\ serving = "free"
  /\ readBuf = [fd \in Fds |-> << >>] /\ writeBuf = [fd \in Fds |-> << >>]
  /\ backlog = {}
  /\ toServer = [c \in Clients |-> << >>] /\ toClient = [c \in Clients |-> << >>]
  /\ page = [c \in Clients |-> "new"] /\ line = [c \in Clients |-> 1]
  /\ toSend = [c \in Clients |-> << >>]
  /\ clean = [c \in Clients |-> FALSE] /\ done = [c \in Clients |-> << >>]
  /\ owed = [c \in Clients |-> << >>] /\ got = [c \in Clients |-> << >>]
  /\ stolen = FALSE

\* close(2) by a thread that believes to own the descriptors fds.
CloseFds(fds) ==
  /\ owner' = [fd \in Fds |-> IF fd \in fds THEN "free" ELSE owner[fd]]
  /\ stolen' = (stolen \/ \E fd \in fds : owner[fd] = "other")

-----------------------------------------------------------------------------
(* Main thread: Remote::init() and Remote::shutdown(). *)

workerOnly == <<passVars, serveVars, readBuf, writeBuf>>
clientOnly == <<pageVars, histVars, toServer, toClient>>

\* create_socket() and spawn_worker().
CreateSocket ==
  /\ main = "down" /\ inits < MaxInits
  /\ \E s, k, m \in Free :
       /\ Lowest(s, Free) /\ Lowest(k, Free \ {s}) /\ Lowest(m, Free \ {s, k})
       /\ sockfd' = s /\ killfds' = {k, m}
       /\ owner' = [owner EXCEPT ![s] = "listen", ![k] = "pipe", ![m] = "pipe"]
  /\ kill' = FALSE /\ worker' \in {"select", "off"}   \* std::system_error: no worker
  /\ main' = "up" /\ inits' = inits + 1
  /\ UNCHANGED <<other, conns, workerOnly, clientOnly, backlog, stolen>>

\* No path, or bind(), chmod() or listen() failed.
CreateFails ==
  /\ main = "down" /\ inits < MaxInits
  /\ main' = "up" /\ inits' = inits + 1
  /\ UNCHANGED <<owner, other, sockfd, killfds, worker, kill, conns, workerOnly,
                 clientOnly, backlog, stolen>>

\* pipe() failed: the socket is closed, sockfd keeps its number.
PipeFails ==
  /\ main = "down" /\ inits < MaxInits
  /\ \E s \in Free : Lowest(s, Free) /\ sockfd' = s
  /\ main' = "up" /\ inits' = inits + 1
  /\ UNCHANGED <<owner, other, killfds, worker, kill, conns, workerOnly, clientOnly,
                 backlog, stolen>>

MutStopWorker ==
  /\ main = "up"
  /\ main' = "join" /\ kill' = TRUE
  /\ CloseFds({sockfd} \ {None})
  /\ UNCHANGED <<other, sockfd, killfds, inits, worker, conns, workerOnly, clientOnly,
                 backlog>>
StopWorker ==
  /\ main = "up"
  /\ main' = "join" /\ kill' = TRUE
  /\ UNCHANGED <<owner, other, sockfd, killfds, inits, worker, conns, workerOnly,
                 clientOnly, backlog, stolen>>

\* The join, and what shutdown() closes after it.
Shutdown ==
  /\ main = "join" /\ worker \in {"off", "done"}
  /\ CloseFds(conns \cup killfds \cup ({sockfd} \ {None}))
  /\ writeBuf' = [fd \in Fds |-> IF fd \in conns THEN << >> ELSE writeBuf[fd]]
  /\ conns' = {} /\ killfds' = {} /\ sockfd' = None /\ backlog' = {}
  /\ worker' = "off" /\ main' = "down"
  /\ UNCHANGED <<other, inits, kill, passVars, serveVars, readBuf, clientOnly>>

-----------------------------------------------------------------------------
(* The worker. *)

Gone(c) == page[c] = "gone"
Room(c) == Capacity - Len(toClient[c])
CanRead(fd)  == toServer[owner[fd]] # << >> \/ Gone(owner[fd])
MutCanWrite(fd) == Gone(owner[fd])
CanWrite(fd) == writeBuf[fd] # << >> /\ (Room(owner[fd]) > 0 \/ Gone(owner[fd]))

MutWakes(ready) == ready # {} \/ backlog # {}
Wakes(ready) == ready # {} \/ backlog # {} \/ kill

\* wait_for_activity(): select() returns what is ready; then at most one connection
\* is accepted.  The test for the kill pipe looks at the wrong bit and never ends
\* the pass.
Select ==
  /\ worker = "select"
  /\ LET readable == {fd \in conns : CanRead(fd)}
         writable == {fd \in conns : CanWrite(fd)}
     IN /\ Wakes(readable \cup writable)
        /\ readSet' = readable /\ writeSet' = writable
  /\ worker' = "conns"
  /\ UNCHANGED <<other, mainVars, kill, serveVars, readBuf, writeBuf, toServer, toClient,
                 pageVars, done, owed, got, stolen>>

AcceptNewConnection ==
  /\ Select
  /\ \E fd \in Free, c \in backlog :
       /\ Lowest(fd, Free)
       /\ owner' = [owner EXCEPT ![fd] = c]
       /\ conns' = conns \cup {fd}
       /\ backlog' = backlog \ {c}
       /\ clean' = [clean EXCEPT ![c] = readBuf[fd] = << >>]

\* Nobody to accept, or no descriptor left.
AcceptNothing ==
  /\ Select /\ (backlog = {} \/ Free = {})
  /\ UNCHANGED <<owner, conns, backlog, clean>>

PassEnds ==
  /\ worker = "conns" /\ readSet \cup writeSet = {}
  /\ worker' = IF kill THEN "done" ELSE "select"
  /\ UNCHANGED <<owner, other, mainVars, kill, conns, passVars, serveVars, readBuf,
                 writeBuf, kernelVars, pageVars, histVars, stolen>>

\* complete_write() from the pass, to go on with a partial write.
ResumeWrite ==
  /\ worker = "conns"
  /\ \E fd \in writeSet :
       /\ readSet' = readSet \ {fd} /\ writeSet' = writeSet \ {fd} /\ cur' = fd
  /\ worker' = "write" /\ serving' = "free"
  /\ UNCHANGED <<owner, other, mainVars, kill, conns, pos, reply, readBuf, writeBuf,
                 kernelVars, pageVars, histVars, stolen>>

MutForget(fd) == conns
Forget(fd) == conns \ {fd}

\* close_conn(): read_buffers keeps its entry.
CloseConn(fd) ==
  /\ CloseFds({fd})
  /\ writeBuf' = [writeBuf EXCEPT ![fd] = << >>]
  /\ conns' = Forget(fd)

\* read() in process_input() finds data,
ReadInput ==
  /\ worker = "conns"
  /\ \E fd \in readSet \ writeSet :
       LET c == owner[fd]
       IN /\ toServer[c] # << >>
          /\ readBuf' = [readBuf EXCEPT ![fd] = @ \o toServer[c]]
          /\ toServer' = [toServer EXCEPT ![c] = << >>]
          /\ readSet' = readSet \ {fd} /\ cur' = fd /\ serving' = c
  /\ pos' = 0 /\ worker' = "lines"
  /\ UNCHANGED <<owner, other, mainVars, kill, conns, writeSet, reply,
                 writeBuf, backlog, toClient, pageVars, histVars, stolen>>

\* or the end of the stream, at which errno is that of an earlier call: with the EINTR of a
\* select() that a signal has interrupted, say, the connection stays open.
StaysOpen == UNCHANGED <<owner, stolen, writeBuf, conns>>
ReadEof ==
  /\ worker = "conns"
  /\ \E fd \in readSet \ writeSet :
       /\ toServer[owner[fd]] = << >>
       /\ CloseConn(fd) \/ StaysOpen
       /\ readSet' = readSet \ {fd}
  /\ UNCHANGED <<other, mainVars, worker, kill, writeSet, serveVars, readBuf,
                 kernelVars, pageVars, histVars>>

Rest == SubSeq(readBuf[cur], pos + 1, Len(readBuf[cur]))
LineEnds == {i \in 1..Len(Rest) : Rest[i] = NL}
LineEnd == CHOOSE i \in LineEnds : \A j \in LineEnds : i <= j
NextLine == SubSeq(Rest, 1, LineEnd - 1)

\* What execute_cmd() answers: the first command that the line begins with.
CommandOf(l) == IF l # << >> /\ Head(l) \in Commands THEN Head(l) ELSE NL
Rows(l) == IF CommandOf(l) = NL THEN 0 ELSE RowsOf[CommandOf(l)]
Answer(i, l) == [n \in 1..(Rows(l) + 1) |-> Row(i, IF n <= Rows(l) THEN n ELSE 0)]

\* write_data(): the first of rows joins what is in the buffers and not yet written.
WriteData(rows, buffers) ==
  /\ writeBuf' = [buffers EXCEPT ![cur] = @ \o Head(rows)]
  /\ owed' = IF owner[cur] = serving THEN [owed EXCEPT ![serving] = @ \o Head(rows)] ELSE owed
  /\ reply' = Tail(rows)
  /\ worker' = "write"

\* A write() has returned: the next row, the next line or the next connection.
Written(buffers) ==
  IF reply # << >> THEN WriteData(reply, buffers)
  ELSE /\ worker' = IF serving = "free" THEN "conns" ELSE "lines"
       /\ writeBuf' = buffers /\ UNCHANGED <<reply, owed>>

MutConsume == pos' = pos + LineEnd + 1
Consume == pos' = pos + LineEnd

\* A complete line other than CLOSE; its answer goes to write_data() row by row.
ExecuteCmd ==
  /\ worker = "lines" /\ LineEnds # {}
  /\ CommandOf(NextLine) # "CLOSE"
  /\ WriteData(Answer(Len(done[serving]) + 1, NextLine), writeBuf)
  /\ done' = [done EXCEPT ![serving] = Append(@, NextLine)]
  /\ Consume
  /\ UNCHANGED <<owner, other, mainVars, kill, conns, passVars, cur, serving, readBuf,
                 kernelVars, pageVars, clean, got, stolen>>

CmdClose ==
  /\ worker = "lines" /\ LineEnds # {}
  /\ CommandOf(NextLine) = "CLOSE"
  /\ CloseConn(cur)
  /\ done' = [done EXCEPT ![serving] = Append(@, NextLine)]
  /\ Consume
  /\ UNCHANGED <<other, mainVars, worker, kill, passVars, cur, reply, serving,
                 readBuf, kernelVars, pageVars, clean, owed, got>>

MutLinesEnd ==
  /\ worker = "lines" /\ LineEnds = {} /\ Len(Rest) <= LineLimit
  /\ worker' = "conns"
  /\ UNCHANGED <<owner, other, mainVars, kill, conns, passVars, serveVars, readBuf, writeBuf,
                 kernelVars, pageVars, histVars, stolen>>

\* No further line: what is left is kept for the next read,
LinesEnd ==
  /\ worker = "lines" /\ LineEnds = {} /\ Len(Rest) <= LineLimit
  /\ readBuf' = [readBuf EXCEPT ![cur] = Rest]
  /\ worker' = "conns"
  /\ UNCHANGED <<owner, other, mainVars, kill, conns, passVars, serveVars, writeBuf,
                 kernelVars, pageVars, histVars, stolen>>

\* unless it is too long, when the whole buffer stays behind.
LineTooLong ==
  /\ worker = "lines" /\ LineEnds = {} /\ Len(Rest) > LineLimit
  /\ CloseConn(cur)
  /\ worker' = "conns"
  /\ UNCHANGED <<other, mainVars, kill, passVars, serveVars, readBuf, kernelVars, pageVars,
                 histVars>>

MutUnwritten(n) == << >>
Unwritten(n) == SubSeq(writeBuf[cur], n + 1, Len(writeBuf[cur]))

writeOnly == <<other, mainVars, kill, passVars, cur, pos, serving, readBuf, backlog,
               toServer, pageVars, clean, done, got>>

\* write(2) in complete_write() moves what the kernel takes, and waits for room for
\* the rest, or is interrupted by a signal and returns with less,
Write ==
  /\ worker = "write" /\ owner[cur] \in Clients
  /\ LET c == owner[cur]
         n == IF Len(writeBuf[cur]) <= Room(c) THEN Len(writeBuf[cur]) ELSE Room(c)
         buffers == [writeBuf EXCEPT ![cur] = Unwritten(n)]
     IN /\ ~Gone(c) /\ n > 0
        /\ toClient' = [toClient EXCEPT ![c] = @ \o SubSeq(writeBuf[cur], 1, n)]
        /\ \/ Written(buffers)
           \/ n < Len(writeBuf[cur]) /\ writeBuf' = buffers /\ UNCHANGED <<worker, reply, owed>>
  /\ UNCHANGED <<writeOnly, owner, conns, stolen>>

\* or fails, because the client has gone or the connection was closed before.
WriteFails ==
  /\ worker = "write"
  /\ owner[cur] = "free" \/ (owner[cur] \in Clients /\ Gone(owner[cur]))
  /\ CloseFds({cur}) /\ conns' = Forget(cur)
  /\ Written([writeBuf EXCEPT ![cur] = << >>])
  /\ UNCHANGED <<writeOnly, toClient>>

\* The descriptor belongs to another thread by now, whose file takes the data.
WriteElsewhere ==
  /\ worker = "write" /\ owner[cur] = "other"
  /\ stolen' = TRUE
  /\ Written([writeBuf EXCEPT ![cur] = << >>])
  /\ UNCHANGED <<writeOnly, owner, conns, toClient>>

-----------------------------------------------------------------------------
(* Clients: the class Remote of the web interface, one object per page. *)

serverOnly == <<other, mainVars, worker, kill, conns, passVars, serveVars, readBuf,
                writeBuf, stolen>>

NewLine(c, i) == Append(Lines(c)[i], NL)

Connect(c) ==
  /\ page[c] = "new" /\ \E fd \in Fds : owner[fd] = "listen"
  /\ backlog' = backlog \cup {c}
  /\ page' = [page EXCEPT ![c] = "send"]
  /\ toSend' = [toSend EXCEPT ![c] = NewLine(c, 1)]
  /\ UNCHANGED <<serverOnly, owner, toServer, toClient, line, histVars>>

\* send_cmd() sends the next piece of a line; more is to come,
SendPart(c) ==
  /\ page[c] = "send" /\ Connected(c) /\ Len(toSend[c]) > 1
  /\ toServer' = [toServer EXCEPT ![c] = Append(@, Head(toSend[c]))]
  /\ toSend' = [toSend EXCEPT ![c] = Tail(@)]
  /\ UNCHANGED <<serverOnly, owner, backlog, toClient, page, line, histVars>>

\* or it was all.  reload_backend() does not wait for its answer; the destructor
\* closes the socket after CLOSE.
SendLast(c) ==
  /\ page[c] = "send" /\ Connected(c) /\ Len(toSend[c]) = 1
  /\ toServer' = [toServer EXCEPT ![c] = Append(@, Head(toSend[c]))]
  /\ \/ /\ line[c] = Len(Lines(c))
        /\ page' = [page EXCEPT ![c] = "gone"] /\ toClient' = [toClient EXCEPT ![c] = << >>]
        /\ toSend' = [toSend EXCEPT ![c] = << >>] /\ UNCHANGED line
     \/ /\ line[c] < Len(Lines(c)) /\ Lines(c)[line[c]] # <<"RELOAD">>
        /\ page' = [page EXCEPT ![c] = "recv"]
        /\ toSend' = [toSend EXCEPT ![c] = << >>] /\ UNCHANGED <<line, toClient>>
     \/ /\ line[c] < Len(Lines(c)) /\ Lines(c)[line[c]] = <<"RELOAD">>
        /\ line' = [line EXCEPT ![c] = @ + 1]
        /\ toSend' = [toSend EXCEPT ![c] = NewLine(c, line[c] + 1)]
        /\ UNCHANGED <<page, toClient>>
  /\ UNCHANGED <<serverOnly, owner, backlog, histVars>>

\* get_next_line(): rows until the last one, then the next method or the destructor.
Recv(c) ==
  /\ page[c] = "recv" /\ toClient[c] # << >>
  /\ toClient' = [toClient EXCEPT ![c] = Tail(@)]
  /\ got' = [got EXCEPT ![c] = Append(@, Head(toClient[c]))]
  /\ IF Head(toClient[c]).row = 0 /\ Head(toClient[c]).end
     THEN /\ page' = [page EXCEPT ![c] = "send"]
          /\ line' = [line EXCEPT ![c] = @ + 1]
          /\ toSend' = [toSend EXCEPT ![c] = NewLine(c, line[c] + 1)]
     ELSE UNCHANGED pageVars
  /\ UNCHANGED <<serverOnly, owner, backlog, toServer, clean, done, owed>>

\* The server has closed the connection: the method fails, the page ends.  Or the
\* client is aborted, whatever it was doing.
Leave(c) ==
  /\ page[c] \in {"send", "recv"}
  /\ c \in Aborted \/ (~Connected(c) /\ toClient[c] = << >>)
  /\ page' = [page EXCEPT ![c] = "gone"]
  /\ toClient' = [toClient EXCEPT ![c] = << >>] /\ toSend' = [toSend EXCEPT ![c] = << >>]
  /\ UNCHANGED <<serverOnly, owner, backlog, toServer, line, histVars>>

-----------------------------------------------------------------------------
(* Another thread. *)

elsewhere == <<mainVars, worker, kill, conns, workerOnly, kernelVars, pageVars, histVars>>

OtherOpens ==
  /\ other = None
  /\ \E fd \in Free : Lowest(fd, Free) /\ other' = fd /\ owner' = [owner EXCEPT ![fd] = "other"]
  /\ UNCHANGED <<elsewhere, stolen>>

Worker ==
  \/ AcceptNewConnection \/ AcceptNothing \/ PassEnds \/ ResumeWrite
  \/ ReadInput \/ ReadEof \/ ExecuteCmd \/ CmdClose \/ LinesEnd \/ LineTooLong
  \/ Write \/ WriteFails \/ WriteElsewhere
Main == CreateSocket \/ CreateFails \/ PipeFails \/ StopWorker \/ Shutdown
Client(c) == Connect(c) \/ SendPart(c) \/ SendLast(c) \/ Recv(c) \/ Leave(c)

Next == ~stolen /\ (Worker \/ Main \/ (\E c \in Clients : Client(c)) \/ OtherOpens)
Spec == Init /\ [][Next]_vars

\* The worker and the main thread run; pages read their answers, go on, and notice
\* that the server has closed the connection.
Fairness ==
  /\ WF_vars(~stolen /\ Worker)
  /\ WF_vars(~stolen /\ Shutdown)
  /\ \A c \in Clients :
       /\ WF_vars(~stolen /\ (SendPart(c) \/ SendLast(c) \/ Recv(c)))
       /\ WF_vars(~stolen /\ ~Connected(c) /\ toClient[c] = << >> /\ Leave(c))
FairSpec == Spec /\ Fairness

-----------------------------------------------------------------------------
(* Properties *)

\* The type invariant: also, the place in the lines is inside of the buffer.
TypeOK ==
  /\ owner \in [Fds -> {"free", "listen", "pipe", "other"} \cup Clients]
  /\ other \in Fds \cup {None} /\ sockfd \in Fds \cup {None} /\ killfds \subseteq Fds
  /\ main \in {"down", "up", "join"} /\ inits \in 0..MaxInits
  /\ worker \in {"off", "select", "conns", "lines", "write", "done"}
  /\ kill \in BOOLEAN /\ stolen \in BOOLEAN
  /\ conns \subseteq Fds /\ readSet \subseteq Fds /\ writeSet \subseteq Fds
  /\ cur \in Fds \cup {None} /\ serving \in Clients \cup {"free"}
  /\ pos \in Nat /\ (worker = "lines" => pos <= Len(readBuf[cur]))
  /\ reply \in Seq(Seq(Pieces))
  /\ readBuf \in [Fds -> Seq(Tokens)] /\ writeBuf \in [Fds -> Seq(Pieces)]
  /\ backlog \subseteq Clients
  /\ toServer \in [Clients -> Seq(Tokens)] /\ toClient \in [Clients -> Seq(Pieces)]
  /\ page \in [Clients -> {"new", "send", "recv", "gone"}]
  /\ \A c \in Clients : line[c] \in 1..Len(Lines(c))
  /\ toSend \in [Clients -> Seq(Tokens)]
  /\ clean \in [Clients -> BOOLEAN]
  /\ done \in [Clients -> Seq(Seq(Tokens))]
  /\ owed \in [Clients -> Seq(Pieces)] /\ got \in [Clients -> Seq(Pieces)]

\* conn_list holds exactly the open connections, and a client has one at most:
\* select() never sees a closed descriptor (with which it would fail for ever),
\* and no connection is left open without being served.
ConnsOwned ==
  /\ conns = {fd \in Fds : owner[fd] \in Clients}
  /\ \A fd, g \in conns : owner[fd] = owner[g] => fd = g

\* However its bytes arrive, the lines of a connection are executed once each, in
\* order and as they were sent, unless the descriptor had left something in
\* read_buffers before.
ExecutedInOrder ==
  \A c \in Clients : clean[c] => IsPrefix(done[c], Lines(c))

\* However little a write moves, what a client reads is what was answered to its
\* own lines, without a gap; what an open connection has not read yet is in the
\* kernel or in write_buffers; the rows of an answer follow one another, and the answers
\* the lines, each of which has been answered before the next one is executed.
FirstPiece(c, i) == Answer(i, done[c][i])[1][1]
NextPiece(c, p) ==
  IF ~p.end THEN Row(p.of, p.row)[2]
  ELSE IF p.row = 0 THEN FirstPiece(c, p.of + 1)
  ELSE [p EXCEPT !.row = IF p.row < Rows(done[c][p.of]) THEN p.row + 1 ELSE 0, !.end = FALSE]
Answering(c) == worker = "write" /\ serving = c
LastPiece(c) == [of |-> Len(done[c]), row |-> 0, end |-> TRUE]
AnswersInOrder ==
  \A c \in Clients :
    /\ IsPrefix(got[c] \o toClient[c], owed[c])
    /\ ~Gone(c) => \A fd \in Connection(c) : got[c] \o toClient[c] \o writeBuf[fd] = owed[c]
    /\ \A i \in 1..Len(owed[c]) :
         /\ owed[c][i].of \in 1..Len(done[c])
         /\ owed[c][i] = IF i = 1 THEN FirstPiece(c, 1) ELSE NextPiece(c, owed[c][i - 1])
    /\ Accepted(c) /\ ~Answering(c) =>
         IF done[c] = << >> THEN owed[c] = << >>
         ELSE owed[c] # << >> /\ Last(owed[c]) = LastPiece(c)

\* A descriptor of another thread is hit only in two places: by the lines that
\* follow the end of their connection in one read, and by shutdown() after pipe()
\* has failed.
OthersSpared ==
  [][stolen' /\ ~stolen =>
       \/ worker \in {"lines", "write"} /\ cur \notin conns
       \/ main = "join" /\ sockfd # None /\ owner[sockfd] = "other" /\ killfds = {}]_vars

\* A client that waits for an answer on an accepted connection gets one, or learns
\* that the connection is closed, even while others do not read theirs.
Answered ==
  \A c \in Clients : (page[c] = "recv" /\ Accepted(c)) ~> (page[c] # "recv" \/ stolen)

\* shutdown() returns, whatever the worker is doing.
ShutdownEnds == (main = "join") ~> (main = "down" \/ stolen)
=============================================================================
