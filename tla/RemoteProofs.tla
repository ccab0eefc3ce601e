----------------------------- MODULE RemoteProofs -----------------------------
(***************************************************************************)
(* Theorems about the control socket, for every number of clients and      *)
(* descriptors, length of lines and capacity of the kernel.                *)
(*                                                                         *)
(* conn_list is exactly the open connections, and a descriptor of another  *)
(* thread is hit in two places only.  Both follow from who may hold a      *)
(* descriptor: what a pass still has to serve is connected, what it has    *)
(* closed in the middle of its lines is free or has gone to somebody       *)
(* outside of this component, since only the worker accepts connections    *)
(* and the main thread opens its socket only while there is no worker.     *)
(*                                                                         *)
(* The lines of a connection are executed as they were sent, and what is   *)
(* read by its client are the answers to them: the second part, from       *)
(* "Lines in a stream of tokens" on.                                       *)
(***************************************************************************)
EXTENDS Remote, SequenceLemmas

\* The types of what the descriptors and their users are.
TypesOK ==
  /\ owner \in [Fds -> {"free", "listen", "pipe", "other"} \cup Clients]
  /\ page \in [Clients -> {"new", "send", "recv", "gone"}]
  /\ sockfd \in Fds \cup {None} /\ killfds \subseteq Fds
  /\ conns \subseteq Fds /\ backlog \subseteq Clients

\* A client connects once: it has nothing before, and waits or is accepted after.
OnePlace ==
  \A c \in Clients :
    /\ page[c] = "new" => c \notin backlog
    /\ page[c] = "new" \/ c \in backlog => Connection(c) = {}

\* In a pass, only connections are still to be served,
ServesConns == worker \in {"conns", "lines", "write"} => readSet \cup writeSet \subseteq conns

\* and the one that is served is not among them; its descriptor may have been closed,
\* but has not become one of the socket or of the pipe.
ServesCur ==
  worker \in {"lines", "write"} =>
    /\ cur \in Fds /\ cur \notin readSet \cup writeSet
    /\ owner[cur] \in {"free", "other"} \cup Clients

\* The main thread holds the socket and the pipe as long as it has noted the pipe,
HoldsSocket ==
  killfds # {} =>
    /\ sockfd # None /\ owner[sockfd] = "listen"
    /\ \A fd \in killfds : owner[fd] = "pipe"

\* and has neither them nor a worker while there is no instance.
DownIsEmpty == main = "down" => worker = "off" /\ sockfd = None /\ killfds = {}

IInv ==
  TypesOK /\ ConnsOwned /\ OnePlace /\ ServesConns /\ ServesCur /\ HoldsSocket /\ DownIsEmpty

-----------------------------------------------------------------------------
\* What is not a connection is not taken for one.
LEMMA Roles == "free" \notin Clients /\ "listen" \notin Clients /\ "pipe" \notin Clients
               /\ "other" \notin Clients
  BY RemoteAssumption

LEMMA InitIInv == Init => IInv
  <1> SUFFICES ASSUME Init PROVE IInv
    OBVIOUS
  <1> USE DEF Init
  <1>1. TypesOK
    BY DEF TypesOK
  <1>2. ConnsOwned
    BY Roles DEF ConnsOwned
  <1>3. OnePlace
    BY Roles DEF OnePlace, Connection
  <1>4. ServesConns /\ ServesCur /\ HoldsSocket /\ DownIsEmpty
    BY DEF ServesConns, ServesCur, HoldsSocket, DownIsEmpty
  <1> QED  BY <1>1, <1>2, <1>3, <1>4 DEF IInv

\* What an action of the worker or of a client leaves alone if it opens and closes nothing.
NothingOpened == UNCHANGED <<owner, conns, backlog, mainVars>>

\* A page goes on, never back to where it has no connection.
PagesGoOn ==
  /\ page' \in [Clients -> {"new", "send", "recv", "gone"}]
  /\ \A c \in Clients : page'[c] = "new" => page[c] = "new"

\* The steps that open and close nothing disturb only what is being served.
LEMMA QuietKeeps ==
  ASSUME IInv, NothingOpened, PagesGoOn, ServesConns', ServesCur',
         worker = "off" => worker' = "off"
  PROVE  IInv'
  <1> USE DEF IInv, NothingOpened, mainVars
  <1>1. TypesOK'
    BY DEF TypesOK, PagesGoOn
  <1>2. ConnsOwned'
    BY DEF ConnsOwned
  <1>3. OnePlace'
    BY DEF OnePlace, Connection, PagesGoOn
  <1>4. HoldsSocket'
    BY DEF HoldsSocket
  <1>5. DownIsEmpty'
    BY DEF DownIsEmpty
  <1> QED  BY <1>1, <1>2, <1>3, <1>4, <1>5

\* The worker closes a descriptor, which is no longer served, and is that of a connection
\* or has been.
LEMMA CloseKeeps ==
  ASSUME IInv, NEW fd \in Fds, owner[fd] \in {"free", "other"} \cup Clients,
         CloseFds({fd}), conns' = Forget(fd),
         UNCHANGED <<mainVars, backlog, page>>,
         worker \in {"conns", "lines", "write"}, worker' \in {"conns", "lines", "write"},
         readSet' \subseteq readSet \ {fd}, writeSet' \subseteq writeSet \ {fd},
         worker' # "conns" => cur' = cur /\ worker # "conns"
  PROVE  IInv'
  <1> USE DEF IInv, mainVars
  <1>1. \A g \in Fds : owner'[g] = IF g = fd THEN "free" ELSE owner[g]
    BY DEF CloseFds
  <1>2. TypesOK'
    <2>1. owner' \in [Fds -> {"free", "listen", "pipe", "other"} \cup Clients]
      BY DEF CloseFds, TypesOK
    <2> QED  BY <2>1 DEF TypesOK, Forget
  <1>3. ConnsOwned'
    <2>1. conns' = {g \in Fds : owner'[g] \in Clients}
      BY <1>1, Roles DEF ConnsOwned, Forget
    <2>2. \A g, h \in conns' : owner'[g] = owner'[h] => g = h
      BY <1>1 DEF ConnsOwned, Forget
    <2> QED  BY <2>1, <2>2 DEF ConnsOwned
  <1>4. OnePlace'
    <2>1. \A c \in Clients : Connection(c)' \subseteq Connection(c)
      BY <1>1, Roles DEF Connection
    <2> QED  BY <2>1 DEF OnePlace
  <1>5. ServesConns'
    BY DEF ServesConns, Forget
  <1>6. ServesCur'
    BY <1>1 DEF ServesCur
  <1>7. HoldsSocket'
    BY <1>1, Roles DEF HoldsSocket, TypesOK
  <1>8. DownIsEmpty'
    BY DEF DownIsEmpty
  <1> QED  BY <1>2, <1>3, <1>4, <1>5, <1>6, <1>7, <1>8

\* Whoever hits a descriptor with close(2), nobody but its owner sees it changed.
LEMMA Stolen ==
  ASSUME NEW fds, CloseFds(fds), stolen' /\ ~stolen
  PROVE  \E fd \in fds : owner[fd] = "other"
  BY DEF CloseFds

-----------------------------------------------------------------------------
(* The main thread. *)

LEMMA CreateSocketKeeps == IInv /\ CreateSocket => IInv'
  <1> SUFFICES ASSUME IInv, CreateSocket PROVE IInv'
    OBVIOUS
  <1> USE DEF IInv
  <1>1. PICK s \in Free, k \in Free, m \in Free :
          /\ Lowest(s, Free) /\ Lowest(k, Free \ {s}) /\ Lowest(m, Free \ {s, k})
          /\ sockfd' = s /\ killfds' = {k, m}
          /\ owner' = [owner EXCEPT ![s] = "listen", ![k] = "pipe", ![m] = "pipe"]
    BY DEF CreateSocket
  <1>2. s # k /\ s # m /\ k # m /\ {s, k, m} \subseteq Fds /\ None \notin Fds
        /\ owner[s] = "free" /\ owner[k] = "free" /\ owner[m] = "free"
    BY <1>1, RemoteAssumption DEF Lowest, Free, None
  <1>3. /\ owner'[s] = "listen" /\ owner'[k] = "pipe" /\ owner'[m] = "pipe"
        /\ \A fd \in Fds \ {s, k, m} : owner'[fd] = owner[fd]
    BY <1>1, <1>2 DEF TypesOK
  <1>4. main' = "up" /\ worker' \in {"select", "off"} /\ UNCHANGED <<conns, backlog, page>>
    BY DEF CreateSocket, clientOnly, pageVars
  <1>5. TypesOK'
    <2>1. owner' \in [Fds -> {"free", "listen", "pipe", "other"} \cup Clients]
      BY <1>1 DEF TypesOK
    <2> QED  BY <1>1, <1>2, <1>4, <2>1 DEF TypesOK
  <1>6. \A c \in Clients : Connection(c)' = Connection(c)
    BY <1>2, <1>3, Roles DEF Connection
  <1>7. ConnsOwned'
    <2>1. conns \cap {s, k, m} = {}
      BY <1>2, Roles DEF ConnsOwned
    <2>2. conns' = {fd \in Fds : owner'[fd] \in Clients}
      BY <1>2, <1>3, <1>4, <2>1, Roles DEF ConnsOwned
    <2>3. \A fd, g \in conns' : owner'[fd] = owner'[g] => fd = g
      BY <1>3, <1>4, <2>1 DEF ConnsOwned
    <2> QED  BY <2>2, <2>3 DEF ConnsOwned
  <1>8. OnePlace'
    BY <1>4, <1>6 DEF OnePlace
  <1>9. ServesConns' /\ ServesCur' /\ DownIsEmpty'
    BY <1>4 DEF ServesConns, ServesCur, DownIsEmpty
  <1>10. HoldsSocket'
    BY <1>1, <1>2, <1>3 DEF HoldsSocket
  <1> QED  BY <1>5, <1>7, <1>8, <1>9, <1>10

\* The socket could not be made, or its pipe; there is no worker.
LEMMA InitFailsKeeps == IInv /\ (CreateFails \/ PipeFails) => IInv'
  <1> SUFFICES ASSUME IInv, CreateFails \/ PipeFails PROVE IInv'
    OBVIOUS
  <1> USE DEF IInv
  <1>1. /\ main = "down" /\ main' = "up" /\ sockfd' \in Fds \cup {None}
        /\ UNCHANGED <<owner, killfds, worker, conns, backlog, page>>
    BY DEF CreateFails, PipeFails, Free, TypesOK, clientOnly, pageVars
  <1>2. worker = "off" /\ killfds = {}
    BY <1>1 DEF DownIsEmpty
  <1>3. TypesOK'
    BY <1>1 DEF TypesOK
  <1>4. ConnsOwned'
    BY <1>1 DEF ConnsOwned
  <1>5. OnePlace'
    BY <1>1 DEF OnePlace, Connection
  <1>6. ServesConns' /\ ServesCur' /\ HoldsSocket' /\ DownIsEmpty'
    BY <1>1, <1>2 DEF ServesConns, ServesCur, HoldsSocket, DownIsEmpty
  <1> QED  BY <1>3, <1>4, <1>5, <1>6

LEMMA StopWorkerKeeps == IInv /\ StopWorker => IInv'
  <1> SUFFICES ASSUME IInv, StopWorker PROVE IInv'
    OBVIOUS
  <1> USE DEF IInv
  <1>1. /\ main' = "join"
        /\ UNCHANGED <<owner, sockfd, killfds, worker, conns, backlog, page, readSet, writeSet, cur>>
    BY DEF StopWorker, clientOnly, pageVars, workerOnly, passVars, serveVars
  <1>2. TypesOK'
    BY <1>1 DEF TypesOK
  <1>3. ConnsOwned'
    BY <1>1 DEF ConnsOwned
  <1>4. OnePlace'
    BY <1>1 DEF OnePlace, Connection
  <1>5. ServesConns' /\ ServesCur'
    BY <1>1 DEF ServesConns, ServesCur
  <1>6. HoldsSocket' /\ DownIsEmpty'
    BY <1>1 DEF HoldsSocket, DownIsEmpty
  <1> QED  BY <1>2, <1>3, <1>4, <1>5, <1>6

LEMMA ShutdownKeeps == IInv /\ Shutdown => IInv'
  <1> SUFFICES ASSUME IInv, Shutdown PROVE IInv'
    OBVIOUS
  <1> USE DEF IInv
  <1>1. /\ CloseFds(conns \cup killfds \cup ({sockfd} \ {None}))
        /\ conns' = {} /\ killfds' = {} /\ sockfd' = None /\ backlog' = {}
        /\ worker' = "off" /\ main' = "down" /\ UNCHANGED page
    BY DEF Shutdown, clientOnly, pageVars
  <1>2. TypesOK'
    <2>1. owner' \in [Fds -> {"free", "listen", "pipe", "other"} \cup Clients]
      BY <1>1 DEF CloseFds, TypesOK
    <2> QED  BY <1>1, <2>1 DEF TypesOK
  <1>3. \A fd \in Fds : owner'[fd] \notin Clients
    BY <1>1, Roles DEF CloseFds, ConnsOwned, TypesOK
  <1>4. ConnsOwned'
    BY <1>1, <1>3 DEF ConnsOwned
  <1>5. OnePlace'
    BY <1>1, <1>3 DEF OnePlace, Connection
  <1>6. ServesConns' /\ ServesCur' /\ HoldsSocket' /\ DownIsEmpty'
    BY <1>1 DEF ServesConns, ServesCur, HoldsSocket, DownIsEmpty
  <1> QED  BY <1>2, <1>4, <1>5, <1>6

-----------------------------------------------------------------------------
(* The worker. *)

LEMMA SelectServes ==
  ASSUME IInv, Select
  PROVE  /\ worker = "select" /\ worker' = "conns"
         /\ readSet' \cup writeSet' \subseteq conns
         /\ UNCHANGED <<mainVars, page>>
  BY DEF Select, pageVars

LEMMA AcceptNewConnectionKeeps == IInv /\ AcceptNewConnection => IInv'
  <1> SUFFICES ASSUME IInv, AcceptNewConnection PROVE IInv'
    OBVIOUS
  <1> USE DEF IInv
  <1>1. PICK fd \in Free, c \in backlog :
          /\ owner' = [owner EXCEPT ![fd] = c]
          /\ conns' = conns \cup {fd} /\ backlog' = backlog \ {c}
    BY DEF AcceptNewConnection
  <1>2. /\ worker = "select" /\ worker' = "conns"
        /\ readSet' \cup writeSet' \subseteq conns /\ UNCHANGED <<mainVars, page>>
    BY SelectServes DEF AcceptNewConnection
  <1>3. fd \in Fds /\ owner[fd] = "free" /\ c \in Clients
    BY DEF Free, TypesOK
  <1>4. /\ owner'[fd] = c
        /\ \A g \in Fds \ {fd} : owner'[g] = owner[g]
    BY <1>1, <1>3 DEF TypesOK
  <1>5. Connection(c) = {} /\ page[c] # "new"
    BY <1>3 DEF OnePlace
  <1>6. TypesOK'
    <2>1. owner' \in [Fds -> {"free", "listen", "pipe", "other"} \cup Clients]
      BY <1>1, <1>3 DEF TypesOK
    <2> QED  BY <1>1, <1>2, <1>3, <2>1 DEF TypesOK, mainVars
  <1>7. ConnsOwned'
    BY <1>1, <1>3, <1>4, <1>5 DEF ConnsOwned, Connection
  <1>8. OnePlace'
    <2>1. \A b \in Clients \ {c} : Connection(b)' = Connection(b)
      BY <1>3, <1>4, Roles DEF Connection
    <2> QED  BY <1>1, <1>2, <1>5, <2>1 DEF OnePlace
  <1>9. ServesConns' /\ ServesCur'
    BY <1>1, <1>2 DEF ServesConns, ServesCur
  <1>10. HoldsSocket'
    BY <1>2, <1>3, <1>4, Roles DEF HoldsSocket, TypesOK, mainVars
  <1>11. DownIsEmpty'
    BY <1>2 DEF DownIsEmpty, mainVars
  <1> QED  BY <1>6, <1>7, <1>8, <1>9, <1>10, <1>11

\* A pass begins, ends, or goes on with a descriptor that it takes from the sets.
LEMMA PassKeeps ==
  ASSUME IInv, AcceptNothing \/ PassEnds \/ ResumeWrite \/ ReadInput
  PROVE  IInv'
  <1> USE DEF IInv
  <1>1. CASE AcceptNothing
    <2>1. NothingOpened /\ PagesGoOn /\ worker = "select" /\ worker' = "conns"
          /\ readSet' \cup writeSet' \subseteq conns
      BY <1>1, SelectServes DEF AcceptNothing, NothingOpened, PagesGoOn, TypesOK
    <2>2. ServesConns' /\ ServesCur'
      BY <2>1 DEF NothingOpened, ServesConns, ServesCur
    <2> QED  BY <2>1, <2>2, QuietKeeps
  <1>2. CASE PassEnds
    <2>1. NothingOpened /\ PagesGoOn /\ worker = "conns" /\ worker' \in {"select", "done"}
      BY <1>2 DEF PassEnds, NothingOpened, PagesGoOn, TypesOK, kernelVars, pageVars
    <2>2. ServesConns' /\ ServesCur'
      BY <2>1 DEF ServesConns, ServesCur
    <2> QED  BY <2>1, <2>2, QuietKeeps
  <1>3. CASE ResumeWrite \/ ReadInput
    <2>1. NothingOpened /\ PagesGoOn /\ worker = "conns" /\ worker' \in {"lines", "write"}
      BY <1>3 DEF ResumeWrite, ReadInput, NothingOpened, PagesGoOn, TypesOK, kernelVars, pageVars
    <2>2. PICK fd \in readSet \cup writeSet :
            /\ cur' = fd /\ readSet' \subseteq readSet /\ writeSet' \subseteq writeSet
            /\ fd \notin readSet' \cup writeSet'
      BY <1>3 DEF ResumeWrite, ReadInput
    <2>3. fd \in conns
      BY <2>1, <2>2 DEF ServesConns
    <2>4. ServesConns'
      BY <2>1, <2>2 DEF NothingOpened, ServesConns
    <2>5. ServesCur'
      BY <2>1, <2>2, <2>3 DEF NothingOpened, ServesCur, ConnsOwned
    <2> QED  BY <2>1, <2>4, <2>5, QuietKeeps
  <1> QED  BY <1>1, <1>2, <1>3

\* Lines are executed and answers written, on whatever descriptor: cur stays what it is.
LEMMA ServeKeeps ==
  ASSUME IInv, ExecuteCmd \/ LinesEnd \/ Write \/ WriteElsewhere
  PROVE  IInv'
  <1> USE DEF IInv
  <1>1. NothingOpened /\ PagesGoOn
    BY DEF ExecuteCmd, LinesEnd, Write, WriteElsewhere, writeOnly, NothingOpened, PagesGoOn,
           TypesOK, kernelVars, pageVars
  <1>2. /\ worker \in {"lines", "write"} /\ UNCHANGED <<readSet, writeSet>>
        /\ worker' \in {"conns", "lines", "write"} /\ (worker' # "conns" => cur' = cur)
    BY DEF ExecuteCmd, LinesEnd, Write, WriteElsewhere, WriteData, Written, writeOnly, passVars,
           serveVars
  <1>3. ServesConns'
    BY <1>1, <1>2 DEF NothingOpened, ServesConns
  <1>4. ServesCur'
    BY <1>1, <1>2 DEF NothingOpened, ServesCur
  <1> QED  BY <1>1, <1>2, <1>3, <1>4, QuietKeeps

LEMMA WorkerClosesKeeps ==
  ASSUME IInv, ReadEof \/ CmdClose \/ LineTooLong \/ WriteFails
  PROVE  IInv'
  <1> USE DEF IInv
  <1>1. CASE ReadEof
    <2>1. PICK fd \in readSet \ writeSet : (CloseConn(fd) \/ StaysOpen) /\ readSet' = readSet \ {fd}
      BY <1>1 DEF ReadEof
    <2>2. worker = "conns" /\ UNCHANGED <<mainVars, backlog, page, worker, writeSet>>
      BY <1>1 DEF ReadEof, kernelVars, pageVars
    <2>3. CASE CloseConn(fd)
      <3>1. CloseFds({fd}) /\ conns' = Forget(fd)
        BY <2>3 DEF CloseConn
      <3>2. fd \in Fds /\ owner[fd] \in Clients
        BY <2>2 DEF ServesConns, ConnsOwned
      <3> QED  BY <2>1, <2>2, <3>1, <3>2, CloseKeeps
    <2>4. CASE StaysOpen
      <3>1. NothingOpened /\ PagesGoOn /\ readSet' \subseteq readSet
        BY <1>1, <2>2, <2>4 DEF ReadEof, StaysOpen, NothingOpened, PagesGoOn, TypesOK
      <3>2. ServesConns' /\ ServesCur'
        BY <2>2, <3>1 DEF NothingOpened, ServesConns, ServesCur
      <3> QED  BY <2>2, <3>1, <3>2, QuietKeeps
    <2> QED  BY <2>1, <2>3, <2>4
  <1>2. CASE CmdClose \/ LineTooLong \/ WriteFails
    <2>1. /\ CloseFds({cur}) /\ conns' = Forget(cur)
          /\ UNCHANGED <<mainVars, backlog, page, readSet, writeSet, cur>>
          /\ worker \in {"lines", "write"} /\ worker' \in {"conns", "lines", "write"}
      BY <1>2 DEF CmdClose, LineTooLong, WriteFails, CloseConn, WriteData, Written, writeOnly,
                  kernelVars, pageVars, passVars, serveVars
    <2>2. cur \in Fds /\ owner[cur] \in {"free", "other"} \cup Clients
          /\ cur \notin readSet \cup writeSet
      BY <2>1 DEF ServesCur
    <2> QED  BY <2>1, <2>2, CloseKeeps
  <1> QED  BY <1>1, <1>2

-----------------------------------------------------------------------------
(* Clients and the other thread. *)

LEMMA ClientKeeps ==
  ASSUME IInv, NEW c \in Clients, Client(c)
  PROVE  IInv'
  <1> USE DEF IInv
  <1>1. UNCHANGED <<owner, conns, mainVars, worker, readSet, writeSet, cur>>
    BY DEF Client, Connect, SendPart, SendLast, Recv, Leave, serverOnly, passVars, serveVars
  <1>2. ServesConns' /\ ServesCur'
    BY <1>1 DEF ServesConns, ServesCur
  <1>3. CASE Connect(c)
    <2>1. page[c] = "new" /\ page' = [page EXCEPT ![c] = "send"] /\ backlog' = backlog \cup {c}
      BY <1>3 DEF Connect
    <2>2. Connection(c) = {}
      BY <2>1 DEF OnePlace
    <2>3. TypesOK'
      BY <1>1, <2>1 DEF TypesOK, mainVars
    <2>4. ConnsOwned' /\ HoldsSocket' /\ DownIsEmpty'
      BY <1>1 DEF ConnsOwned, HoldsSocket, DownIsEmpty, mainVars
    <2>5. OnePlace'
      BY <1>1, <2>1, <2>2 DEF OnePlace, Connection, TypesOK
    <2> QED  BY <1>2, <2>3, <2>4, <2>5
  <1>4. CASE SendPart(c) \/ SendLast(c) \/ Recv(c) \/ Leave(c)
    <2>1. backlog' = backlog
      BY <1>4 DEF SendPart, SendLast, Recv, Leave
    <2>2. PagesGoOn
      BY <1>4 DEF SendPart, SendLast, Recv, Leave, PagesGoOn, TypesOK, pageVars
    <2> QED  BY <1>1, <1>2, <2>1, <2>2, QuietKeeps DEF NothingOpened
  <1> QED  BY <1>3, <1>4 DEF Client

LEMMA OtherOpensKeeps == IInv /\ OtherOpens => IInv'
  <1> SUFFICES ASSUME IInv, OtherOpens PROVE IInv'
    OBVIOUS
  <1> USE DEF IInv
  <1>1. PICK fd \in Free : owner' = [owner EXCEPT ![fd] = "other"]
    BY DEF OtherOpens
  <1>2. UNCHANGED <<mainVars, worker, conns, readSet, writeSet, cur, backlog, page>>
    BY DEF OtherOpens, elsewhere, workerOnly, passVars, serveVars, kernelVars, pageVars
  <1>3. fd \in Fds /\ owner[fd] = "free"
    BY DEF Free
  <1>4. owner'[fd] = "other" /\ \A g \in Fds \ {fd} : owner'[g] = owner[g]
    BY <1>1, <1>3 DEF TypesOK
  <1>5. TypesOK'
    <2>1. owner' \in [Fds -> {"free", "listen", "pipe", "other"} \cup Clients]
      BY <1>1 DEF TypesOK
    <2> QED  BY <1>2, <2>1 DEF TypesOK, mainVars
  <1>6. ConnsOwned'
    <2>1. fd \notin conns
      BY <1>3, Roles DEF ConnsOwned
    <2>2. conns' = {g \in Fds : owner'[g] \in Clients}
      BY <1>2, <1>3, <1>4, <2>1, Roles DEF ConnsOwned
    <2>3. \A g, h \in conns' : owner'[g] = owner'[h] => g = h
      BY <1>2, <1>4, <2>1 DEF ConnsOwned
    <2> QED  BY <2>2, <2>3 DEF ConnsOwned
  <1>7. OnePlace'
    <2>1. \A c \in Clients : Connection(c)' = Connection(c)
      BY <1>3, <1>4, Roles DEF Connection
    <2> QED  BY <1>2, <2>1 DEF OnePlace
  <1>8. ServesConns' /\ DownIsEmpty'
    BY <1>2 DEF ServesConns, DownIsEmpty, mainVars
  <1>9. ServesCur'
    BY <1>2, <1>4 DEF ServesCur
  <1>10. HoldsSocket'
    BY <1>2, <1>3, <1>4, Roles DEF HoldsSocket, TypesOK, mainVars
  <1> QED  BY <1>5, <1>6, <1>7, <1>8, <1>9, <1>10

LEMMA NextKeeps == IInv /\ [Next]_vars => IInv'
  <1> SUFFICES ASSUME IInv, [Next]_vars PROVE IInv'
    OBVIOUS
  <1>1. CASE UNCHANGED vars
    <2>1. UNCHANGED <<owner, page, sockfd, killfds, conns, backlog, worker, readSet, writeSet,
                      cur, main>>
      BY <1>1 DEF vars, mainVars, passVars, serveVars, kernelVars, pageVars
    <2>2. TypesOK' /\ ConnsOwned'
      BY <2>1 DEF IInv, TypesOK, ConnsOwned
    <2>3. OnePlace' /\ ServesConns' /\ ServesCur'
      BY <2>1 DEF IInv, OnePlace, Connection, ServesConns, ServesCur
    <2>4. HoldsSocket' /\ DownIsEmpty'
      BY <2>1 DEF IInv, HoldsSocket, DownIsEmpty
    <2> QED  BY <2>2, <2>3, <2>4 DEF IInv
  <1>2. CASE Main
    BY <1>2, CreateSocketKeeps, InitFailsKeeps, StopWorkerKeeps, ShutdownKeeps DEF Main
  <1>3. CASE Worker
    BY <1>3, AcceptNewConnectionKeeps, PassKeeps, ServeKeeps, WorkerClosesKeeps DEF Worker
  <1>4. CASE \E c \in Clients : Client(c)
    BY <1>4, ClientKeeps
  <1>5. CASE OtherOpens
    BY <1>5, OtherOpensKeeps
  <1> QED  BY <1>1, <1>2, <1>3, <1>4, <1>5 DEF Next

-----------------------------------------------------------------------------
\* Who may hold a descriptor, in every reachable state.
THEOREM Invariant == Spec => []IInv
  <1>1. Init => IInv
    BY InitIInv
  <1>2. IInv /\ [Next]_vars => IInv'
    BY NextKeeps
  <1> QED  BY <1>1, <1>2, PTL DEF Spec

\* conn_list is exactly the open connections, one for a client: close_conn(), process_input()
\* and shutdown() leave neither a closed descriptor for select() nor a connection unserved.
THEOREM ConnectionsOwned == Spec => []ConnsOwned
  <1>1. IInv => ConnsOwned
    BY DEF IInv
  <1> QED  BY <1>1, Invariant, PTL

\* A descriptor of another thread is closed or written by the worker only for lines that
\* follow the end of their connection, and by shutdown() only after pipe() has failed.
THEOREM OthersAreSpared == Spec => OthersSpared
  <1> DEFINE Excepted ==
        \/ worker \in {"lines", "write"} /\ cur \notin conns
        \/ main = "join" /\ sockfd # None /\ owner[sockfd] = "other" /\ killfds = {}
  <1>1. ASSUME IInv, Next, stolen' /\ ~stolen
        PROVE  Excepted
    <2> USE DEF IInv
    <2>1. CASE ReadEof
      <3>1. PICK fd \in readSet : CloseFds({fd})
        BY <1>1, <2>1 DEF ReadEof, CloseConn, StaysOpen
      <3>2. owner[fd] = "other"
        BY <1>1, <3>1, Stolen
      <3>3. owner[fd] \in Clients
        BY <1>1, <2>1, <3>1 DEF ReadEof, ServesConns, ConnsOwned
      <3> QED  BY <3>2, <3>3, Roles
    <2>2. CASE CmdClose \/ LineTooLong \/ WriteFails
      <3>1. CloseFds({cur}) /\ worker \in {"lines", "write"}
        BY <2>2 DEF CmdClose, LineTooLong, WriteFails, CloseConn
      <3>2. owner[cur] = "other"
        BY <1>1, <3>1, Stolen
      <3> QED  BY <1>1, <3>1, <3>2, Roles DEF ConnsOwned
    <2>3. CASE WriteElsewhere
      BY <1>1, <2>3, Roles DEF WriteElsewhere, ConnsOwned
    <2>4. CASE Shutdown
      <3>1. PICK fd \in conns \cup killfds \cup ({sockfd} \ {None}) : owner[fd] = "other"
        BY <1>1, <2>4, Stolen DEF Shutdown
      <3>2. fd \notin conns
        BY <1>1, <3>1, Roles DEF ConnsOwned
      <3>3. fd \notin killfds
        BY <1>1, <3>1 DEF HoldsSocket
      <3>4. fd = sockfd /\ sockfd # None
        BY <3>1, <3>2, <3>3
      <3>5. killfds = {}
        BY <1>1, <3>1, <3>4 DEF HoldsSocket
      <3> QED  BY <2>4, <3>1, <3>4, <3>5 DEF Shutdown
    <2>5. CASE CreateSocket \/ CreateFails \/ PipeFails \/ StopWorker
      BY <1>1, <2>5 DEF CreateSocket, CreateFails, PipeFails, StopWorker
    <2>6. CASE \/ AcceptNewConnection \/ AcceptNothing \/ PassEnds \/ ResumeWrite \/ ReadInput
               \/ ExecuteCmd \/ LinesEnd \/ Write
      BY <1>1, <2>6 DEF AcceptNewConnection, AcceptNothing, Select, PassEnds, ResumeWrite,
                        ReadInput, ExecuteCmd, LinesEnd, Write
    <2>7. CASE \E c \in Clients : Client(c)
      BY <1>1, <2>7 DEF Client, Connect, SendPart, SendLast, Recv, Leave, serverOnly
    <2>8. CASE OtherOpens
      BY <1>1, <2>8 DEF OtherOpens
    <2> QED  BY <1>1, <2>1, <2>2, <2>3, <2>4, <2>5, <2>6, <2>7, <2>8 DEF Next, Main, Worker
  <1>2. IInv /\ [Next]_vars => [stolen' /\ ~stolen => Excepted]_vars
    BY <1>1
  <1>3. OthersSpared <=> [][stolen' /\ ~stolen => Excepted]_vars
    BY DEF OthersSpared
  <1> QED  BY <1>2, <1>3, Invariant, PTL DEF Spec

-----------------------------------------------------------------------------
(* Lines in a stream of tokens. *)

\* w is spelled by the lines k + 1..m of c, the i-th of which ends at b[i].
Spells(c, w, k, m) ==
  \E b \in [k..m -> 0..Len(w)] :
    /\ b[k] = 0 /\ b[m] = Len(w)
    /\ \A i, j \in k..m : i <= j => b[i] <= b[j]
    /\ \A i \in (k + 1)..m : /\ b[i] = b[i - 1] + Len(Lines(c)[i]) + 1
                            /\ SubSeq(w, b[i - 1] + 1, b[i]) = NewLine(c, i)

\* A line of a client has no line end inside.
LEMMA LinesType ==
  ASSUME NEW c \in Clients
  PROVE  /\ Lines(c) \in Seq(Seq(Tokens \ {NL}))
         /\ Len(Lines(c)) > 0
         /\ \A i \in 1..Len(Lines(c)) : /\ Lines(c)[i] \in Seq(Tokens \ {NL})
                                       /\ NewLine(c, i) \in Seq(Tokens)
                                       /\ Len(NewLine(c, i)) = Len(Lines(c)[i]) + 1
  <1>1. Script[c] \in Seq(Seq(Tokens \ {NL})) /\ <<"CLOSE">> \in Seq(Tokens \ {NL})
    BY RemoteAssumption
  <1>2. Lines(c) \in Seq(Seq(Tokens \ {NL})) /\ Len(Lines(c)) > 0
    BY <1>1 DEF Lines
  <1>3. ASSUME NEW i \in 1..Len(Lines(c))
        PROVE  /\ Lines(c)[i] \in Seq(Tokens \ {NL})
               /\ NewLine(c, i) \in Seq(Tokens)
               /\ Len(NewLine(c, i)) = Len(Lines(c)[i]) + 1
    <2>1. Lines(c)[i] \in Seq(Tokens \ {NL})
      BY <1>2
    <2>2. Lines(c)[i] \in Seq(Tokens) /\ NL \in Tokens
      BY <2>1, SeqMonotonic, RemoteAssumption
    <2> QED  BY <2>1, <2>2 DEF NewLine
  <1> QED  BY <1>2, <1>3

LEMMA SpellsNone ==
  ASSUME NEW c, NEW k \in Nat
  PROVE  Spells(c, << >>, k, k)
  <1> DEFINE b == [i \in k..k |-> 0]
  <1>1. b \in [k..k -> 0..Len(<< >>)] /\ b[k] = 0 /\ Len(<< >>) = 0
    OBVIOUS
  <1>2. (k + 1)..k = {} /\ \A i \in k..k : b[i] = 0
    OBVIOUS
  <1> HIDE DEF b
  <1> QED  BY <1>1, <1>2 DEF Spells

LEMMA SpellsMore ==
  ASSUME NEW c \in Clients, NEW w \in Seq(Tokens), NEW k \in Nat, NEW m \in Nat,
         k <= m, m < Len(Lines(c)), Spells(c, w, k, m)
  PROVE  Spells(c, w \o NewLine(c, m + 1), k, m + 1)
  <1> DEFINE v == w \o NewLine(c, m + 1)
  <1>1. PICK b \in [k..m -> 0..Len(w)] :
          /\ b[k] = 0 /\ b[m] = Len(w)
          /\ \A i, j \in k..m : i <= j => b[i] <= b[j]
          /\ \A i \in (k + 1)..m : /\ b[i] = b[i - 1] + Len(Lines(c)[i]) + 1
                                  /\ SubSeq(w, b[i - 1] + 1, b[i]) = NewLine(c, i)
    BY DEF Spells
  <1>2. /\ m + 1 \in 1..Len(Lines(c)) /\ NewLine(c, m + 1) \in Seq(Tokens)
        /\ Len(NewLine(c, m + 1)) = Len(Lines(c)[m + 1]) + 1 /\ Len(Lines(c)[m + 1]) \in Nat
        /\ Len(Lines(c)) \in Nat
    BY LinesType
  <1>3. v \in Seq(Tokens) /\ Len(v) = Len(w) + Len(Lines(c)[m + 1]) + 1 /\ Len(w) \in Nat
    <2> DEFINE l == NewLine(c, m + 1)
    <2>1. l \in Seq(Tokens) /\ Len(l) = Len(Lines(c)[m + 1]) + 1
      BY <1>2
    <2> HIDE DEF l
    <2>2. w \o l \in Seq(Tokens) /\ Len(w \o l) = Len(w) + Len(l) /\ Len(w) \in Nat
      BY <2>1, ConcatProperties, LenProperties
    <2> QED  BY <2>1, <2>2 DEF l
  <1> DEFINE d == [i \in k..(m + 1) |-> IF i = m + 1 THEN Len(v) ELSE b[i]]
  <1> HIDE DEF v
  <1>4. d \in [k..(m + 1) -> 0..Len(v)] /\ d[k] = 0 /\ d[m + 1] = Len(v)
    BY <1>1, <1>2, <1>3
  <1>5. \A i, j \in k..(m + 1) : i <= j => d[i] <= d[j]
    BY SMTT(40), <1>1, <1>2, <1>3
  <1>6. ASSUME NEW i \in (k + 1)..(m + 1)
        PROVE  /\ d[i] = d[i - 1] + Len(Lines(c)[i]) + 1
               /\ SubSeq(v, d[i - 1] + 1, d[i]) = NewLine(c, i)
    <2>1. CASE i = m + 1
      <3>1. d[i] = Len(v) /\ d[i - 1] = Len(w)
        BY <2>1, <1>1
      <3>2. SubSeq(v, Len(w) + 1, Len(v)) = NewLine(c, i)
        BY <1>2, <1>3, <2>1 DEF v
      <3> QED  BY <3>1, <3>2, <1>2, <1>3, <2>1
    <2>2. CASE i # m + 1
      <3>1. i \in (k + 1)..m /\ i - 1 \in k..m /\ i \in k..m
        BY <2>2
      <3>2. d[i] = b[i] /\ d[i - 1] = b[i - 1]
        BY <3>1
      <3>3. b[i] \in 0..Len(w) /\ b[i - 1] \in 0..Len(w)
        BY <3>1, <1>1
      <3>4. SubSeq(v, b[i - 1] + 1, b[i]) = SubSeq(w, b[i - 1] + 1, b[i])
        <4> HIDE DEF d, v
        <4>1. i \in 1..Len(Lines(c))
          BY <3>1, <1>2
        <4>2. Len(Lines(c)[i]) \in Nat
          BY <4>1, LinesType
        <4>3. b[i] = b[i - 1] + Len(Lines(c)[i]) + 1
          BY <1>1, <3>1
        <4>4. ASSUME NEW p \in Nat, NEW q \in 0..Len(w), NEW n \in Nat, q = p + n + 1
              PROVE  p + 1 \in 1..Len(w) /\ q \in 1..Len(w)
          BY ONLY <4>4, <1>2, LenProperties
        <4>5. b[i - 1] \in Nat /\ b[i] \in 0..Len(w)
          BY ONLY <3>3, <1>2, LenProperties
        <4>6. b[i - 1] + 1 \in 1..Len(w) /\ b[i] \in 1..Len(w)
          BY ONLY <4>2, <4>3, <4>4, <4>5, Zenon
        <4> QED  BY <4>6, <1>2, SubSeqOfConcat1 DEF v
      <3> QED  BY <3>1, <3>2, <3>4, <1>1
    <2> QED  BY <2>1, <2>2
  <1>7. Spells(c, v, k, m + 1)
    BY <1>4, <1>5, <1>6 DEF Spells
  <1> QED  BY <1>7 DEF v

\* The first line end in what has arrived is that of the first of the lines.
LEMMA SpellsFirst ==
  ASSUME NEW c \in Clients, NEW y \in Seq(Tokens), NEW k \in Nat, NEW m \in Nat, NEW h \in Nat,
         h = k + 1, k <= m, m <= Len(Lines(c)), Spells(c, y, k, m),
         NEW e \in 1..Len(y), y[e] = NL, \A i \in 1..(e - 1) : y[i] # NL
  PROVE  /\ k < m /\ SubSeq(y, 1, e - 1) = Lines(c)[h]
         /\ Spells(c, SubSeq(y, e + 1, Len(y)), h, m)
  <1> DEFINE l == Lines(c)[h]
             z == SubSeq(y, e + 1, Len(y))
  <1>1. PICK b \in [k..m -> 0..Len(y)] :
          /\ b[k] = 0 /\ b[m] = Len(y)
          /\ \A i, j \in k..m : i <= j => b[i] <= b[j]
          /\ \A i \in (k + 1)..m : /\ b[i] = b[i - 1] + Len(Lines(c)[i]) + 1
                                  /\ SubSeq(y, b[i - 1] + 1, b[i]) = NewLine(c, i)
    BY DEF Spells
  <1>2. k < m
    BY <1>1
  <1>3. /\ Len(Lines(c)) \in Nat /\ Len(y) \in Nat /\ h \in 1..Len(Lines(c))
        /\ h \in (k + 1)..m /\ h \in k..m /\ h - 1 = k
    BY <1>2, LinesType
  <1>4. l \in Seq(Tokens \ {NL}) /\ Len(l) \in Nat /\ \A i \in 1..Len(l) : l[i] \in Tokens \ {NL}
    <2>1. l \in Seq(Tokens \ {NL})
      BY <1>3, LinesType
    <2> HIDE DEF l
    <2> QED  BY <2>1, LenProperties, ElementOfSeq
  <1> HIDE DEF l
  <1>5. b[h] = Len(l) + 1 /\ SubSeq(y, 1, Len(l) + 1) = Append(l, NL) /\ Len(l) + 1 <= Len(y)
    <2>1. b[h] = b[h - 1] + Len(l) + 1 /\ SubSeq(y, b[h - 1] + 1, b[h]) = NewLine(c, h)
      BY <1>1, <1>3 DEF l
    <2>2. b[h] = Len(l) + 1
      BY <1>1, <1>3, <1>4, <2>1
    <2>3. SubSeq(y, 1, Len(l) + 1) = Append(l, NL)
      <3>1. b[h - 1] + 1 = 1 /\ NewLine(c, h) = Append(l, NL)
        BY <1>1, <1>3 DEF NewLine, l
      <3> QED  BY <2>1, <2>2, <3>1
    <2>4. b[h] \in 0..Len(y)
      BY <1>1, <1>3
    <2> QED  BY <2>2, <2>3, <2>4, <1>3
  <1>6. y[Len(l) + 1] = NL /\ \A i \in 1..Len(l) : y[i] = l[i]
    <2> DEFINE n == Len(l) + 1
    <2>1. n \in 1..Len(y) /\ \A i \in 1..n : y[i] \in Tokens
      BY <1>3, <1>4, <1>5, ElementOfSeq
    <2>2. \A i \in 1..n : SubSeq(y, 1, n)[i] = y[i]
      BY <1>3, <1>4, <1>5
    <2>3. Append(l, NL)[Len(l) + 1] = NL /\ \A i \in 1..Len(l) : Append(l, NL)[i] = l[i]
      BY <1>4
    <2>4. \A i \in 1..n : Append(l, NL)[i] = y[i]
      BY <1>5, <2>2
    <2>5. n \in 1..n /\ \A i \in 1..Len(l) : i \in 1..n
      BY <1>4
    <2> QED  BY <1>4, <2>3, <2>4, <2>5
  <1>7. e = Len(l) + 1
    <2> DEFINE n == Len(l)
    <2>1. n \in Nat /\ n + 1 <= Len(y) /\ Len(y) \in Nat /\ e \in 1..Len(y)
      BY <1>3, <1>4, <1>5
    <2>2. \A i \in 1..n : y[i] # NL
      BY <1>4, <1>6
    <2>3. y[n + 1] = NL
      BY <1>6
    <2> HIDE DEF n
    <2>4. ~(e \in 1..n)
      BY <2>2
    <2>5. ~(n + 1 \in 1..(e - 1))
      BY <2>3
    <2>6. e = n + 1
      BY ONLY <2>1, <2>4, <2>5
    <2> QED  BY <2>6 DEF n
  <1>8. SubSeq(y, 1, e - 1) = l
    BY <1>3, <1>4, <1>6, <1>7
  <1>9. z \in Seq(Tokens) /\ Len(z) = Len(y) - e /\ \A i \in 1..(Len(y) - e) : z[i] = y[e + i]
    BY <1>3
  <1> HIDE DEF z
  <1> DEFINE d == [i \in h..m |-> b[i] - e]
  <1>10. \A i \in h..m : b[i] \in e..Len(y) /\ d[i] = b[i] - e
    <2> SUFFICES ASSUME NEW i \in h..m PROVE b[i] \in e..Len(y) /\ d[i] = b[i] - e
      OBVIOUS
    <2>1. i \in k..m /\ h <= i
      BY <1>3
    <2>2. b[i] \in 0..Len(y) /\ b[h] <= b[i]
      BY <1>1, <1>3, <2>1
    <2> QED  BY <1>3, <1>5, <1>7, <2>2
  <1>11. d \in [h..m -> 0..Len(z)] /\ d[h] = 0 /\ d[m] = Len(z)
    <2>1. h \in h..m /\ m \in h..m
      BY <1>2
    <2>2. \A i \in h..m : b[i] - e \in 0..Len(z)
      BY <1>3, <1>9, <1>10
    <2>3. d \in [h..m -> 0..Len(z)]
      BY <2>2
    <2>4. b[h] = e /\ b[m] = Len(y) /\ Len(z) = Len(y) - e /\ d[h] = b[h] - e /\ d[m] = b[m] - e
      BY <1>1, <1>5, <1>7, <1>9, <2>1
    <2> HIDE DEF d
    <2>5. d[h] = 0 /\ d[m] = Len(z)
      BY <1>3, <2>4
    <2> QED  BY <2>3, <2>5
  <1>12. \A i, j \in h..m : i <= j => d[i] <= d[j]
    <2> SUFFICES ASSUME NEW i \in h..m, NEW j \in h..m, i <= j PROVE d[i] <= d[j]
      OBVIOUS
    <2>1. b[i] <= b[j]
      BY <1>1
    <2> QED  BY <1>3, <1>10, <2>1
  <1>13. ASSUME NEW i \in (h + 1)..m
         PROVE  /\ d[i] = d[i - 1] + Len(Lines(c)[i]) + 1
                /\ SubSeq(z, d[i - 1] + 1, d[i]) = NewLine(c, i)
    <2>1. i \in (k + 1)..m /\ i \in h..m /\ i - 1 \in h..m
      OBVIOUS
    <2>2. /\ b[i] = b[i - 1] + Len(Lines(c)[i]) + 1
          /\ SubSeq(y, b[i - 1] + 1, b[i]) = NewLine(c, i)
      BY <1>1, <2>1
    <2>3. b[i] \in e..Len(y) /\ b[i - 1] \in e..Len(y) /\ d[i] = b[i] - e /\ d[i - 1] = b[i - 1] - e
      BY <1>10, <2>1
    <2>4. Len(Lines(c)[i]) \in Nat
      BY SMTT(40), <1>3, <2>1, LinesType
    <2> HIDE DEF d
    <2>5. d[i] = d[i - 1] + Len(Lines(c)[i]) + 1
      <3>1. PICK p \in Nat, q \in Nat, n \in Nat : p = b[i - 1] /\ q = b[i] /\ n = Len(Lines(c)[i])
        BY <1>3, <2>3, <2>4
      <3>2. q = p + n + 1 /\ d[i - 1] = p - e /\ d[i] = q - e
        BY <2>2, <2>3, <3>1
      <3>3. q - e = (p - e) + n + 1
        BY <3>2
      <3> QED  BY <3>1, <3>2, <3>3
    <2>6. SubSeq(z, d[i - 1] + 1, d[i]) = SubSeq(y, b[i - 1] + 1, b[i])
      <3>1. PICK p \in Nat, q \in Nat : p = b[i - 1] /\ q = b[i]
        BY <1>3, <2>3
      <3>2. p \in e..Len(y) /\ q \in e..Len(y) /\ d[i - 1] = p - e /\ d[i] = q - e
        BY <2>3, <3>1
      <3>3. SubSeq(z, (p - e) + 1, q - e) = SubSeq(y, p + 1, q)
        <4>1. y \in Seq(Tokens) /\ e \in 0..Len(y)
          BY <1>3
        <4>2. p \in e..Len(y) /\ q \in e..Len(y)
          BY <3>2
        <4>3. SubSeq(SubSeq(y, e + 1, Len(y)), (p - e) + 1, q - e) = SubSeq(y, p + 1, q)
          BY ONLY <4>1, <4>2, SubSeqOfSuffix
        <4> QED  BY <4>3 DEF z
      <3> QED  BY <3>1, <3>2, <3>3
    <2> QED  BY <2>2, <2>5, <2>6
  <1>14. Spells(c, z, h, m)
    <2> HIDE DEF d
    <2> QED  BY <1>11, <1>12, <1>13 DEF Spells
  <1> QED  BY <1>2, <1>8, <1>14 DEF l, z

\* The same, when only a part r of the stream has arrived.
LEMMA SpellsFirstArrived ==
  ASSUME NEW c \in Clients, NEW r \in Seq(Tokens), NEW s \in Seq(Tokens), NEW x \in Seq(Tokens),
         NEW k \in Nat, NEW m \in Nat, NEW h \in Nat, h = k + 1, k <= m, m <= Len(Lines(c)),
         Spells(c, Three(r, s, x), k, m),
         NEW e \in 1..Len(r), r[e] = NL, \A i \in 1..(e - 1) : r[i] # NL
  PROVE  /\ k < m /\ Before(r, e) = Lines(c)[h]
         /\ Spells(c, Three(After(r, e), s, x), h, m)
  <1> DEFINE y == Three(r, s, x)
             u == Three(After(r, e), s, x)
  <1>2. /\ y \in Seq(Tokens) /\ Len(r) <= Len(y) /\ \A i \in 1..Len(r) : y[i] = r[i]
        /\ Before(y, e) = Before(r, e) /\ After(y, e) = u
    BY PartsOfThree
  <1>6. Spells(c, y, k, m)
    OBVIOUS
  <1> HIDE DEF y, u
  <1>3. Len(y) \in Nat /\ Len(r) \in Nat
    BY <1>2, LenProperties
  <1>4. e \in 1..Len(y) /\ y[e] = NL
    BY <1>2, <1>3
  <1>5. \A i \in 1..(e - 1) : y[i] # NL
    <2>1. \A i \in 1..(e - 1) : i \in 1..Len(r)
      BY <1>3
    <2> QED  BY <1>2, <2>1
  <1>7. /\ k < m /\ SubSeq(y, 1, e - 1) = Lines(c)[h]
        /\ Spells(c, SubSeq(y, e + 1, Len(y)), h, m)
    BY <1>2, <1>4, <1>5, <1>6, SpellsFirst
  <1>8. Before(y, e) = Lines(c)[h] /\ Spells(c, After(y, e), h, m)
    BY <1>7 DEF Before, After
  <1> QED  BY <1>2, <1>7, <1>8 DEF u

-----------------------------------------------------------------------------
(* Types, and what the worker and the pages keep from one step to the next. *)

TypeControl ==
  /\ other \in Fds \cup {None} /\ main \in {"down", "up", "join"} /\ inits \in 0..MaxInits
  /\ worker \in {"off", "select", "conns", "lines", "write", "done"}
  /\ kill \in BOOLEAN /\ stolen \in BOOLEAN
  /\ readSet \subseteq Fds /\ writeSet \subseteq Fds
  /\ cur \in Fds \cup {None} /\ serving \in Clients \cup {"free"}
TypeBuffers ==
  /\ pos \in Nat /\ reply \in Seq(Seq(Pieces))
  /\ readBuf \in [Fds -> Seq(Tokens)] /\ writeBuf \in [Fds -> Seq(Pieces)]
TypePages ==
  /\ toServer \in [Clients -> Seq(Tokens)] /\ toClient \in [Clients -> Seq(Pieces)]
  /\ line \in [Clients -> Nat] /\ \A c \in Clients : line[c] \in 1..Len(Lines(c))
  /\ toSend \in [Clients -> Seq(Tokens)]
TypeHistory ==
  /\ clean \in [Clients -> BOOLEAN]
  /\ done \in [Clients -> Seq(Seq(Tokens))]
  /\ owed \in [Clients -> Seq(Pieces)] /\ got \in [Clients -> Seq(Pieces)]
Types == TypeControl /\ TypeBuffers /\ TypePages /\ TypeHistory

Serving(c) == worker \in {"lines", "write"} /\ serving = c

\* Lines are those of a client, and the place in them is inside of the buffer.
PlaceInLines ==
  /\ worker = "lines" => serving \in Clients
  /\ worker \in {"lines", "write"} /\ serving # "free" => pos <= Len(readBuf[cur])

\* Rows are left only while lines are answered,
ReplyInLines == worker # "write" \/ serving = "free" => reply = << >>

\* and something to write only for an open connection, or for the one at hand.
BuffersOfOpen ==
  \A fd \in Fds : fd \in conns \/ writeBuf[fd] = << >> \/ (worker = "write" /\ fd = cur)

\* The client whose lines are executed has connected, and once; a descriptor that it has
\* lost is not that of another client.
ServedOnce ==
  \A c \in Clients : Serving(c) =>
    /\ page[c] # "new" /\ c \notin backlog
    /\ owner[cur] = c \/ (owner[cur] \in {"free", "other"} /\ Connection(c) = {})

\* A page that waits for an answer has a line to go on with; nothing has come from one that
\* has not been accepted, and nothing waits for one that has gone.
PagesKeep ==
  \A c \in Clients :
    /\ page[c] = "recv" => line[c] < Len(Lines(c))
    /\ Gone(c) => toClient[c] = << >>
    /\ page[c] = "new" => toServer[c] = << >>
    /\ page[c] = "new" \/ c \in backlog =>
         ~clean[c] /\ done[c] = << >> /\ owed[c] = << >> /\ got[c] = << >> /\ toClient[c] = << >>

DInv == Types /\ PlaceInLines /\ ReplyInLines /\ BuffersOfOpen /\ ServedOnce /\ PagesKeep

LEMMA TypesAreOK == IInv /\ DInv => TypeOK
  <1> SUFFICES ASSUME IInv, DInv PROVE TypeOK
    OBVIOUS
  <1>1. worker = "lines" => pos <= Len(readBuf[cur])
    BY RemoteAssumption, Roles DEF DInv, PlaceInLines
  <1> QED  BY <1>1 DEF DInv, IInv, Types, TypesOK, TypeControl, TypeBuffers, TypePages, TypeHistory, TypeOK

LEMMA LineFunction == ASSUME NEW c \in Clients PROVE Len(Lines(c)) \in Nat \ {0}
  BY LinesType, LenProperties

LEMMA InitDInv == Init => DInv
  <1> SUFFICES ASSUME Init PROVE DInv
    OBVIOUS
  <1> USE DEF Init
  <1>1. TypeControl
    <2>1. MaxInits \in Nat
      BY RemoteAssumption
    <2>2. inits \in 0..MaxInits
      BY <2>1
    <2>3. kill \in BOOLEAN /\ stolen \in BOOLEAN
      OBVIOUS
    <2> QED  BY <2>2, <2>3 DEF TypeControl
  <1>2. TypeBuffers /\ TypeHistory
    BY DEF TypeBuffers, TypeHistory
  <1>3. TypePages
    BY LineFunction DEF TypePages
  <1>4. PlaceInLines /\ ReplyInLines /\ BuffersOfOpen /\ ServedOnce /\ PagesKeep
    BY DEF PlaceInLines, ReplyInLines, BuffersOfOpen, ServedOnce, PagesKeep, Serving, Gone
  <1> QED  BY <1>1, <1>2, <1>3, <1>4 DEF DInv, Types

LEMMA AnswerType ==
  ASSUME NEW i \in Nat, NEW l \in Seq(Tokens)
  PROVE  /\ Rows(l) \in Nat /\ Answer(i, l) \in Seq(Seq(Pieces))
         /\ Len(Answer(i, l)) = Rows(l) + 1 /\ Answer(i, l) # << >>
         /\ \A n \in 1..(Rows(l) + 1) : Answer(i, l)[n] = Row(i, IF n <= Rows(l) THEN n ELSE 0)
  <1>1. Rows(l) \in Nat
    <2>1. CommandOf(l) \in Commands \cup {NL}
      BY DEF CommandOf
    <2> QED  BY <2>1, RemoteAssumption DEF Rows
  <1>2. \A n \in Nat : Row(i, n) \in Seq(Pieces)
    <2> SUFFICES ASSUME NEW n \in Nat PROVE Row(i, n) \in Seq(Pieces)
      OBVIOUS
    <2>1. [of |-> i, row |-> n, end |-> FALSE] \in Pieces /\ [of |-> i, row |-> n, end |-> TRUE] \in Pieces
      BY DEF Pieces
    <2> QED  BY <2>1 DEF Row
  <1> DEFINE m == Rows(l) + 1
             R(n) == Row(i, IF n <= Rows(l) THEN n ELSE 0)
  <1>3. m \in Nat \ {0} /\ \A n \in 1..m : R(n) \in Seq(Pieces)
    <2>1. ASSUME NEW n \in 1..m PROVE R(n) \in Seq(Pieces)
      <3>1. CASE n <= Rows(l)
        BY <1>1, <1>2, <3>1
      <3>2. CASE ~(n <= Rows(l))
        BY <1>1, <1>2, <3>2
      <3> QED  BY <3>1, <3>2
    <2> QED  BY <1>1, <2>1
  <1>4. Answer(i, l) = [n \in 1..m |-> R(n)]
    BY DEF Answer
  <1> HIDE DEF m, R
  <1>5. [n \in 1..m |-> R(n)] \in Seq(Seq(Pieces)) /\ Len([n \in 1..m |-> R(n)]) = m
    BY <1>3
  <1>6. Answer(i, l) # << >>
    BY <1>3, <1>4, <1>5, EmptySeq
  <1> QED  BY <1>1, <1>3, <1>4, <1>5, <1>6 DEF m, R

-----------------------------------------------------------------------------
(* Steps that leave the data alone. *)

PageState == <<page, line, toSend, toServer, toClient, clean, done, owed, got>>
BufferState == <<pos, reply, readBuf, writeBuf>>

LEMMA PagesUnchanged ==
  ASSUME DInv, UNCHANGED PageState, backlog' \subseteq backlog
  PROVE  TypePages' /\ TypeHistory' /\ PagesKeep'
  <1> USE DEF DInv, Types, PageState
  <1>1. TypePages' /\ TypeHistory'
    BY DEF TypePages, TypeHistory
  <1>2. PagesKeep'
    BY DEF PagesKeep, Gone
  <1> QED  BY <1>1, <1>2

\* Outside of its lines the worker has nothing at hand.
LEMMA NotInLines ==
  ASSUME worker' \notin {"lines", "write"}, reply' = << >>,
         \A fd \in Fds : fd \in conns' \/ writeBuf'[fd] = << >>
  PROVE  PlaceInLines' /\ ReplyInLines' /\ BuffersOfOpen' /\ ServedOnce'
  BY DEF PlaceInLines, ReplyInLines, BuffersOfOpen, ServedOnce, Serving

LEMMA MainKeepsData ==
  ASSUME IInv, DInv, CreateSocket \/ CreateFails \/ PipeFails \/ StopWorker
  PROVE  DInv'
  <1> USE DEF DInv, Types
  <1>1. /\ UNCHANGED <<readSet, writeSet, cur, serving, PageState, BufferState, backlog, conns, other>>
        /\ main' \in {"up", "join"} /\ kill' \in BOOLEAN /\ stolen' = stolen
        /\ inits' \in 0..MaxInits
        /\ worker' \in {"off", "select", "conns", "lines", "write", "done"}
    <2>1. MaxInits \in Nat /\ inits \in 0..MaxInits
      BY RemoteAssumption DEF TypeControl
    <2>2. inits' \in 0..MaxInits
      BY <2>1 DEF CreateSocket, CreateFails, PipeFails, StopWorker
    <2>3. kill' \in BOOLEAN
      BY DEF CreateSocket, CreateFails, PipeFails, StopWorker, TypeControl
    <2> QED  BY <2>2, <2>3 DEF CreateSocket, CreateFails, PipeFails, StopWorker, workerOnly, clientOnly,
             passVars, serveVars, pageVars, histVars, PageState, BufferState, TypeControl
  <1>2. TypeControl'
    BY <1>1 DEF TypeControl
  <1>3. TypeBuffers'
    BY <1>1 DEF TypeBuffers, BufferState
  <1>4. TypePages' /\ TypeHistory' /\ PagesKeep'
    BY <1>1, PagesUnchanged
  <1>5. PlaceInLines' /\ ReplyInLines' /\ BuffersOfOpen' /\ ServedOnce'
    <2>1. CASE StopWorker
      <3>1. UNCHANGED <<worker, owner>>
        BY <2>1 DEF StopWorker
      <3> QED  BY <1>1, <3>1 DEF PlaceInLines, ReplyInLines, BuffersOfOpen, ServedOnce, Serving,
                                 Connection, PageState, BufferState
    <2>2. CASE CreateSocket \/ CreateFails \/ PipeFails
      <3>1. worker = "off" /\ worker' \in {"off", "select"}
        BY <2>2 DEF CreateSocket, CreateFails, PipeFails, IInv, DownIsEmpty
      <3>2. reply' = << >> /\ \A fd \in Fds : fd \in conns' \/ writeBuf'[fd] = << >>
        BY <1>1, <3>1 DEF ReplyInLines, BuffersOfOpen, BufferState
      <3> QED  BY <3>1, <3>2, NotInLines
    <2> QED  BY <2>1, <2>2
  <1> QED  BY <1>2, <1>3, <1>4, <1>5

LEMMA ShutdownKeepsData ==
  ASSUME IInv, DInv, Shutdown
  PROVE  DInv'
  <1> USE DEF DInv, Types
  <1>1. /\ UNCHANGED <<readSet, writeSet, cur, serving, PageState, pos, reply, readBuf, other, kill, inits>>
        /\ main' = "down" /\ worker \in {"off", "done"} /\ worker' = "off" /\ backlog' = {}
        /\ writeBuf' = [fd \in Fds |-> IF fd \in conns THEN << >> ELSE writeBuf[fd]]
        /\ CloseFds(conns \cup killfds \cup ({sockfd} \ {None}))
    BY DEF Shutdown, clientOnly, passVars, serveVars, pageVars, histVars, PageState
  <1>2. TypeControl'
    <2>1. stolen' \in BOOLEAN
      BY <1>1 DEF CloseFds
    <2> QED  BY <1>1, <2>1 DEF TypeControl
  <1>3. TypeBuffers'
    BY <1>1 DEF TypeBuffers
  <1>4. TypePages' /\ TypeHistory' /\ PagesKeep'
    BY <1>1, PagesUnchanged
  <1>5. reply' = << >> /\ \A fd \in Fds : writeBuf'[fd] = << >>
    BY <1>1 DEF ReplyInLines, BuffersOfOpen
  <1> QED  BY <1>1, <1>2, <1>3, <1>4, <1>5, NotInLines

\* A pass begins or ends, or goes on with a descriptor from which nothing is read.
LEMMA PassKeepsData ==
  ASSUME IInv, DInv, AcceptNewConnection \/ AcceptNothing \/ PassEnds \/ ResumeWrite
  PROVE  DInv'
  <1> USE DEF DInv, Types
  <1>1. worker \in {"select", "conns"} /\ reply = << >>
        /\ \A fd \in Fds : fd \in conns \/ writeBuf[fd] = << >>
    BY DEF AcceptNewConnection, AcceptNothing, Select, PassEnds, ResumeWrite, ReplyInLines,
           BuffersOfOpen
  <1>2. /\ UNCHANGED <<BufferState, other, kill, main, inits, stolen, page, line, toSend, toServer, toClient,
                       done, owed, got>>
        /\ backlog' \subseteq backlog /\ conns \subseteq conns'
    BY DEF AcceptNewConnection, AcceptNothing, Select, PassEnds, ResumeWrite, mainVars, passVars,
           serveVars, kernelVars, pageVars, histVars, BufferState
  <1>3. TypeControl'
    <2>1. conns \subseteq Fds
      BY DEF IInv, TypesOK
    <2>2. readSet' \subseteq Fds /\ writeSet' \subseteq Fds /\ cur' \in Fds \cup {None}
          /\ serving' \in Clients \cup {"free"} /\ worker' \in {"select", "conns", "write", "done"}
      BY <2>1 DEF AcceptNewConnection, AcceptNothing, Select, PassEnds, ResumeWrite, passVars, serveVars,
                  TypeControl
    <2> QED  BY <1>2, <2>2 DEF TypeControl
  <1>4. TypeBuffers'
    BY <1>2 DEF TypeBuffers, BufferState
  <1>5. TypePages'
    BY <1>2 DEF TypePages
  <1>6. TypeHistory' /\ PagesKeep'
    <2>1. CASE AcceptNewConnection
      <3>1. PICK fd \in Fds, c \in backlog : clean' = [clean EXCEPT ![c] = readBuf[fd] = << >>]
                                             /\ backlog' = backlog \ {c}
        BY <2>1 DEF AcceptNewConnection, Free
      <3>2. c \in Clients /\ page[c] # "new"
        BY <3>1 DEF IInv, TypesOK, OnePlace
      <3>3. clean' \in [Clients -> BOOLEAN] /\ \A b \in Clients \ {c} : clean'[b] = clean[b]
        BY <3>1, <3>2 DEF TypeHistory
      <3>4. TypeHistory'
        BY <1>2, <3>3 DEF TypeHistory
      <3>5. PagesKeep'
        BY <1>2, <3>1, <3>2, <3>3 DEF PagesKeep, Gone
      <3> QED  BY <3>4, <3>5
    <2>2. CASE AcceptNothing \/ PassEnds \/ ResumeWrite
      <3>1. clean' = clean
        BY <2>2 DEF AcceptNothing, PassEnds, ResumeWrite, histVars
      <3> QED  BY <1>2, <3>1 DEF TypeHistory, PagesKeep, Gone
    <2> QED  BY <2>1, <2>2
  <1>7. PlaceInLines' /\ ReplyInLines' /\ BuffersOfOpen' /\ ServedOnce'
    <2>1. CASE ResumeWrite
      <3>1. worker' = "write" /\ serving' = "free"
        BY <2>1 DEF ResumeWrite
      <3> QED  BY <1>1, <1>2, <3>1, Roles
               DEF PlaceInLines, ReplyInLines, BuffersOfOpen, ServedOnce, Serving, BufferState
    <2>2. CASE AcceptNewConnection \/ AcceptNothing \/ PassEnds
      <3>1. worker' \in {"conns", "select", "done"}
        BY <2>2 DEF AcceptNewConnection, AcceptNothing, Select, PassEnds
      <3>2. reply' = << >> /\ \A fd \in Fds : fd \in conns' \/ writeBuf'[fd] = << >>
        BY <1>1, <1>2 DEF BufferState
      <3> QED  BY <3>1, <3>2, NotInLines
    <2> QED  BY <2>1, <2>2
  <1> QED  BY <1>3, <1>4, <1>5, <1>6, <1>7

LEMMA ReadInputKeepsData ==
  ASSUME IInv, DInv, ReadInput
  PROVE  DInv'
  <1> USE DEF DInv, Types
  <1>1. PICK fd \in readSet \ writeSet :
          /\ readBuf' = [readBuf EXCEPT ![fd] = @ \o toServer[owner[fd]]]
          /\ toServer' = [toServer EXCEPT ![owner[fd]] = << >>]
          /\ readSet' = readSet \ {fd} /\ cur' = fd /\ serving' = owner[fd]
    BY DEF ReadInput
  <1>2. /\ worker = "conns" /\ worker' = "lines" /\ pos' = 0
        /\ UNCHANGED <<owner, other, mainVars, kill, conns, writeSet, reply, writeBuf, backlog, toClient,
                       page, line, toSend, clean, done, owed, got, stolen>>
    BY DEF ReadInput, pageVars, histVars
  <1>3. fd \in Fds /\ owner[fd] \in Clients
    BY <1>2 DEF IInv, ServesConns, ConnsOwned
  <1>4. TypeControl'
    BY <1>1, <1>2, <1>3 DEF TypeControl, mainVars
  <1>5. readBuf' \in [Fds -> Seq(Tokens)] /\ Len(readBuf'[fd]) \in Nat
    <2>1. readBuf[fd] \o toServer[owner[fd]] \in Seq(Tokens)
      BY <1>3, ConcatProperties DEF TypeBuffers, TypePages
    <2>2. readBuf' \in [Fds -> Seq(Tokens)]
      BY <1>1, <2>1 DEF TypeBuffers
    <2> QED  BY <1>3, <2>2, LenProperties
  <1>6. TypeBuffers' /\ TypeHistory'
    BY <1>2, <1>5 DEF TypeBuffers, TypeHistory
  <1>7. TypePages'
    <2>1. toServer' \in [Clients -> Seq(Tokens)]
      BY <1>1, <1>3, EmptySeq DEF TypePages
    <2> QED  BY <1>2, <2>1 DEF TypePages
  <1>8. PagesKeep'
    <2>1. \A c \in Clients : toServer'[c] = IF c = owner[fd] THEN << >> ELSE toServer[c]
      BY <1>1, <1>3 DEF TypePages
    <2> QED  BY <1>2, <2>1 DEF PagesKeep, Gone
  <1>9. PlaceInLines'
    BY <1>1, <1>2, <1>3, <1>5 DEF PlaceInLines
  <1>10. ReplyInLines' /\ BuffersOfOpen'
    BY <1>2 DEF ReplyInLines, BuffersOfOpen
  <1>11. ServedOnce'
    <2>1. page[owner[fd]] # "new" /\ owner[fd] \notin backlog
      BY <1>3 DEF IInv, OnePlace, Connection
    <2> QED  BY <1>1, <1>2, <2>1 DEF ServedOnce, Serving
  <1> QED  BY <1>4, <1>6, <1>7, <1>8, <1>9, <1>10, <1>11

\* A connection is closed, from the pass or from its lines, whose place and rows stay.
LEMMA CloseKeepsData ==
  ASSUME IInv, DInv, NEW fd \in Fds, CloseFds({fd}), conns' = Forget(fd),
         writeBuf' = [writeBuf EXCEPT ![fd] = << >>],
         UNCHANGED <<other, mainVars, kill, cur, serving, readBuf, reply, backlog, page, line,
                     toSend, toServer, toClient, clean, owed, got>>,
         done' \in [Clients -> Seq(Seq(Tokens))],
         \A c \in Clients : done'[c] # done[c] => Serving(c),
         readSet' \subseteq readSet, writeSet' \subseteq writeSet,
         pos' \in Nat, worker' = "lines" => worker = "lines" /\ pos' <= Len(readBuf[cur]),
         worker \in {"conns", "lines"}, worker' \in {"conns", "lines"},
         worker = "lines" => fd = cur
  PROVE  DInv'
  <1> USE DEF DInv, Types
  <1>1. TypeControl'
    <2>1. stolen' \in BOOLEAN
      BY DEF CloseFds
    <2> QED  BY <2>1 DEF TypeControl, mainVars
  <1>2. TypeBuffers'
    BY DEF TypeBuffers
  <1>3. TypePages' /\ TypeHistory'
    BY DEF TypePages, TypeHistory
  <1>4. PagesKeep'
    <2>1. \A c \in Clients : page[c] = "new" \/ c \in backlog => done'[c] = done[c]
      BY DEF ServedOnce
    <2> QED  BY <2>1 DEF PagesKeep, Gone
  <1>5. reply' = << >> /\ \A g \in Fds : g \in conns' \/ writeBuf'[g] = << >>
    BY DEF ReplyInLines, BuffersOfOpen, Forget, TypeBuffers
  <1>6. ASSUME worker' = "lines"
        PROVE  PlaceInLines' /\ ReplyInLines' /\ BuffersOfOpen' /\ ServedOnce'
    <2>1. PlaceInLines' /\ ReplyInLines' /\ BuffersOfOpen'
      BY <1>5, <1>6 DEF PlaceInLines, ReplyInLines, BuffersOfOpen
    <2>2. worker = "lines" /\ fd = cur
      BY <1>6
    <2>3. \A g \in Fds : owner'[g] = IF g = cur THEN "free" ELSE owner[g]
      BY <2>2 DEF CloseFds
    <2>4. ASSUME NEW c \in Clients, Serving(c)'
          PROVE  /\ page'[c] # "new" /\ c \notin backlog'
                 /\ owner'[cur] = "free" /\ Connection(c)' = {}
      <3>1. Serving(c)
        BY <2>2, <2>4 DEF Serving
      <3>2. Connection(c) \subseteq {cur}
        <4>1. CASE owner[cur] = c
          BY <2>2, <4>1 DEF IInv, ConnsOwned, Connection
        <4>2. CASE owner[cur] # c
          BY <3>1, <4>2 DEF ServedOnce
        <4> QED  BY <4>1, <4>2
      <3>3. Connection(c)' = {}
        BY <2>3, <3>2, Roles DEF Connection
      <3> QED  BY <2>2, <2>3, <3>1, <3>3 DEF ServedOnce
    <2>5. ServedOnce'
      BY <2>4 DEF ServedOnce
    <2> QED  BY <2>1, <2>5
  <1>7. PlaceInLines' /\ ReplyInLines' /\ BuffersOfOpen' /\ ServedOnce'
    BY <1>5, <1>6, NotInLines
  <1> QED  BY <1>1, <1>2, <1>3, <1>4, <1>7

LEMMA ReadEofKeepsData ==
  ASSUME IInv, DInv, ReadEof
  PROVE  DInv'
  <1>1. PICK fd \in readSet : (CloseConn(fd) \/ StaysOpen) /\ readSet' = readSet \ {fd}
    BY DEF ReadEof
  <1>2. worker = "conns" /\ UNCHANGED <<other, mainVars, worker, kill, writeSet, serveVars, readBuf,
                                        kernelVars, pageVars, histVars>>
    BY DEF ReadEof
  <1>3. fd \in Fds /\ pos \in Nat /\ done \in [Clients -> Seq(Seq(Tokens))]
    BY <1>1 DEF DInv, Types, TypeControl, TypeBuffers, TypeHistory
  <1>4. CASE CloseConn(fd)
    BY <1>1, <1>2, <1>3, <1>4, CloseKeepsData DEF CloseConn, serveVars, kernelVars, pageVars, histVars
  <1>5. CASE StaysOpen
    <2> USE DEF DInv, Types
    <2>1. UNCHANGED <<owner, other, mainVars, worker, kill, conns, writeSet, cur, pos, reply, serving,
                      readBuf, writeBuf, backlog, toServer, toClient, page, line, toSend, clean, done, owed, got, stolen>>
      BY <1>2, <1>5 DEF StaysOpen, serveVars, kernelVars, pageVars, histVars
    <2>2. TypeControl'
      BY <1>1, <2>1 DEF TypeControl, mainVars
    <2>3. TypeBuffers' /\ TypePages' /\ TypeHistory' /\ PagesKeep'
      BY <2>1 DEF TypeBuffers, TypePages, TypeHistory, PagesKeep, Gone
    <2>4. PlaceInLines' /\ ReplyInLines' /\ BuffersOfOpen' /\ ServedOnce'
      <3>1. reply' = << >> /\ \A g \in Fds : g \in conns' \/ writeBuf'[g] = << >>
        BY <1>2, <2>1 DEF ReplyInLines, BuffersOfOpen
      <3> QED  BY <1>2, <3>1, NotInLines
    <2> QED  BY <2>2, <2>3, <2>4
  <1> QED  BY <1>1, <1>4, <1>5

-----------------------------------------------------------------------------
(* Lines. *)

LEMMA RestType ==
  ASSUME IInv, DInv, worker \in {"lines", "write"}, serving # "free"
  PROVE  /\ cur \in Fds /\ serving \in Clients
         /\ readBuf[cur] \in Seq(Tokens) /\ pos \in 0..Len(readBuf[cur])
         /\ Rest \in Seq(Tokens) /\ Len(Rest) = Len(readBuf[cur]) - pos
         /\ \A i \in 1..Len(Rest) : Rest[i] = readBuf[cur][pos + i]
  <1>1. cur \in Fds /\ serving \in Clients /\ readBuf[cur] \in Seq(Tokens) /\ pos \in Nat
        /\ pos <= Len(readBuf[cur])
    BY DEF IInv, ServesCur, DInv, Types, TypeControl, TypeBuffers, PlaceInLines
  <1> DEFINE s == readBuf[cur]
             n == Len(s)
  <1>2. n \in Nat /\ \A i \in (pos + 1)..n : s[i] \in Tokens
    BY <1>1, LenProperties, ElementOfSeq
  <1>3. SubSeq(s, pos + 1, n) \in Seq(Tokens) /\ Len(SubSeq(s, pos + 1, n)) = n - pos
    BY <1>1, <1>2, SubSeqProperties
  <1>4. ASSUME NEW i \in 1..(n - pos) PROVE SubSeq(s, pos + 1, n)[i] = s[pos + i]
    <2>1. SubSeq(s, pos + 1, n)[i] = s[(pos + 1) + i - 1] /\ (pos + 1) + i - 1 = pos + i
      BY <1>1, <1>2
    <2> QED  BY <2>1
  <1> QED  BY <1>1, <1>2, <1>3, <1>4 DEF Rest

LEMMA NextLineType ==
  ASSUME IInv, DInv, worker = "lines", LineEnds # {}
  PROVE  /\ LineEnd \in 1..Len(Rest) /\ Rest[LineEnd] = NL
         /\ \A i \in 1..(LineEnd - 1) : Rest[i] # NL
         /\ NextLine \in Seq(Tokens) /\ NextLine = SubSeq(Rest, 1, LineEnd - 1)
  <1>1. Rest \in Seq(Tokens) /\ Len(Rest) \in Nat
    BY RestType, Roles DEF DInv, PlaceInLines
  <1>2. LineEnds \subseteq Nat
    BY <1>1 DEF LineEnds
  <1>3. \E n \in LineEnds : \A i \in LineEnds : n <= i
    BY <1>2, LeastNumber
  <1>4. LineEnd \in LineEnds /\ \A i \in LineEnds : LineEnd <= i
    BY <1>3 DEF LineEnd
  <1> HIDE DEF LineEnd
  <1>5. LineEnd \in 1..Len(Rest) /\ Rest[LineEnd] = NL
    BY <1>4 DEF LineEnds
  <1>6. \A i \in 1..(LineEnd - 1) : Rest[i] # NL
    <2> SUFFICES ASSUME NEW i \in 1..(LineEnd - 1) PROVE Rest[i] # NL
      OBVIOUS
    <2>1. i \in 1..Len(Rest) /\ ~(LineEnd <= i)
      BY <1>1, <1>5
    <2> QED  BY <1>4, <2>1 DEF LineEnds
  <1>7. NextLine \in Seq(Tokens)
    BY <1>1, <1>5, SubSeqProperties, ElementOfSeq DEF NextLine
  <1> QED  BY <1>5, <1>6, <1>7 DEF NextLine

\* What write_data() does with the first of rows, and what follows a write.
LEMMA WriteDataType ==
  ASSUME IInv, DInv, cur \in Fds, NEW rows \in Seq(Seq(Pieces)), rows # << >>,
         NEW buffers \in [Fds -> Seq(Pieces)], WriteData(rows, buffers)
  PROVE  /\ worker' = "write" /\ reply' = Tail(rows) /\ reply' \in Seq(Seq(Pieces))
         /\ Head(rows) \in Seq(Pieces)
         /\ writeBuf' \in [Fds -> Seq(Pieces)]
         /\ \A fd \in Fds : writeBuf'[fd] = IF fd = cur THEN buffers[fd] \o Head(rows) ELSE buffers[fd]
         /\ owed' \in [Clients -> Seq(Pieces)]
         /\ \A c \in Clients : owed'[c] = IF owner[cur] = c /\ c = serving THEN owed[c] \o Head(rows)
                                          ELSE owed[c]
  <1>1. Head(rows) \in Seq(Pieces) /\ Tail(rows) \in Seq(Seq(Pieces))
    BY HeadTailProperties
  <1>2. buffers[cur] \o Head(rows) \in Seq(Pieces)
    BY <1>1, ConcatProperties
  <1>3. /\ writeBuf' \in [Fds -> Seq(Pieces)]
        /\ \A fd \in Fds : writeBuf'[fd] = IF fd = cur THEN buffers[fd] \o Head(rows) ELSE buffers[fd]
    BY <1>2 DEF WriteData
  <1>4. owed \in [Clients -> Seq(Pieces)] /\ \A c \in Clients : owed[c] \o Head(rows) \in Seq(Pieces)
    BY <1>1, ConcatProperties DEF DInv, Types, TypeHistory
  <1>5. /\ owed' \in [Clients -> Seq(Pieces)]
        /\ \A c \in Clients : owed'[c] = IF owner[cur] = c /\ c = serving THEN owed[c] \o Head(rows)
                                         ELSE owed[c]
    BY <1>4 DEF WriteData
  <1> QED  BY <1>1, <1>3, <1>5 DEF WriteData

LEMMA WrittenType ==
  ASSUME IInv, DInv, worker = "write", cur \in Fds,
         NEW buffers \in [Fds -> Seq(Pieces)], Written(buffers)
  PROVE  /\ worker' \in {"write", "conns", "lines"}
         /\ worker' = "lines" => serving # "free"
         /\ worker' = "write" => serving # "free" /\ reply # << >> /\ reply' = Tail(reply)
         /\ worker' # "write" => reply' = reply /\ reply = << >> /\ UNCHANGED owed
         /\ reply' \in Seq(Seq(Pieces)) /\ writeBuf' \in [Fds -> Seq(Pieces)]
         /\ \A fd \in Fds : writeBuf'[fd] = IF fd = cur /\ worker' = "write" THEN buffers[fd] \o Head(reply)
                                            ELSE buffers[fd]
         /\ owed' \in [Clients -> Seq(Pieces)]
         /\ \A c \in Clients :
              owed'[c] = IF owner[cur] = c /\ c = serving /\ worker' = "write" THEN owed[c] \o Head(reply)
                         ELSE owed[c]
  <1>1. reply \in Seq(Seq(Pieces)) /\ owed \in [Clients -> Seq(Pieces)]
    BY DEF DInv, Types, TypeBuffers, TypeHistory
  <1>2. CASE reply # << >>
    <2>1. WriteData(reply, buffers)
      BY <1>2 DEF Written
    <2>2. serving # "free"
      BY <1>2 DEF DInv, ReplyInLines
    <2> QED  BY <1>1, <1>2, <2>1, <2>2, WriteDataType
  <1>3. CASE reply = << >>
    <2>1. /\ worker' = IF serving = "free" THEN "conns" ELSE "lines"
          /\ writeBuf' = buffers /\ UNCHANGED <<reply, owed>>
      BY <1>3 DEF Written
    <2> QED  BY <1>1, <1>3, <2>1
  <1> QED  BY <1>2, <1>3

\* A line is taken from the buffer, and noted.
LEMMA ConsumeType ==
  ASSUME IInv, DInv, worker = "lines", LineEnds # {}, Consume,
         done' = [done EXCEPT ![serving] = Append(@, NextLine)]
  PROVE  /\ pos' = pos + LineEnd /\ pos' \in 0..Len(readBuf[cur])
         /\ done' \in [Clients -> Seq(Seq(Tokens))]
         /\ \A c \in Clients : done'[c] = IF Serving(c) THEN Append(done[c], NextLine) ELSE done[c]
  <1>1. /\ serving \in Clients /\ LineEnd \in 1..Len(Rest) /\ NextLine \in Seq(Tokens)
        /\ pos \in 0..Len(readBuf[cur]) /\ Len(Rest) = Len(readBuf[cur]) - pos
        /\ Len(readBuf[cur]) \in Nat
    BY RestType, NextLineType, Roles, LenProperties DEF DInv, PlaceInLines
  <1>2. pos' = pos + LineEnd /\ pos' \in 0..Len(readBuf[cur])
    BY <1>1 DEF Consume
  <1>3. Append(done[serving], NextLine) \in Seq(Seq(Tokens))
    BY <1>1, AppendProperties DEF DInv, Types, TypeHistory
  <1>4. /\ done' \in [Clients -> Seq(Seq(Tokens))]
        /\ \A c \in Clients : done'[c] = IF Serving(c) THEN Append(done[c], NextLine) ELSE done[c]
    BY <1>1, <1>3 DEF DInv, Types, TypeHistory, Serving
  <1> QED  BY <1>2, <1>4

LEMMA ExecuteCmdKeepsData ==
  ASSUME IInv, DInv, ExecuteCmd
  PROVE  DInv'
  <1> USE DEF DInv, Types
  <1> DEFINE answer == Answer(Len(done[serving]) + 1, NextLine)
  <1>1. /\ worker = "lines" /\ LineEnds # {} /\ WriteData(answer, writeBuf)
        /\ done' = [done EXCEPT ![serving] = Append(@, NextLine)] /\ Consume
        /\ UNCHANGED <<owner, other, mainVars, kill, conns, passVars, cur, serving, readBuf, kernelVars,
                       pageVars, clean, got, stolen>>
    BY DEF ExecuteCmd
  <1>2. serving \in Clients /\ cur \in Fds
    BY <1>1, RestType, Roles DEF PlaceInLines
  <1>3. answer \in Seq(Seq(Pieces)) /\ answer # << >>
    BY <1>1, <1>2, NextLineType, AnswerType, LenProperties DEF TypeHistory
  <1> HIDE DEF answer
  <1>4. /\ pos' \in 0..Len(readBuf[cur])
        /\ done' \in [Clients -> Seq(Seq(Tokens))]
        /\ \A c \in Clients : done'[c] = IF Serving(c) THEN Append(done[c], NextLine) ELSE done[c]
    BY <1>1, ConsumeType
  <1>5. /\ worker' = "write" /\ reply' \in Seq(Seq(Pieces)) /\ writeBuf' \in [Fds -> Seq(Pieces)]
        /\ \A fd \in Fds : fd # cur => writeBuf'[fd] = writeBuf[fd]
        /\ owed' \in [Clients -> Seq(Pieces)]
        /\ \A c \in Clients : c # serving => owed'[c] = owed[c]
    BY <1>1, <1>2, <1>3, WriteDataType DEF TypeBuffers
  <1>6. Len(readBuf[cur]) \in Nat
    BY <1>2, LenProperties DEF TypeBuffers
  <1>7. TypeControl'
    BY <1>1, <1>5 DEF TypeControl, mainVars, passVars
  <1>8. TypeBuffers' /\ TypePages' /\ TypeHistory'
    <2>1. pos' \in Nat
      BY <1>4, <1>6
    <2>2. TypeBuffers'
      BY <1>1, <1>5, <2>1 DEF TypeBuffers
    <2>3. TypePages' /\ TypeHistory'
      BY <1>1, <1>4, <1>5 DEF TypePages, TypeHistory, kernelVars, pageVars
    <2> QED  BY <2>2, <2>3
  <1>9. PlaceInLines' /\ ReplyInLines' /\ BuffersOfOpen'
    <2>1. pos' <= Len(readBuf'[cur'])
      BY <1>1, <1>4, <1>6
    <2>2. PlaceInLines'
      BY <1>1, <1>2, <1>5, <2>1 DEF PlaceInLines
    <2>3. serving # "free"
      BY <1>2, Roles
    <2>4. ReplyInLines' /\ BuffersOfOpen'
      BY <1>1, <1>5, <2>3 DEF ReplyInLines, BuffersOfOpen
    <2> QED  BY <2>2, <2>4
  <1>10. ServedOnce'
    BY <1>1, <1>5 DEF ServedOnce, Serving, Connection, pageVars, kernelVars
  <1>11. PagesKeep'
    <2>1. \A c \in Clients : page[c] = "new" \/ c \in backlog => done'[c] = done[c] /\ owed'[c] = owed[c]
      BY <1>1, <1>4, <1>5 DEF ServedOnce, Serving
    <2> QED  BY <1>1, <2>1 DEF PagesKeep, Gone, pageVars, kernelVars
  <1> QED  BY <1>7, <1>8, <1>9, <1>10, <1>11

LEMMA LinesCloseKeepsData ==
  ASSUME IInv, DInv, CmdClose \/ LineTooLong
  PROVE  DInv'
  <1>1. worker = "lines" /\ serving \in Clients /\ cur \in Fds /\ pos \in 0..Len(readBuf[cur])
        /\ Len(readBuf[cur]) \in Nat
    BY RestType, Roles, LenProperties DEF CmdClose, LineTooLong, DInv, PlaceInLines
  <1>2. CASE CmdClose
    <2>1. /\ LineEnds # {} /\ Consume /\ done' = [done EXCEPT ![serving] = Append(@, NextLine)]
          /\ CloseFds({cur}) /\ writeBuf' = [writeBuf EXCEPT ![cur] = << >>] /\ conns' = Forget(cur)
          /\ UNCHANGED <<other, mainVars, worker, kill, passVars, cur, reply, serving, readBuf, kernelVars,
                         pageVars, clean, owed, got>>
      BY <1>2 DEF CmdClose, CloseConn
    <2>2. /\ pos' \in 0..Len(readBuf[cur]) /\ done' \in [Clients -> Seq(Seq(Tokens))]
          /\ \A c \in Clients : done'[c] # done[c] => Serving(c)
      BY <1>1, <2>1, ConsumeType
    <2>3. /\ UNCHANGED <<other, mainVars, kill, cur, serving, readBuf, reply, backlog, page, line,
                         toSend, toServer, toClient, clean, owed, got, readSet, writeSet, worker>>
          /\ pos' \in Nat /\ pos' <= Len(readBuf[cur])
      BY <1>1, <2>1, <2>2 DEF kernelVars, pageVars, passVars
    <2> QED  BY <1>1, <2>1, <2>2, <2>3, CloseKeepsData
  <1>3. CASE LineTooLong
    <2>1. /\ CloseFds({cur}) /\ writeBuf' = [writeBuf EXCEPT ![cur] = << >>] /\ conns' = Forget(cur)
          /\ worker' = "conns"
          /\ UNCHANGED <<other, mainVars, kill, passVars, serveVars, readBuf, kernelVars, pageVars, histVars>>
      BY <1>3 DEF LineTooLong, CloseConn
    <2>2. done' = done /\ done \in [Clients -> Seq(Seq(Tokens))]
      BY <2>1 DEF histVars, DInv, Types, TypeHistory
    <2>3. /\ UNCHANGED <<other, mainVars, kill, cur, serving, readBuf, reply, backlog, page, line,
                         toSend, toServer, toClient, clean, owed, got, readSet, writeSet>>
          /\ pos' \in Nat
      BY <1>1, <2>1 DEF kernelVars, pageVars, passVars, serveVars, histVars
    <2> QED  BY <1>1, <2>1, <2>2, <2>3, CloseKeepsData
  <1> QED  BY <1>2, <1>3

LEMMA LinesEndKeepsData ==
  ASSUME IInv, DInv, LinesEnd
  PROVE  DInv'
  <1> USE DEF DInv, Types
  <1>1. /\ worker = "lines" /\ worker' = "conns" /\ readBuf' = [readBuf EXCEPT ![cur] = Rest]
        /\ UNCHANGED <<owner, other, mainVars, kill, conns, passVars, serveVars, writeBuf, backlog, toServer,
                       toClient, page, line, toSend, clean, done, owed, got, stolen>>
    BY DEF LinesEnd, kernelVars, pageVars, histVars
  <1>2. Rest \in Seq(Tokens)
    BY <1>1, RestType, Roles DEF PlaceInLines
  <1>3. TypeControl' /\ TypePages' /\ TypeHistory'
    BY <1>1 DEF TypeControl, TypePages, TypeHistory, mainVars, passVars, serveVars
  <1>4. TypeBuffers'
    BY <1>1, <1>2 DEF TypeBuffers, serveVars
  <1>5. PagesKeep'
    BY <1>1 DEF PagesKeep, Gone
  <1>6. reply' = << >> /\ \A fd \in Fds : fd \in conns' \/ writeBuf'[fd] = << >>
    BY <1>1 DEF ReplyInLines, BuffersOfOpen, serveVars
  <1> QED  BY <1>1, <1>3, <1>4, <1>5, <1>6, NotInLines

-----------------------------------------------------------------------------
(* Writes. *)

\* write(2) takes the first n pieces, and leaves the others.
LEMMA WriteTakes ==
  ASSUME IInv, DInv, Write
  PROVE  \E n \in 1..Len(writeBuf[cur]) :
           LET c == owner[cur]
               rest == SubSeq(writeBuf[cur], n + 1, Len(writeBuf[cur]))
               buffers == [writeBuf EXCEPT ![cur] = rest]
           IN /\ c \in Clients /\ cur \in Fds /\ ~Gone(c) /\ rest \in Seq(Pieces)
              /\ buffers \in [Fds -> Seq(Pieces)]
              /\ SubSeq(writeBuf[cur], 1, n) \in Seq(Pieces)
              /\ writeBuf[cur] = SubSeq(writeBuf[cur], 1, n) \o rest
              /\ toClient' = [toClient EXCEPT ![c] = @ \o SubSeq(writeBuf[cur], 1, n)]
              /\ Written(buffers) \/ (writeBuf' = buffers /\ UNCHANGED <<worker, reply, owed>>)
  <1> DEFINE c == owner[cur]
             m == IF Len(writeBuf[cur]) <= Room(c) THEN Len(writeBuf[cur]) ELSE Room(c)
  <1>1. c \in Clients /\ cur \in Fds /\ writeBuf[cur] \in Seq(Pieces) /\ toClient[c] \in Seq(Pieces)
    BY DEF Write, IInv, ServesCur, DInv, Types, TypeBuffers, TypePages
  <1>2. Len(writeBuf[cur]) \in Nat /\ Room(c) \in Int
    BY <1>1, LenProperties, RemoteAssumption DEF Room
  <1>3. /\ ~Gone(c) /\ m > 0
        /\ toClient' = [toClient EXCEPT ![c] = @ \o SubSeq(writeBuf[cur], 1, m)]
        /\ LET buffers == [writeBuf EXCEPT ![cur] = SubSeq(writeBuf[cur], m + 1, Len(writeBuf[cur]))]
           IN Written(buffers) \/ (writeBuf' = buffers /\ UNCHANGED <<worker, reply, owed>>)
    BY DEF Write, Unwritten
  <1>4. m \in 1..Len(writeBuf[cur])
    BY <1>2, <1>3
  <1> HIDE DEF m
  <1>5. PICK n \in 1..Len(writeBuf[cur]) : n = m
    BY <1>4
  <1> DEFINE rest == SubSeq(writeBuf[cur], n + 1, Len(writeBuf[cur]))
  <1>6. /\ rest \in Seq(Pieces) /\ SubSeq(writeBuf[cur], 1, n) \in Seq(Pieces)
        /\ writeBuf[cur] = SubSeq(writeBuf[cur], 1, n) \o rest
    <2>1. \A i \in 1..Len(writeBuf[cur]) : writeBuf[cur][i] \in Pieces
      BY <1>1, ElementOfSeq
    <2>2. rest \in Seq(Pieces) /\ SubSeq(writeBuf[cur], 1, n) \in Seq(Pieces)
      BY <1>2, <2>1, SubSeqProperties
    <2>3. SubSeq(writeBuf[cur], 1, n) \o rest = SubSeq(writeBuf[cur], 1, Len(writeBuf[cur]))
      BY <1>1, <1>2, ConcatAdjacentSubSeq
    <2> QED  BY <1>1, <2>2, <2>3, SubSeqFull
  <1>7. [writeBuf EXCEPT ![cur] = rest] \in [Fds -> Seq(Pieces)]
    BY <1>6 DEF DInv, Types, TypeBuffers
  <1> QED  BY <1>1, <1>3, <1>5, <1>6, <1>7

LEMMA WriteKeepsData ==
  ASSUME IInv, DInv, Write \/ WriteFails \/ WriteElsewhere
  PROVE  DInv'
  <1> USE DEF DInv, Types
  <1>1. worker = "write" /\ cur \in Fds /\ UNCHANGED writeOnly
    BY DEF Write, WriteFails, WriteElsewhere, IInv, ServesCur
  <1>2. reply \in Seq(Seq(Pieces)) /\ owed \in [Clients -> Seq(Pieces)]
    BY DEF TypeBuffers, TypeHistory
  <1>3. PICK buffers \in [Fds -> Seq(Pieces)] :
          /\ \A fd \in Fds : fd # cur => buffers[fd] = writeBuf[fd]
          /\ Written(buffers) \/ (writeBuf' = buffers /\ UNCHANGED <<worker, reply, owed, conns>>)
          /\ cur \notin conns' => buffers[cur] = << >>
          /\ conns \subseteq conns' \cup {cur}
    <2>1. CASE Write
      <3>1. PICK n \in 1..Len(writeBuf[cur]) :
              LET rest == SubSeq(writeBuf[cur], n + 1, Len(writeBuf[cur]))
                  buffers == [writeBuf EXCEPT ![cur] = rest]
              IN /\ buffers \in [Fds -> Seq(Pieces)]
                 /\ Written(buffers) \/ (writeBuf' = buffers /\ UNCHANGED <<worker, reply, owed>>)
        BY <2>1, WriteTakes
      <3>2. UNCHANGED conns /\ cur \in conns
        BY <1>1, <2>1 DEF Write, IInv, ConnsOwned
      <3>3. \A fd \in Fds : fd # cur =>
              [writeBuf EXCEPT ![cur] = SubSeq(writeBuf[cur], n + 1, Len(writeBuf[cur]))][fd] = writeBuf[fd]
        BY DEF TypeBuffers
      <3> QED  BY <3>1, <3>2, <3>3
    <2>2. CASE WriteFails \/ WriteElsewhere
      <3> DEFINE b == [writeBuf EXCEPT ![cur] = << >>]
      <3>1. b \in [Fds -> Seq(Pieces)] /\ b[cur] = << >>
            /\ \A fd \in Fds : fd # cur => b[fd] = writeBuf[fd]
        BY <1>1, EmptySeq DEF TypeBuffers
      <3>2. Written(b) /\ conns \subseteq conns' \cup {cur}
        BY <2>2 DEF WriteFails, WriteElsewhere, Forget
      <3> HIDE DEF b
      <3> QED  BY <3>1, <3>2
    <2> QED  BY <2>1, <2>2
  <1>4. /\ worker' \in {"write", "conns", "lines"}
        /\ worker' = "lines" => serving # "free"
        /\ worker' # "write" \/ serving = "free" => reply' = << >>
        /\ reply' \in Seq(Seq(Pieces)) /\ writeBuf' \in [Fds -> Seq(Pieces)]
        /\ \A fd \in Fds : fd # cur => writeBuf'[fd] = writeBuf[fd]
        /\ worker' # "write" => writeBuf'[cur] = buffers[cur]
        /\ owed' \in [Clients -> Seq(Pieces)]
        /\ \A c \in Clients : c # serving => owed'[c] = owed[c]
    <2>1. CASE Written(buffers)
      BY <1>1, <1>3, <2>1, WrittenType
    <2>2. CASE writeBuf' = buffers /\ UNCHANGED <<worker, reply, owed>>
      BY <1>1, <1>2, <1>3, <2>2 DEF ReplyInLines
    <2> QED  BY <1>3, <2>1, <2>2
  <1>5. UNCHANGED <<other, mainVars, kill, readSet, writeSet, cur, pos, serving, readBuf, backlog, toServer, page,
                    line, toSend, clean, done, got>>
    BY <1>1 DEF writeOnly, passVars, pageVars
  <1>6. stolen' \in BOOLEAN /\ toClient' \in [Clients -> Seq(Pieces)]
        /\ \A c \in Clients : Gone(c) \/ c # owner[cur] => toClient'[c] = toClient[c]
    <2>1. CASE Write
      <3>1. PICK n \in 1..Len(writeBuf[cur]) :
              /\ owner[cur] \in Clients /\ ~Gone(owner[cur]) /\ SubSeq(writeBuf[cur], 1, n) \in Seq(Pieces)
              /\ toClient' = [toClient EXCEPT ![owner[cur]] = @ \o SubSeq(writeBuf[cur], 1, n)]
        BY <2>1, WriteTakes
      <3>2. toClient[owner[cur]] \o SubSeq(writeBuf[cur], 1, n) \in Seq(Pieces)
        BY <3>1, ConcatProperties DEF TypePages
      <3> QED  BY ZenonT(40), <2>1, <3>1, <3>2 DEF Write, TypePages, TypeControl
    <2>2. CASE WriteFails \/ WriteElsewhere
      BY <2>2 DEF WriteFails, WriteElsewhere, CloseFds, TypePages
    <2> QED  BY <2>1, <2>2
  <1>7. TypeControl'
    BY <1>4, <1>5, <1>6 DEF TypeControl, mainVars
  <1>8. TypeBuffers' /\ TypePages' /\ TypeHistory'
    BY <1>4, <1>5, <1>6 DEF TypeBuffers, TypePages, TypeHistory
  <1>9. PlaceInLines'
    BY <1>1, <1>4, <1>5 DEF PlaceInLines, TypeControl
  <1>10. ReplyInLines' /\ BuffersOfOpen'
    <2>1. ReplyInLines'
      BY <1>4, <1>5 DEF ReplyInLines
    <2>2. ASSUME NEW fd \in Fds, fd \notin conns', worker' # "write" \/ fd # cur
          PROVE  writeBuf'[fd] = << >>
      BY <1>1, <1>3, <1>4, <2>2 DEF BuffersOfOpen
    <2> QED  BY <1>5, <2>1, <2>2 DEF BuffersOfOpen
  <1>11. ServedOnce'
    <2>1. \A g \in Fds : owner'[g] = owner[g] \/ owner'[g] = "free"
      BY DEF Write, WriteFails, WriteElsewhere, CloseFds
    <2>2. \A c \in Clients : Connection(c)' \subseteq Connection(c)
      BY <2>1, Roles DEF Connection
    <2> SUFFICES ASSUME NEW c \in Clients, Serving(c)'
                 PROVE  /\ page'[c] # "new" /\ c \notin backlog'
                        /\ owner'[cur] = c \/ (owner'[cur] \in {"free", "other"} /\ Connection(c)' = {})
      BY <1>5 DEF ServedOnce
    <2>3. Serving(c)
      BY <1>1, <1>5 DEF Serving
    <2>4. ASSUME owner'[cur] # c PROVE owner'[cur] \in {"free", "other"} /\ Connection(c)' = {}
      <3>1. CASE owner[cur] # c
        BY <1>1, <2>1, <2>2, <2>3, <3>1 DEF ServedOnce
      <3>2. CASE owner[cur] = c
        <4>1. Connection(c) \subseteq {cur}
          BY <1>1, <3>2 DEF IInv, ConnsOwned, Connection
        <4> QED  BY <1>1, <2>1, <2>2, <2>4, <3>2, <4>1 DEF Connection
      <3> QED  BY <3>1, <3>2
    <2> QED  BY <1>5, <2>3, <2>4 DEF ServedOnce
  <1>12. PagesKeep'
    <2>1. \A c \in Clients : page[c] = "new" \/ c \in backlog => owed'[c] = owed[c] /\ toClient'[c] = toClient[c]
      <3> SUFFICES ASSUME NEW c \in Clients, page[c] = "new" \/ c \in backlog
                   PROVE  owed'[c] = owed[c] /\ toClient'[c] = toClient[c]
        OBVIOUS
      <3>1. Connection(c) = {} /\ ~Serving(c)
        BY DEF ServedOnce, IInv, OnePlace
      <3>2. c # owner[cur] /\ (c # serving \/ Serving(c))
        BY <1>1, <3>1 DEF Connection, Serving
      <3> QED  BY <1>4, <1>6, <3>1, <3>2
    <2> QED  BY <1>5, <1>6, <2>1 DEF PagesKeep, Gone
  <1> QED  BY <1>7, <1>8, <1>9, <1>10, <1>11, <1>12

-----------------------------------------------------------------------------
(* Clients and the other thread. *)

LEMMA NewLineType ==
  ASSUME NEW c \in Clients, NEW i \in 1..Len(Lines(c))
  PROVE  NewLine(c, i) \in Seq(Tokens) /\ NewLine(c, i) # << >>
  <1>1. NewLine(c, i) \in Seq(Tokens) /\ Lines(c)[i] \in Seq(Tokens \ {NL})
    BY LinesType
  <1> QED  BY <1>1, AppendProperties DEF NewLine

\* The server sees a client connect, and nothing of what else it does.
LEMMA ServerUnchanged ==
  ASSUME DInv, NEW c \in Clients, Client(c)
  PROVE  /\ UNCHANGED <<other, mainVars, worker, kill, conns, passVars, serveVars, readBuf, writeBuf, stolen,
                        owner, clean, done, owed>>
         /\ TypeControl' /\ TypeBuffers' /\ PlaceInLines' /\ ReplyInLines' /\ BuffersOfOpen'
  <1>1. UNCHANGED <<other, mainVars, worker, kill, conns, passVars, serveVars, readBuf, writeBuf, stolen,
                    owner, clean, done, owed>>
    BY DEF Client, Connect, SendPart, SendLast, Recv, Leave, serverOnly, histVars
  <1> QED  BY <1>1 DEF DInv, Types, TypeControl, TypeBuffers, PlaceInLines, ReplyInLines, BuffersOfOpen,
                       mainVars, passVars, serveVars

\* A page sends a token only if one is left.
LEMMA SomeLeft ==
  ASSUME NEW c \in Clients, toSend[c] \in Seq(Tokens), SendPart(c) \/ SendLast(c)
  PROVE  toSend[c] # << >>
  <1> DEFINE n == Len(toSend[c])
  <1>1. n \in Nat /\ (toSend[c] = << >> => n = 0)
    OBVIOUS
  <1>2. n > 1 \/ n = 1
    BY DEF SendPart, SendLast
  <1> HIDE DEF n
  <1>3. n # 0
    BY <1>1, <1>2
  <1> QED  BY <1>1, <1>3

LEMMA ClientKeepsData ==
  ASSUME IInv, DInv, NEW c \in Clients, Client(c)
  PROVE  DInv'
  <1> USE DEF DInv, Types
  <1>1. /\ UNCHANGED <<other, mainVars, worker, kill, conns, passVars, serveVars, readBuf, writeBuf, stolen,
                       owner, clean, done, owed>>
        /\ TypeControl' /\ TypeBuffers' /\ PlaceInLines' /\ ReplyInLines' /\ BuffersOfOpen'
    BY ServerUnchanged
  <1>2. /\ line[c] \in 1..Len(Lines(c)) /\ Len(Lines(c)) \in Nat
        /\ toSend[c] \in Seq(Tokens) /\ toClient[c] \in Seq(Pieces) /\ toServer[c] \in Seq(Tokens)
    BY LineFunction DEF TypePages
  <1>3. /\ toServer' \in [Clients -> Seq(Tokens)] /\ toClient' \in [Clients -> Seq(Pieces)]
        /\ toSend' \in [Clients -> Seq(Tokens)] /\ line' \in [Clients -> Nat]
        /\ line'[c] \in 1..Len(Lines(c)) /\ (page'[c] = "recv" => line'[c] < Len(Lines(c)))
        /\ got' \in [Clients -> Seq(Pieces)]
    <2>1. CASE Connect(c)
      <3>1. NewLine(c, 1) \in Seq(Tokens)
        BY NewLineType, LineFunction
      <3>2. toSend' = [toSend EXCEPT ![c] = NewLine(c, 1)] /\ page'[c] # "recv"
            /\ UNCHANGED <<toServer, toClient, line, got>>
        BY <2>1 DEF Connect, histVars, IInv, TypesOK
      <3> QED  BY <1>2, <3>1, <3>2 DEF TypePages, TypeHistory
    <2>2. CASE SendPart(c) \/ SendLast(c)
      <3>1. toSend[c] # << >>
        BY <2>2, SomeLeft DEF TypePages
      <3>2. Head(toSend[c]) \in Tokens /\ Tail(toSend[c]) \in Seq(Tokens)
            /\ Append(toServer[c], Head(toSend[c])) \in Seq(Tokens)
        BY <1>2, <3>1, HeadTailProperties, AppendProperties
      <3>3. toServer' \in [Clients -> Seq(Tokens)] /\ UNCHANGED got
        BY <2>2, <3>2 DEF SendPart, SendLast, TypePages, histVars
      <3>4. CASE SendPart(c)
        BY <1>2, <3>2, <3>3, <3>4 DEF SendPart, TypePages, TypeHistory, IInv, TypesOK
      <3>5. CASE SendLast(c) /\ line[c] = Len(Lines(c))
        <4>1. /\ page' = [page EXCEPT ![c] = "gone"] /\ toClient' = [toClient EXCEPT ![c] = << >>]
              /\ toSend' = [toSend EXCEPT ![c] = << >>] /\ UNCHANGED line
          BY <1>2, <3>5 DEF SendLast
        <4>2. page'[c] = "gone"
          BY <4>1 DEF IInv, TypesOK
        <4> QED  BY <1>2, <3>3, <4>1, <4>2, EmptySeq DEF TypePages, TypeHistory
      <3>6. CASE SendLast(c) /\ line[c] < Len(Lines(c)) /\ Lines(c)[line[c]] # <<"RELOAD">>
        <4>1. /\ toSend' = [toSend EXCEPT ![c] = << >>] /\ UNCHANGED <<line, toClient>>
          BY <1>2, <3>6 DEF SendLast
        <4> QED  BY <1>2, <3>3, <3>6, <4>1, EmptySeq DEF TypePages, TypeHistory
      <3>7. CASE SendLast(c) /\ line[c] < Len(Lines(c)) /\ Lines(c)[line[c]] = <<"RELOAD">>
        <4>1. /\ line' = [line EXCEPT ![c] = @ + 1] /\ UNCHANGED <<page, toClient>>
              /\ toSend' = [toSend EXCEPT ![c] = NewLine(c, line[c] + 1)]
          BY <1>2, <3>7 DEF SendLast
        <4>2. NewLine(c, line[c] + 1) \in Seq(Tokens) /\ line[c] + 1 \in 1..Len(Lines(c))
          BY <1>2, <3>7, NewLineType
        <4>3. page'[c] # "recv"
          BY <3>7, <4>1 DEF SendLast
        <4> QED  BY <1>2, <3>3, <4>1, <4>2, <4>3 DEF TypePages, TypeHistory
      <3> QED  BY <1>2, <2>2, <3>4, <3>5, <3>6, <3>7
    <2>3. CASE Recv(c)
      <3>1. /\ toClient' = [toClient EXCEPT ![c] = Tail(@)]
            /\ got' = [got EXCEPT ![c] = Append(@, Head(toClient[c]))]
            /\ UNCHANGED toServer /\ page[c] = "recv" /\ toClient[c] # << >>
        BY <2>3 DEF Recv
      <3>2. Tail(toClient[c]) \in Seq(Pieces) /\ Append(got[c], Head(toClient[c])) \in Seq(Pieces)
        BY <1>2, <3>1, HeadTailProperties, AppendProperties DEF TypeHistory
      <3>3. toServer' \in [Clients -> Seq(Tokens)] /\ toClient' \in [Clients -> Seq(Pieces)]
            /\ got' \in [Clients -> Seq(Pieces)]
        BY <3>1, <3>2 DEF TypePages, TypeHistory
      <3>4. line[c] < Len(Lines(c))
        BY <3>1 DEF PagesKeep
      <3>5. NewLine(c, line[c] + 1) \in Seq(Tokens) /\ line[c] + 1 \in 1..Len(Lines(c))
        BY <1>2, <3>4, NewLineType
      <3>6. CASE Head(toClient[c]).row = 0 /\ Head(toClient[c]).end
        <4>1. /\ page' = [page EXCEPT ![c] = "send"] /\ line' = [line EXCEPT ![c] = @ + 1]
              /\ toSend' = [toSend EXCEPT ![c] = NewLine(c, line[c] + 1)]
          BY <2>3, <3>6 DEF Recv
        <4>2. page'[c] # "recv"
          BY <4>1 DEF IInv, TypesOK
        <4> QED  BY <1>2, <3>3, <3>5, <4>1, <4>2 DEF TypePages
      <3>7. CASE ~(Head(toClient[c]).row = 0 /\ Head(toClient[c]).end)
        BY <1>2, <2>3, <3>3, <3>4, <3>7 DEF Recv, TypePages, pageVars
      <3> QED  BY <3>6, <3>7
    <2>4. CASE Leave(c)
      <3>1. /\ page' = [page EXCEPT ![c] = "gone"] /\ UNCHANGED <<toServer, line, got>>
            /\ toClient' = [toClient EXCEPT ![c] = << >>] /\ toSend' = [toSend EXCEPT ![c] = << >>]
        BY <2>4 DEF Leave, histVars
      <3>2. page'[c] # "recv"
        BY <3>1 DEF IInv, TypesOK
      <3> QED  BY <1>2, <3>1, <3>2, EmptySeq DEF TypePages, TypeHistory
    <2> QED  BY <2>1, <2>2, <2>3, <2>4 DEF Client
  <1>4. \A b \in Clients \ {c} : /\ toServer'[b] = toServer[b] /\ toClient'[b] = toClient[b]
                                 /\ line'[b] = line[b] /\ page'[b] = page[b] /\ got'[b] = got[b]
    BY SMTT(40) DEF Client, Connect, SendPart, SendLast, Recv, Leave, TypePages, TypeHistory, pageVars, histVars,
           IInv, TypesOK
  <1>5. /\ page'[c] # "new"
        /\ backlog' \subseteq backlog \cup {c} /\ (page[c] # "new" => backlog' = backlog)
        /\ page'[c] = "gone" => toClient'[c] = << >>
        /\ toClient[c] = << >> => toClient'[c] = << >> /\ got'[c] = got[c]
    <2> USE DEF TypePages, IInv, TypesOK, histVars, pageVars
    <2>1. CASE Connect(c)
      BY <2>1 DEF Connect
    <2>2. CASE SendPart(c)
      BY <2>2 DEF SendPart, PagesKeep, Gone
    <2>3. CASE SendLast(c)
      <3>1. /\ page[c] = "send" /\ UNCHANGED <<backlog, got>>
            /\ \/ page' = [page EXCEPT ![c] = "gone"] /\ toClient' = [toClient EXCEPT ![c] = << >>]
               \/ page' = [page EXCEPT ![c] = "recv"] /\ UNCHANGED toClient
               \/ UNCHANGED <<page, toClient>>
        BY <2>3 DEF SendLast
      <3> QED  BY <3>1
    <2>4. CASE Recv(c)
      <3>1. /\ page[c] = "recv" /\ toClient[c] # << >> /\ UNCHANGED backlog
            /\ page' = [page EXCEPT ![c] = "send"] \/ UNCHANGED page
        BY <2>4 DEF Recv
      <3> QED  BY <3>1
    <2>5. CASE Leave(c)
      BY <2>5 DEF Leave
    <2> QED  BY <2>1, <2>2, <2>3, <2>4, <2>5 DEF Client
  <1>6. TypePages' /\ TypeHistory'
    <2>1. \A b \in Clients : line'[b] \in 1..Len(Lines(b))
      BY <1>3, <1>4 DEF TypePages
    <2> QED  BY <1>1, <1>3, <2>1 DEF TypePages, TypeHistory
  <1>7. ServedOnce'
    <2> SUFFICES ASSUME NEW b \in Clients, Serving(b)'
                 PROVE  /\ page'[b] # "new" /\ b \notin backlog'
                        /\ owner'[cur'] = b \/ (owner'[cur'] \in {"free", "other"} /\ Connection(b)' = {})
      BY DEF ServedOnce
    <2>1. Serving(b)
      BY <1>1 DEF Serving, serveVars
    <2> QED  BY <1>1, <1>4, <1>5, <2>1 DEF ServedOnce, serveVars, Connection
  <1>8. PagesKeep'
    <2> SUFFICES ASSUME NEW b \in Clients
                 PROVE  /\ page'[b] = "recv" => line'[b] < Len(Lines(b))
                        /\ page'[b] = "gone" => toClient'[b] = << >>
                        /\ page'[b] = "new" => toServer'[b] = << >>
                        /\ page'[b] = "new" \/ b \in backlog' =>
                             ~clean'[b] /\ done'[b] = << >> /\ owed'[b] = << >> /\ got'[b] = << >>
                             /\ toClient'[b] = << >>
      BY DEF PagesKeep, Gone
    <2>1. CASE b # c
      BY <1>1, <1>4, <1>5, <2>1 DEF PagesKeep, Gone
    <2>2. CASE b = c
      BY <1>1, <1>3, <1>5, <2>2 DEF PagesKeep, Gone
    <2> QED  BY <2>1, <2>2
  <1> QED  BY <1>1, <1>6, <1>7, <1>8

LEMMA OtherOpensKeepsData ==
  ASSUME IInv, DInv, OtherOpens
  PROVE  DInv'
  <1> USE DEF DInv, Types
  <1>1. PICK fd \in Fds : owner[fd] = "free" /\ other' = fd /\ owner' = [owner EXCEPT ![fd] = "other"]
    BY DEF OtherOpens, Free
  <1>2. UNCHANGED <<mainVars, worker, kill, conns, passVars, serveVars, readBuf, writeBuf, backlog, PageState,
                    stolen>>
    BY DEF OtherOpens, elsewhere, workerOnly, kernelVars, pageVars, histVars, PageState
  <1>3. TypeControl'
    BY <1>1, <1>2 DEF TypeControl, mainVars, passVars, serveVars
  <1>4. TypeBuffers' /\ PlaceInLines' /\ ReplyInLines' /\ BuffersOfOpen'
    BY <1>2 DEF TypeBuffers, PlaceInLines, ReplyInLines, BuffersOfOpen, serveVars
  <1>5. TypePages' /\ TypeHistory' /\ PagesKeep'
    BY <1>2, PagesUnchanged
  <1>6. ServedOnce'
    <2>1. \A g \in Fds : owner'[g] = IF g = fd THEN "other" ELSE owner[g]
      BY <1>1 DEF IInv, TypesOK
    <2>2. \A c \in Clients : Connection(c)' = Connection(c)
      BY <1>1, <2>1, Roles DEF Connection
    <2> SUFFICES ASSUME NEW c \in Clients, Serving(c)'
                 PROVE  /\ page'[c] # "new" /\ c \notin backlog'
                        /\ owner'[cur'] = c \/ (owner'[cur'] \in {"free", "other"} /\ Connection(c)' = {})
      BY DEF ServedOnce
    <2>3. Serving(c) /\ cur \in Fds /\ cur' = cur
      BY <1>2 DEF Serving, serveVars, IInv, ServesCur
    <2>4. owner'[cur] = c \/ (owner'[cur] \in {"free", "other"} /\ Connection(c) = {})
      BY <1>1, <2>1, <2>3, Roles DEF ServedOnce
    <2> QED  BY <1>2, <2>2, <2>3, <2>4 DEF ServedOnce, PageState
  <1> QED  BY <1>3, <1>4, <1>5, <1>6

LEMMA NextKeepsData == IInv /\ DInv /\ [Next]_vars => DInv'
  <1> SUFFICES ASSUME IInv, DInv, [Next]_vars PROVE DInv'
    OBVIOUS
  <1>1. CASE UNCHANGED vars
    <2>1. UNCHANGED <<owner, other, mainVars, worker, kill, conns, passVars, serveVars, readBuf, writeBuf,
                      backlog, PageState, stolen>>
      BY <1>1 DEF vars, kernelVars, pageVars, histVars, PageState
    <2>2. TypeControl' /\ TypeBuffers' /\ PlaceInLines' /\ ReplyInLines' /\ BuffersOfOpen'
      BY <2>1 DEF DInv, Types, TypeControl, TypeBuffers, PlaceInLines, ReplyInLines, BuffersOfOpen,
                  mainVars, passVars, serveVars
    <2>3. TypePages' /\ TypeHistory' /\ PagesKeep'
      BY <2>1, PagesUnchanged
    <2>4. ServedOnce'
      BY <2>1 DEF DInv, ServedOnce, Serving, Connection, serveVars, PageState
    <2> QED  BY <2>2, <2>3, <2>4 DEF DInv, Types
  <1>2. CASE Main
    BY <1>2, MainKeepsData, ShutdownKeepsData DEF Main
  <1>3. CASE Worker
    BY <1>3, PassKeepsData, ReadInputKeepsData, ReadEofKeepsData, ExecuteCmdKeepsData,
       LinesCloseKeepsData, LinesEndKeepsData, WriteKeepsData DEF Worker
  <1>4. CASE \E c \in Clients : Client(c)
    BY <1>4, ClientKeepsData
  <1>5. CASE OtherOpens
    BY <1>5, OtherOpensKeepsData
  <1> QED  BY <1>1, <1>2, <1>3, <1>4, <1>5 DEF Next

\* Types, and what is kept between the steps, in every reachable state.
THEOREM DataInvariant == Spec => [](IInv /\ DInv)
  <1>1. Init => IInv /\ DInv
    BY InitIInv, InitDInv
  <1>2. IInv /\ DInv /\ [Next]_vars => IInv' /\ DInv'
    BY NextKeeps, NextKeepsData
  <1> QED  BY <1>1, <1>2, PTL DEF Spec

\* Every variable has its type, and the worker never looks for a line past its buffer.
THEOREM TypeCorrect == Spec => []TypeOK
  BY DataInvariant, TypesAreOK, PTL

-----------------------------------------------------------------------------
(* The lines of a connection. *)

\* w continues with rest the lines of c after the first k, as a page in state p at its line n
\* goes on to send them; what a page that has gone would have sent does not matter.
Continues(c, w, k, p, rest, n) ==
  \E m \in k..Len(Lines(c)), x \in Seq(Tokens) :
    /\ Spells(c, w \o x, k, m)
    /\ p \in {"send", "recv"} => x = rest /\ m = n
Flows(c, w) == Continues(c, w, Len(done[c]), page[c], toSend[c], line[c])

\* What the server holds of the lines of c, ahead of what the kernel holds.
Held(c) ==
  IF c \in backlog THEN {<< >>}
  ELSE IF Serving(c) THEN {Rest}
  ELSE {readBuf[fd] : fd \in Connection(c)}

\* What has been executed, what the server holds, what is under way and what the page has still
\* to send are the lines of the client, one after the other; a page starts with the first, and
\* waits for an answer only when it has sent all of a line.
Arrival ==
  /\ \A c \in Clients : (page[c] = "new" => line[c] = 1) /\ (page[c] = "recv" => toSend[c] = << >>)
  /\ \A c \in Clients : clean[c] \/ c \in backlog =>
       /\ Len(done[c]) <= Len(Lines(c)) /\ \A i \in 1..Len(done[c]) : done[c][i] = Lines(c)[i]
       /\ \A w \in Held(c) : Flows(c, w \o toServer[c])

LEMMA ArrivalInOrder == IInv /\ DInv /\ Arrival => ExecutedInOrder
  <1> SUFFICES ASSUME IInv, DInv, Arrival, NEW c \in Clients, clean[c]
               PROVE  IsPrefix(done[c], Lines(c))
    BY DEF ExecutedInOrder
  <1>1. done[c] \in Seq(Seq(Tokens))
    BY DEF DInv, Types, TypeHistory
  <1>2. Lines(c) \in Seq(Seq(Tokens))
    <2>1. \A i \in 1..Len(Lines(c)) : Lines(c)[i] \in Seq(Tokens)
      <3> SUFFICES ASSUME NEW i \in 1..Len(Lines(c)) PROVE Lines(c)[i] \in Seq(Tokens)
        OBVIOUS
      <3>1. Lines(c)[i] \in Seq(Tokens \ {NL})
        BY LinesType
      <3> QED  BY <3>1, SeqMonotonic
    <2>2. Lines(c) \in Seq(Seq(Tokens \ {NL}))
      BY LinesType
    <2> DEFINE l == Lines(c)
    <2> HIDE DEF l
    <2>3. l \in Seq(Seq(Tokens \ {NL})) /\ \A i \in 1..Len(l) : l[i] \in Seq(Tokens)
      BY <2>1, <2>2 DEF l
    <2>4. l \in Seq(Seq(Tokens))
      BY <2>3
    <2> QED  BY <2>4 DEF l
  <1>3. Len(done[c]) <= Len(Lines(c)) /\ \A i \in 1..Len(done[c]) : done[c][i] = Lines(c)[i]
    BY DEF Arrival
  <1> HIDE DEF Lines
  <1> QED  BY <1>1, <1>2, <1>3, PrefixByElements

LEMMA InitArrival == Init => Arrival
  <1> SUFFICES ASSUME Init PROVE Arrival
    OBVIOUS
  <1> QED  BY DEF Init, Arrival

LEMMA HeldType ==
  ASSUME IInv, DInv, NEW c \in Clients, NEW w \in Held(c)
  PROVE  w \in Seq(Tokens) /\ toServer[c] \in Seq(Tokens)
  <1>1. CASE c \in backlog
    BY <1>1, EmptySeq DEF Held, DInv, Types, TypePages
  <1>2. CASE c \notin backlog /\ Serving(c)
    BY <1>2, RestType, Roles DEF Held, Serving, DInv, Types, TypePages
  <1>3. CASE c \notin backlog /\ ~Serving(c)
    BY <1>3 DEF Held, Connection, DInv, Types, TypeBuffers, TypePages
  <1> QED  BY <1>1, <1>2, <1>3

\* Steps that move nothing.
LineState == <<page, line, toSend, toServer, done>>
LEMMA StillKeepsArrival ==
  ASSUME Arrival, UNCHANGED LineState,
         \A c \in Clients : clean'[c] \/ c \in backlog' => (clean[c] \/ c \in backlog) /\ Held(c)' \subseteq Held(c)
  PROVE  Arrival'
  <1> USE DEF LineState
  <1>1. \A c \in Clients : /\ page'[c] = "new" => line'[c] = 1
                           /\ page'[c] = "recv" => toSend'[c] = << >>
    BY DEF Arrival
  <1>2. ASSUME NEW c \in Clients, clean'[c] \/ c \in backlog'
        PROVE  /\ Len(done'[c]) <= Len(Lines(c)) /\ \A i \in 1..Len(done'[c]) : done'[c][i] = Lines(c)[i]
               /\ \A w \in Held(c)' : Flows(c, w \o toServer[c])'
    <2>1. Held(c)' \subseteq Held(c)
      BY <1>2
    <2>2. \A w \in Held(c) : Flows(c, w \o toServer[c])
      BY <1>2 DEF Arrival
    <2>3. \A w \in Held(c)' : Flows(c, w \o toServer[c])'
      BY <2>1, <2>2 DEF Flows
    <2> QED  BY <1>2, <2>3 DEF Arrival
  <1> QED  BY <1>1, <1>2 DEF Arrival

\* A page sends, reads or leaves; whatever the server holds, it is continued as before.
LEMMA ClientContinues ==
  ASSUME IInv, DInv, NEW c \in Clients, Client(c), page[c] # "new",
         page[c] = "recv" => toSend[c] = << >>, Len(done[c]) <= Len(Lines(c)),
         NEW w \in Seq(Tokens), Flows(c, w \o toServer[c])
  PROVE  /\ Continues(c, w \o toServer'[c], Len(done[c]), page'[c], toSend'[c], line'[c])
         /\ page'[c] = "recv" => toSend'[c] = << >>
  <1> DEFINE k == Len(done[c])
             s == toServer[c]
             r == toSend[c]
  <1>1. /\ k \in Nat /\ s \in Seq(Tokens) /\ r \in Seq(Tokens) /\ line[c] \in 1..Len(Lines(c))
        /\ Len(Lines(c)) \in Nat /\ page[c] \in {"new", "send", "recv", "gone"}
    BY LineFunction, LenProperties DEF DInv, Types, TypePages, TypeHistory, IInv, TypesOK
  <1>2. PICK m \in k..Len(Lines(c)), x \in Seq(Tokens) :
          /\ Spells(c, (w \o s) \o x, k, m)
          /\ page[c] \in {"send", "recv"} => x = r /\ m = line[c]
    BY DEF Flows, Continues
  <1> USE DEF DInv, Types, TypePages, IInv, TypesOK
  <1>3. ASSUME SendPart(c) \/ SendLast(c)
        PROVE  /\ x = r /\ m = line[c] /\ page[c] = "send"
               /\ Tail(r) \in Seq(Tokens) /\ toServer'[c] \in Seq(Tokens)
               /\ (w \o toServer'[c]) \o Tail(r) = (w \o s) \o r
    <2>1. page[c] = "send" /\ toServer'[c] = Append(s, Head(r)) /\ r # << >>
      BY <1>1, <1>3, SomeLeft DEF SendPart, SendLast
    <2>2. Tail(r) \in Seq(Tokens) /\ Append(s, Head(r)) \in Seq(Tokens) /\ Append(s, Head(r)) \o Tail(r) = s \o r
      BY <1>1, <2>1, HeadMoves
    <2>3. (w \o Append(s, Head(r))) \o Tail(r) = (w \o s) \o r
      <3> HIDE DEF s, r
      <3>1. s \in Seq(Tokens) /\ r \in Seq(Tokens) /\ r # << >>
        BY <1>1, <2>1
      <3> QED  BY ONLY w \in Seq(Tokens), <3>1, HeadMovesAfter
    <2> QED  BY <1>2, <2>1, <2>2, <2>3
  <1>4. CASE SendPart(c)
    <2>1. page' = page /\ line' = line /\ toSend'[c] = Tail(r)
      BY <1>4 DEF SendPart
    <2>2. page'[c] = "send"
      BY <1>3, <1>4, <2>1
    <2> QED  BY <1>2, <1>3, <1>4, <2>1, <2>2 DEF Continues
  <1>5. CASE SendLast(c)
    <2>0. Tail(r) = << >>
      <3>1. Len(r) = 1
        BY <1>5 DEF SendLast
      <3> QED  BY <1>1, <3>1, TailOfOne
    <2>1. Spells(c, (w \o toServer'[c]) \o << >>, k, line[c]) /\ line[c] \in k..Len(Lines(c))
      BY <1>2, <1>3, <1>5, <2>0
    <2>2. CASE page'[c] = "gone" \/ (page'[c] = "recv" /\ toSend'[c] = << >> /\ line' = line)
      BY <2>1, <2>2, EmptySeq DEF Continues
    <2>3. CASE line[c] < Len(Lines(c)) /\ line' = [line EXCEPT ![c] = @ + 1] /\ UNCHANGED page
               /\ toSend' = [toSend EXCEPT ![c] = NewLine(c, line[c] + 1)]
      <3>1. page'[c] = "send" /\ line'[c] = line[c] + 1 /\ toSend'[c] = NewLine(c, line[c] + 1)
        BY <1>3, <1>5, <2>3
      <3>2. w \o toServer'[c] \in Seq(Tokens) /\ (w \o toServer'[c]) \o << >> = w \o toServer'[c]
        <4>1. toServer'[c] \in Seq(Tokens)
          BY <1>3, <1>5
        <4> QED  BY <4>1, ConcatProperties, ConcatEmptySeq
      <3>3. line[c] \in Nat /\ Spells(c, w \o toServer'[c], k, line[c]) /\ k <= line[c]
        BY <1>1, <2>1, <3>2
      <3>4. Spells(c, (w \o toServer'[c]) \o NewLine(c, line[c] + 1), k, line[c] + 1)
        BY <1>1, <2>3, <3>2, <3>3, SpellsMore
      <3>5. line[c] + 1 \in k..Len(Lines(c)) /\ NewLine(c, line[c] + 1) \in Seq(Tokens)
        BY SMTT(40), <1>1, <2>3, <3>3, NewLineType
      <3> QED  BY <3>1, <3>4, <3>5 DEF Continues
    <2>4. \/ page'[c] = "gone" \/ (page'[c] = "recv" /\ toSend'[c] = << >> /\ line' = line)
          \/ /\ line[c] < Len(Lines(c)) /\ line' = [line EXCEPT ![c] = @ + 1] /\ UNCHANGED page
             /\ toSend' = [toSend EXCEPT ![c] = NewLine(c, line[c] + 1)]
      BY <1>5 DEF SendLast
    <2> QED  BY <2>2, <2>3, <2>4
  <1>6. CASE Recv(c)
    <2>1. page[c] = "recv" /\ r = << >> /\ toServer' = toServer
      BY <1>6 DEF Recv
    <2>2. CASE Head(toClient[c]).row = 0 /\ Head(toClient[c]).end
      <3>1. page'[c] = "send" /\ line'[c] = line[c] + 1 /\ toSend'[c] = NewLine(c, line[c] + 1)
            /\ line[c] < Len(Lines(c))
        BY <1>6, <2>1, <2>2 DEF Recv, PagesKeep
      <3>2. w \o s \in Seq(Tokens) /\ (w \o s) \o << >> = w \o s
        BY <1>1, ConcatProperties, ConcatEmptySeq
      <3>3. line[c] \in Nat /\ Spells(c, w \o s, k, line[c]) /\ k <= line[c]
        BY <1>1, <1>2, <2>1, <3>2
      <3>4. Spells(c, (w \o s) \o NewLine(c, line[c] + 1), k, line[c] + 1)
        BY <1>1, <3>1, <3>2, <3>3, SpellsMore
      <3>5. line[c] + 1 \in k..Len(Lines(c)) /\ NewLine(c, line[c] + 1) \in Seq(Tokens)
        BY SMTT(40), <1>1, <3>1, <3>3, NewLineType
      <3> QED  BY <2>1, <3>1, <3>4, <3>5 DEF Continues
    <2>3. CASE ~(Head(toClient[c]).row = 0 /\ Head(toClient[c]).end)
      <3>1. UNCHANGED <<page, line, toSend>>
        BY <1>6, <2>3 DEF Recv, pageVars
      <3> QED  BY <1>2, <2>1, <3>1 DEF Continues
    <2> QED  BY <2>2, <2>3
  <1>7. CASE Leave(c)
    <2>1. page'[c] = "gone" /\ toServer' = toServer
      BY <1>7 DEF Leave
    <2> QED  BY <1>2, <2>1 DEF Continues
  <1>8. ~Connect(c)
    BY DEF Connect
  <1> QED  BY <1>4, <1>5, <1>6, <1>7, <1>8 DEF Client

LEMMA ClientKeepsArrival ==
  ASSUME IInv, DInv, Arrival, NEW c \in Clients, Client(c)
  PROVE  Arrival'
  <1>1. /\ UNCHANGED <<worker, conns, serveVars, readBuf, owner, clean, done>>
    BY ServerUnchanged
  <1>2. /\ \A b \in Clients \ {c} : /\ toServer'[b] = toServer[b] /\ toSend'[b] = toSend[b]
                                    /\ line'[b] = line[b] /\ page'[b] = page[b]
                                    /\ b \in backlog' <=> b \in backlog
        /\ page[c] # "new" => backlog' = backlog
        /\ page[c] = "new" => Connect(c)
    BY SMTT(30) DEF Client, Connect, SendPart, SendLast, Recv, Leave, pageVars, IInv, TypesOK, DInv, Types, TypePages
  <1>3. \A b \in Clients : b # c \/ page[c] # "new" => Held(b)' = Held(b)
    BY <1>1, <1>2 DEF Held, Serving, Rest, Connection, serveVars
  <1>4. ASSUME NEW b \in Clients, b # c
        PROVE  /\ page'[b] = "new" => line'[b] = 1
               /\ page'[b] = "recv" => toSend'[b] = << >>
               /\ clean'[b] \/ b \in backlog' =>
                    /\ Len(done'[b]) <= Len(Lines(b)) /\ \A i \in 1..Len(done'[b]) : done'[b][i] = Lines(b)[i]
                    /\ \A w \in Held(b)' : Flows(b, w \o toServer[b])'
    BY <1>1, <1>2, <1>3, <1>4 DEF Arrival, Flows
  <1>5. CASE page[c] # "new"
    <2>1. page'[c] # "new"
      BY <1>5 DEF Client, SendPart, SendLast, Recv, Leave, Connect, pageVars, IInv, TypesOK
    <2>2. ASSUME clean[c] \/ c \in backlog, NEW w \in Held(c)
          PROVE  Continues(c, w \o toServer'[c], Len(done[c]), page'[c], toSend'[c], line'[c])
      <3>1. Flows(c, w \o toServer[c]) /\ Len(done[c]) <= Len(Lines(c)) /\ w \in Seq(Tokens)
            /\ (page[c] = "recv" => toSend[c] = << >>)
        BY <2>2, HeldType DEF Arrival
      <3> QED  BY <1>5, <3>1, ClientContinues
    <2>4. page'[c] = "recv" => toSend'[c] = << >>
      BY <1>5 DEF Arrival, Client, Connect, SendPart, SendLast, Recv, Leave, pageVars, IInv, TypesOK, DInv,
                  Types, TypePages
    <2>3. clean'[c] \/ c \in backlog' =>
            /\ Len(done'[c]) <= Len(Lines(c)) /\ \A i \in 1..Len(done'[c]) : done'[c][i] = Lines(c)[i]
            /\ \A w \in Held(c)' : Flows(c, w \o toServer[c])'
      BY <1>1, <1>2, <1>3, <1>5, <2>2 DEF Arrival, Flows
    <2> QED  BY <1>4, <2>1, <2>3, <2>4 DEF Arrival
  <1>6. CASE page[c] = "new"
    <2>1. /\ done'[c] = << >> /\ ~clean'[c] /\ toServer'[c] = << >> /\ c \in backlog'
          /\ page'[c] = "send" /\ line'[c] = 1 /\ toSend'[c] = NewLine(c, 1)
      BY <1>1, <1>2, <1>6 DEF Arrival, Connect, DInv, PagesKeep, IInv, TypesOK, Types, TypePages
    <2>2. /\ NewLine(c, 1) \in Seq(Tokens) /\ Len(Lines(c)) \in Nat \ {0}
      BY NewLineType, LineFunction
    <2>3. Spells(c, << >> \o NewLine(c, 1), 0, 1)
      <3>1. ASSUME NEW z \in Nat, z = 0 PROVE Spells(c, << >> \o NewLine(c, z + 1), z, z + 1)
        <4>1. Spells(c, << >>, z, z)
          BY SpellsNone
        <4>2. << >> \in Seq(Tokens) /\ z <= z /\ z < Len(Lines(c))
          BY <2>2, <3>1, EmptySeq
        <4> QED  BY <4>1, <4>2, SpellsMore
      <3>2. PICK z \in Nat : z = 0
        OBVIOUS
      <3>3. z + 1 = 1
        BY <3>2
      <3> QED  BY <3>1, <3>2, <3>3
    <2>4. Continues(c, << >>, 0, "send", NewLine(c, 1), 1)
      BY <2>2, <2>3 DEF Continues
    <2>5. Held(c)' = {<< >>} /\ Len(done'[c]) = 0
      BY <2>1 DEF Held
    <2>6. << >> \o toServer'[c] = << >>
      BY <2>1
    <2>7. /\ Len(done'[c]) <= Len(Lines(c)) /\ \A i \in 1..Len(done'[c]) : done'[c][i] = Lines(c)[i]
          /\ \A w \in Held(c)' : Flows(c, w \o toServer[c])'
      BY <2>1, <2>2, <2>4, <2>5, <2>6 DEF Flows
    <2> QED  BY <1>4, <2>1, <2>7 DEF Arrival
  <1> QED  BY <1>5, <1>6

\* Connections are closed or given to others: what is held of the lines of a client can only be lost.
LEMMA MainKeepsArrival ==
  ASSUME IInv, DInv, Arrival, Main \/ OtherOpens
  PROVE  Arrival'
  <1>1. /\ UNCHANGED LineState /\ UNCHANGED <<clean, readBuf, cur, pos, serving>>
        /\ backlog' \subseteq backlog
        /\ worker' = worker \/ {worker, worker'} \cap {"lines", "write"} = {}
    BY DEF Main, OtherOpens, CreateSocket, CreateFails, PipeFails, StopWorker, Shutdown, elsewhere, workerOnly,
           clientOnly, serveVars, pageVars, histVars, kernelVars, LineState, IInv, DownIsEmpty
  <1>2. \A fd \in Fds : owner'[fd] = owner[fd] \/ owner'[fd] \in {"free", "listen", "pipe", "other"}
    <2>1. CASE OtherOpens
      BY <2>1 DEF OtherOpens, IInv, TypesOK
    <2>2. CASE CreateSocket \/ CreateFails \/ PipeFails \/ StopWorker
      BY <2>2 DEF CreateSocket, CreateFails, PipeFails, StopWorker, IInv, TypesOK
    <2>3. CASE Shutdown
      BY <2>3 DEF Shutdown, CloseFds
    <2> QED  BY <2>1, <2>2, <2>3 DEF Main
  <1>3. \A c \in Clients : Connection(c)' \subseteq Connection(c) /\ (Serving(c)' <=> Serving(c))
    <2>1. \A c \in Clients : Connection(c)' \subseteq Connection(c)
      BY <1>2, Roles DEF Connection
    <2> QED  BY <1>1, <2>1 DEF Serving
  <1>4. ASSUME NEW c \in Clients, clean'[c] \/ c \in backlog'
        PROVE  (clean[c] \/ c \in backlog) /\ Held(c)' \subseteq Held(c)
    <2>1. clean[c] => c \notin backlog
      BY DEF DInv, PagesKeep
    <2> QED  BY <1>1, <1>3, <1>4, <2>1 DEF Held, Rest
  <1> QED  BY <1>1, <1>4, StillKeepsArrival

\* The worker accepts a connection, whose descriptor may have left something behind.
LEMMA PassKeepsArrival ==
  ASSUME IInv, DInv, Arrival, AcceptNewConnection \/ AcceptNothing \/ PassEnds \/ ResumeWrite
  PROVE  Arrival'
  <1>1. /\ UNCHANGED LineState /\ readBuf' = readBuf /\ worker \notin {"lines", "write"}
        /\ worker' \notin {"lines", "write"} \/ serving' \notin Clients
    BY Roles DEF AcceptNewConnection, AcceptNothing, Select, PassEnds, ResumeWrite, pageVars, histVars,
                 kernelVars, LineState
  <1>2. \A c \in Clients : ~Serving(c) /\ ~Serving(c)'
    BY <1>1 DEF Serving
  <1>3. CASE AcceptNewConnection
    <2>1. PICK fd \in Fds, c \in backlog :
            /\ owner[fd] = "free" /\ owner' = [owner EXCEPT ![fd] = c] /\ backlog' = backlog \ {c}
            /\ clean' = [clean EXCEPT ![c] = readBuf[fd] = << >>]
      BY <1>3 DEF AcceptNewConnection, Free
    <2>2. c \in Clients /\ Connection(c) = {} /\ \A g \in Fds : owner'[g] = IF g = fd THEN c ELSE owner[g]
      BY <2>1 DEF IInv, TypesOK, OnePlace
    <2>3. ASSUME NEW b \in Clients, b # c, clean'[b] \/ b \in backlog'
          PROVE  (clean[b] \/ b \in backlog) /\ Held(b)' \subseteq Held(b)
      <3>1. Connection(b)' = Connection(b) /\ (b \in backlog' <=> b \in backlog) /\ clean'[b] = clean[b]
        BY <2>1, <2>2, <2>3, Roles DEF Connection, DInv, Types, TypeHistory
      <3> QED  BY <1>1, <1>2, <2>3, <3>1 DEF Held
    <2>4. ASSUME clean'[c] \/ c \in backlog'
          PROVE  (clean[c] \/ c \in backlog) /\ Held(c)' \subseteq Held(c)
      <3>1. c \notin backlog' /\ clean'[c] = (readBuf[fd] = << >>)
        BY <2>1, <2>2 DEF DInv, Types, TypeHistory
      <3>2. Connection(c)' = {fd}
        BY <2>1, <2>2 DEF Connection
      <3>3. Held(c)' = {<< >>} /\ Held(c) = {<< >>}
        <4>1. readBuf'[fd] = << >>
          BY <1>1, <2>4, <3>1
        <4>2. Held(c)' = {readBuf'[g] : g \in Connection(c)'}
          BY <1>2, <2>2, <3>1 DEF Held
        <4>3. Held(c) = {<< >>}
          BY <2>1 DEF Held
        <4> QED  BY <3>2, <4>1, <4>2, <4>3
      <3> QED  BY <2>1, <3>3
    <2> QED  BY <1>1, <2>3, <2>4, StillKeepsArrival
  <1>4. CASE AcceptNothing \/ PassEnds \/ ResumeWrite
    <2>1. UNCHANGED <<owner, clean, backlog>>
      BY <1>4 DEF AcceptNothing, PassEnds, ResumeWrite, histVars, kernelVars
    <2>2. \A c \in Clients : Held(c)' = Held(c)
      BY <1>1, <1>2, <2>1 DEF Held, Connection
    <2> QED  BY <1>1, <2>1, <2>2, StillKeepsArrival
  <1> QED  BY <1>3, <1>4

\* The worker ends a connection or its lines, or writes.
LEMMA WorkerKeepsArrival ==
  ASSUME IInv, DInv, Arrival,
         ReadEof \/ LinesEnd \/ LineTooLong \/ Write \/ WriteFails \/ WriteElsewhere
  PROVE  Arrival'
  <1>1. /\ UNCHANGED LineState /\ UNCHANGED <<clean, backlog, cur, pos, serving>>
        /\ \A fd \in Fds : owner'[fd] = owner[fd] \/ owner'[fd] = "free"
    BY DEF ReadEof, LinesEnd, LineTooLong, Write, WriteFails, WriteElsewhere, CloseConn, CloseFds, StaysOpen, serveVars,
           pageVars, histVars, kernelVars, writeOnly, LineState
  <1>2. \A c \in Clients : Connection(c)' \subseteq Connection(c)
    BY <1>1, Roles DEF Connection
  <1>3. CASE ReadEof
    <2>1. worker = "conns" /\ worker' = "conns" /\ readBuf' = readBuf
      BY <1>3 DEF ReadEof
    <2>2. \A c \in Clients : Held(c)' \subseteq Held(c)
      BY <1>1, <1>2, <2>1 DEF Held, Serving
    <2> QED  BY <1>1, <2>2, StillKeepsArrival
  <1>4. CASE Write \/ WriteFails \/ WriteElsewhere
    <2>1. worker = "write" /\ cur \in Fds /\ readBuf' = readBuf
      BY <1>4 DEF Write, WriteFails, WriteElsewhere, writeOnly, IInv, ServesCur
    <2>2. worker' \in {"write", "lines"} \/ (worker' = "conns" /\ serving = "free")
      BY <1>4, <2>1 DEF Write, WriteFails, WriteElsewhere, Written, WriteData
    <2>3. \A c \in Clients : Serving(c)' <=> Serving(c)
      BY <1>1, <2>1, <2>2, Roles DEF Serving
    <2>4. \A c \in Clients : Held(c)' \subseteq Held(c)
      BY <1>1, <1>2, <2>1, <2>3 DEF Held, Rest
    <2> QED  BY <1>1, <2>4, StillKeepsArrival
  <1>5. CASE LinesEnd \/ LineTooLong
    <2>1. worker = "lines" /\ worker' = "conns" /\ cur \in Fds
      BY <1>5 DEF LinesEnd, LineTooLong, IInv, ServesCur
    <2>2. ASSUME NEW c \in Clients, ~Serving(c) PROVE Held(c)' \subseteq Held(c)
      <3>1. c # serving /\ serving \in Clients
        BY <2>1, <2>2 DEF Serving, DInv, PlaceInLines
      <3>2. owner[cur] # c
        BY <2>1, <3>1, Roles DEF Serving, DInv, ServedOnce
      <3>3. CASE LineTooLong
        <4>1. readBuf' = readBuf
          BY <3>3 DEF LineTooLong
        <4> QED  BY <1>1, <1>2, <2>1, <2>2, <4>1 DEF Held, Serving
      <3>4. CASE LinesEnd
        <4>1. \A fd \in Fds : fd # cur => readBuf'[fd] = readBuf[fd]
          BY <3>4 DEF LinesEnd, DInv, Types, TypeBuffers
        <4>2. cur \notin Connection(c)
          BY <3>2 DEF Connection
        <4> QED  BY <1>1, <1>2, <2>1, <2>2, <4>1, <4>2 DEF Held, Serving, Connection
      <3> QED  BY <1>5, <3>3, <3>4
    <2>3. ASSUME NEW c \in Clients, Serving(c), c \notin backlog PROVE Held(c)' \subseteq Held(c)
      <3>1. c = serving /\ Held(c) = {Rest}
        BY <2>3 DEF Held, Serving
      <3>2. Connection(c) \subseteq {cur}
        BY <2>1, <2>3 DEF DInv, ServedOnce, IInv, ConnsOwned, Connection
      <3>3. CASE LineTooLong
        <4>1. owner'[cur] = "free"
          BY <2>1, <3>3 DEF LineTooLong, CloseConn, CloseFds
        <4>2. Connection(c)' = {}
          BY <1>2, <3>2, <4>1, Roles DEF Connection
        <4> QED  BY <1>1, <2>1, <2>3, <4>2 DEF Held, Serving
      <3>4. CASE LinesEnd
        <4>1. readBuf'[cur] = Rest
          BY <2>1, <3>4 DEF LinesEnd, DInv, Types, TypeBuffers
        <4>2. Held(c)' = {readBuf'[fd] : fd \in Connection(c)'}
          BY <1>1, <2>1, <2>3 DEF Held, Serving
        <4>3. Connection(c)' \subseteq {cur}
          BY <1>2, <3>2
        <4> QED  BY <3>1, <4>1, <4>2, <4>3
      <3> QED  BY <1>5, <3>3, <3>4
    <2>4. \A c \in Clients : Serving(c) => c \notin backlog
      BY DEF DInv, ServedOnce
    <2>5. \A c \in Clients : Held(c)' \subseteq Held(c)
      BY <2>2, <2>3, <2>4
    <2> QED  BY <1>1, <2>5, StillKeepsArrival
  <1> QED  BY <1>3, <1>4, <1>5

\* What has been sent is read into the buffer of the connection, whose lines are looked at next.
LEMMA ReadInputKeepsArrival ==
  ASSUME IInv, DInv, Arrival, ReadInput
  PROVE  Arrival'
  <1> USE DEF DInv, Types
  <1>1. PICK fd \in readSet \ writeSet :
          /\ readBuf' = [readBuf EXCEPT ![fd] = @ \o toServer[owner[fd]]]
          /\ toServer' = [toServer EXCEPT ![owner[fd]] = << >>]
          /\ cur' = fd /\ serving' = owner[fd]
    BY DEF ReadInput
  <1>2. /\ worker = "conns" /\ worker' = "lines" /\ pos' = 0
        /\ UNCHANGED <<owner, backlog, page, line, toSend, clean, done>>
    BY DEF ReadInput, pageVars, histVars
  <1>3. fd \in Fds /\ owner[fd] \in Clients /\ owner[fd] \notin backlog
    BY <1>2 DEF IInv, ServesConns, ConnsOwned, OnePlace, Connection
  <1> DEFINE c == owner[fd]
             w == readBuf[fd] \o toServer[c]
  <1>4. readBuf[fd] \in Seq(Tokens) /\ toServer[c] \in Seq(Tokens) /\ w \in Seq(Tokens)
    BY <1>3, ConcatProperties DEF TypeBuffers, TypePages
  <1>5. readBuf'[fd] = w /\ toServer'[c] = << >>
    BY <1>1, <1>3 DEF TypeBuffers, TypePages
  <1>6. ASSUME NEW b \in Clients, b # c
        PROVE  Held(b)' \subseteq Held(b) /\ toServer'[b] = toServer[b]
    <2>1. \A g \in Connection(b) : readBuf'[g] = readBuf[g]
      BY <1>1, <1>6 DEF Connection, TypeBuffers
    <2>2. ~Serving(b) /\ ~Serving(b)' /\ Connection(b)' = Connection(b)
      BY <1>1, <1>2, <1>6 DEF Serving, Connection
    <2> QED  BY <1>1, <1>2, <1>3, <1>6, <2>1, <2>2 DEF Held, TypePages
  <1>7. Held(c)' = {w}
    <2>1. Held(c)' = {Rest'}
      BY <1>1, <1>2, <1>3 DEF Held, Serving
    <2>2. Rest' = SubSeq(w, 0 + 1, Len(w))
      BY <1>1, <1>2, <1>5 DEF Rest
    <2> HIDE DEF w
    <2>3. SubSeq(w, 0 + 1, Len(w)) = w
      BY <1>4, SubSeqFull
    <2> QED  BY <2>1, <2>2, <2>3
  <1>8. readBuf[fd] \in Held(c)
    BY <1>2, <1>3 DEF Held, Serving, Connection
  <1>9. w \o toServer'[c] = w
    BY <1>4, <1>5, ConcatEmptySeq
  <1> HIDE DEF w
  <1>10. ASSUME NEW b \in Clients, clean'[b] \/ b \in backlog'
         PROVE  /\ Len(done'[b]) <= Len(Lines(b)) /\ \A i \in 1..Len(done'[b]) : done'[b][i] = Lines(b)[i]
                /\ \A u \in Held(b)' : Flows(b, u \o toServer[b])'
    <2>1. \A u \in Held(b)' : Flows(b, u \o toServer[b])'
      <3>1. CASE b # c
        BY <1>2, <1>6, <1>10, <3>1 DEF Arrival, Flows
      <3>2. CASE b = c
        <4>1. Flows(c, readBuf[fd] \o toServer[c])
          BY <1>2, <1>8, <1>10, <3>2 DEF Arrival
        <4>2. Flows(c, w)
          BY <4>1 DEF w
        <4> QED  BY <1>2, <1>7, <1>9, <3>2, <4>2 DEF Flows
      <3> QED  BY <3>1, <3>2
    <2> QED  BY <1>2, <1>10, <2>1 DEF Arrival
  <1>11. \A b \in Clients : (page'[b] = "new" => line'[b] = 1) /\ (page'[b] = "recv" => toSend'[b] = << >>)
    BY <1>2 DEF Arrival
  <1> QED  BY <1>10, <1>11 DEF Arrival

\* The line that is executed is the next one of its client, and the rest continues after it.
LEMMA LineTaken ==
  ASSUME IInv, DInv, Arrival, worker = "lines", LineEnds # {}, NEW c \in Clients, c = serving, clean[c],
         NEW h \in Nat, h = Len(done[c]) + 1
  PROVE  /\ h <= Len(Lines(c)) /\ NextLine = Lines(c)[h]
         /\ Continues(c, SubSeq(Rest, LineEnd + 1, Len(Rest)) \o toServer[c], h, page[c], toSend[c], line[c])
  <1>1. PICK r \in Seq(Tokens), s \in Seq(Tokens), k \in Nat, e \in Nat :
          /\ r = Rest /\ s = toServer[c] /\ k = Len(done[c]) /\ e = LineEnd
          /\ e \in 1..Len(r) /\ r[e] = NL /\ \A i \in 1..(e - 1) : r[i] # NL
    <2>1. Rest \in Seq(Tokens) /\ toServer[c] \in Seq(Tokens) /\ Len(done[c]) \in Nat
      BY RestType, Roles, LenProperties DEF DInv, PlaceInLines, Types, TypePages, TypeHistory
    <2>2. LineEnd \in 1..Len(Rest) /\ Rest[LineEnd] = NL /\ \A i \in 1..(LineEnd - 1) : Rest[i] # NL
      BY NextLineType
    <2> QED  BY <2>1, <2>2
  <1>2. NextLine = SubSeq(r, 1, e - 1)
    BY <1>1, NextLineType
  <1>3. Flows(c, r \o s)
    BY <1>1 DEF Arrival, Held, Serving, DInv, ServedOnce
  <1>4. PICK m \in k..Len(Lines(c)), x \in Seq(Tokens) :
          /\ Spells(c, Three(r, s, x), k, m)
          /\ page[c] \in {"send", "recv"} => x = toSend[c] /\ m = line[c]
    BY <1>1, <1>3 DEF Flows, Continues, Three
  <1>5. m \in Nat /\ k <= m /\ m <= Len(Lines(c)) /\ Len(Lines(c)) \in Nat
    BY <1>4, LineFunction
  <1>6. /\ k < m /\ Before(r, e) = Lines(c)[h]
        /\ Spells(c, Three(After(r, e), s, x), h, m)
    <2>1. h = k + 1 /\ e \in 1..Len(r)
      BY <1>1
    <2> QED  BY SMTT(40), <1>1, <1>4, <1>5, <2>1, SpellsFirstArrived
  <1>7. m \in h..Len(Lines(c))
    BY <1>1, <1>5, <1>6
  <1>8. Continues(c, After(r, e) \o s, h, page[c], toSend[c], line[c])
    BY <1>4, <1>6, <1>7 DEF Continues, Three
  <1>9. After(r, e) = SubSeq(Rest, LineEnd + 1, Len(Rest)) /\ NextLine = Before(r, e)
    BY <1>1, <1>2 DEF After, Before
  <1> QED  BY <1>1, <1>5, <1>6, <1>7, <1>8, <1>9

LEMMA LinesKeepArrival ==
  ASSUME IInv, DInv, Arrival, ExecuteCmd \/ CmdClose
  PROVE  Arrival'
  <1>0. PICK c \in Clients : c = serving
    BY DEF ExecuteCmd, CmdClose, DInv, PlaceInLines
  <1> DEFINE h == Len(done[c]) + 1
  <1>1. /\ worker = "lines" /\ LineEnds # {} /\ Consume /\ done' = [done EXCEPT ![serving] = Append(@, NextLine)]
        /\ worker' \in {"lines", "write"}
        /\ UNCHANGED <<cur, serving, readBuf, page, line, toSend, toServer, clean, backlog>>
        /\ \A fd \in Fds : owner'[fd] = owner[fd] \/ owner'[fd] = "free"
    BY DEF ExecuteCmd, CmdClose, CloseConn, CloseFds, WriteData, kernelVars, pageVars
  <1>2. /\ c = serving /\ pos \in 0..Len(readBuf[cur]) /\ Len(readBuf[cur]) \in Nat
        /\ readBuf[cur] \in Seq(Tokens) /\ c \notin backlog
        /\ LineEnd \in 1..Len(Rest) /\ NextLine \in Seq(Tokens) /\ done[c] \in Seq(Seq(Tokens))
        /\ Len(Rest) = Len(readBuf[cur]) - pos
    BY <1>0, <1>1, RestType, NextLineType, Roles, LenProperties
       DEF DInv, PlaceInLines, ServedOnce, Serving, Types, TypeHistory
  <1>3. /\ pos' = pos + LineEnd
        /\ \A b \in Clients : done'[b] = IF b = c THEN Append(done[c], NextLine) ELSE done[b]
    BY <1>1, <1>2 DEF Consume, DInv, Types, TypeHistory
  <1>4. Held(c)' = {SubSeq(Rest, LineEnd + 1, Len(Rest))}
    <2>1. Held(c)' = {Rest'}
      BY <1>1, <1>2 DEF Held, Serving
    <2>2. Rest' = SubSeq(readBuf[cur], (pos + LineEnd) + 1, Len(readBuf[cur]))
      BY <1>1, <1>3 DEF Rest
    <2>3. PICK f \in 0..Len(readBuf[cur]), p \in pos..Len(readBuf[cur]), q \in pos..Len(readBuf[cur]) :
            f = pos /\ p = pos + LineEnd /\ q = Len(readBuf[cur])
      BY <1>2
    <2>4. SubSeq(SubSeq(readBuf[cur], f + 1, Len(readBuf[cur])), (p - f) + 1, q - f) = SubSeq(readBuf[cur], p + 1, q)
      BY <1>2, <2>3, SubSeqOfSuffix
    <2>5. p - f = LineEnd /\ q - f = Len(Rest)
      BY <1>2, <2>3
    <2>6. SubSeq(Rest, LineEnd + 1, Len(Rest)) = SubSeq(readBuf[cur], p + 1, q)
      BY <2>3, <2>4, <2>5 DEF Rest
    <2> QED  BY <2>1, <2>2, <2>3, <2>6
  <1>5. ASSUME clean[c]
        PROVE  /\ Len(done'[c]) <= Len(Lines(c)) /\ \A i \in 1..Len(done'[c]) : done'[c][i] = Lines(c)[i]
               /\ \A w \in Held(c)' : Flows(c, w \o toServer[c])'
    <2>1. /\ Len(done[c]) < Len(Lines(c)) /\ NextLine = Lines(c)[h]
          /\ Continues(c, SubSeq(Rest, LineEnd + 1, Len(Rest)) \o toServer[c], h, page[c], toSend[c], line[c])
      <3>1. h \in Nat
        BY <1>2, LenProperties
      <3> HIDE DEF h
      <3>2. h <= Len(Lines(c)) /\ NextLine = Lines(c)[h]
            /\ Continues(c, SubSeq(Rest, LineEnd + 1, Len(Rest)) \o toServer[c], h, page[c], toSend[c], line[c])
        BY <1>1, <1>2, <1>5, <3>1, LineTaken DEF h
      <3> QED  BY <1>2, <3>2, LineFunction, LenProperties DEF h
    <2>2. /\ Len(done[c]) \in Nat /\ Len(Lines(c)) \in Nat
          /\ Len(Append(done[c], NextLine)) = h /\ Append(done[c], NextLine)[h] = NextLine
          /\ \A i \in 1..Len(done[c]) : Append(done[c], NextLine)[i] = done[c][i]
      BY <1>2, LineFunction, LenProperties, AppendProperties
    <2>3. \A i \in 1..Len(done[c]) : done[c][i] = Lines(c)[i]
      BY <1>2, <1>5 DEF Arrival
    <2>4. done'[c] = Append(done[c], NextLine)
      BY <1>2, <1>3
    <2>5. Len(done'[c]) = h /\ h <= Len(Lines(c))
      BY <2>1, <2>2, <2>4
    <2>6. \A i \in 1..Len(done'[c]) : done'[c][i] = Lines(c)[i]
      <3> SUFFICES ASSUME NEW i \in 1..h PROVE done'[c][i] = Lines(c)[i]
        BY <2>5
      <3>1. CASE i = h
        BY <2>1, <2>2, <2>4, <3>1
      <3>2. CASE i \in 1..Len(done[c])
        BY <2>2, <2>3, <2>4, <3>2
      <3> QED  BY <2>2, <3>1, <3>2
    <2>7. \A w \in Held(c)' : Flows(c, w \o toServer[c])'
      BY <1>1, <1>4, <2>1, <2>5 DEF Flows
    <2> QED  BY <2>5, <2>6, <2>7
  <1>6. ASSUME NEW b \in Clients, b # c, clean'[b] \/ b \in backlog'
        PROVE  /\ Len(done'[b]) <= Len(Lines(b)) /\ \A i \in 1..Len(done'[b]) : done'[b][i] = Lines(b)[i]
               /\ \A w \in Held(b)' : Flows(b, w \o toServer[b])'
    <2>1. Connection(b)' \subseteq Connection(b) /\ ~Serving(b) /\ ~Serving(b)'
      BY <1>1, <1>2, <1>6, Roles DEF Connection, Serving
    <2>2. Held(b)' \subseteq Held(b)
      BY <1>1, <2>1 DEF Held
    <2>3. done'[b] = done[b]
      BY <1>3, <1>6
    <2> QED  BY <1>1, <1>6, <2>2, <2>3 DEF Arrival, Flows
  <1>7. \A b \in Clients : (page'[b] = "new" => line'[b] = 1) /\ (page'[b] = "recv" => toSend'[b] = << >>)
    BY <1>1 DEF Arrival
  <1>8. c \notin backlog' /\ clean' = clean
    BY <1>1, <1>2
  <1>9. ASSUME NEW b \in Clients, clean'[b] \/ b \in backlog'
        PROVE  /\ Len(done'[b]) <= Len(Lines(b)) /\ \A i \in 1..Len(done'[b]) : done'[b][i] = Lines(b)[i]
               /\ \A w \in Held(b)' : Flows(b, w \o toServer[b])'
    <2>1. CASE b = c
      BY <1>5, <1>8, <1>9, <2>1
    <2>2. CASE b # c
      BY <1>6, <1>9, <2>2
    <2> QED  BY <2>1, <2>2
  <1> QED  BY <1>7, <1>9 DEF Arrival

LEMMA NextKeepsArrival == IInv /\ DInv /\ Arrival /\ [Next]_vars => Arrival'
  <1> SUFFICES ASSUME IInv, DInv, Arrival, [Next]_vars PROVE Arrival'
    OBVIOUS
  <1>1. CASE UNCHANGED vars
    <2>1. UNCHANGED LineState /\ UNCHANGED <<clean, backlog, worker, serving, cur, pos, readBuf, owner>>
      BY <1>1 DEF vars, kernelVars, pageVars, histVars, serveVars, LineState
    <2>2. \A c \in Clients : Held(c)' = Held(c)
      BY <2>1 DEF Held, Serving, Rest, Connection
    <2> QED  BY <2>1, <2>2, StillKeepsArrival
  <1>2. CASE Main \/ OtherOpens
    BY <1>2, MainKeepsArrival
  <1>3. CASE Worker
    BY <1>3, PassKeepsArrival, ReadInputKeepsArrival, WorkerKeepsArrival, LinesKeepArrival DEF Worker
  <1>4. CASE \E c \in Clients : Client(c)
    BY <1>4, ClientKeepsArrival
  <1> QED  BY <1>1, <1>2, <1>3, <1>4 DEF Next

\* However their bytes arrive, lines are executed once each, in order and as they were sent.
THEOREM LinesInOrder == Spec => []ExecutedInOrder
  <1>1. Init => IInv /\ DInv /\ Arrival
    BY InitIInv, InitDInv, InitArrival
  <1>2. IInv /\ DInv /\ Arrival /\ [Next]_vars => IInv' /\ DInv' /\ Arrival'
    BY NextKeeps, NextKeepsData, NextKeepsArrival
  <1>3. IInv /\ DInv /\ Arrival => ExecutedInOrder
    BY ArrivalInOrder
  <1> QED  BY <1>1, <1>2, <1>3, PTL DEF Spec

-----------------------------------------------------------------------------
(* What the clients read: the answers to their own lines, row by row and    *)
(* without a gap, however little a write() moves.                           *)
(*                                                                          *)
(* Three things make it inductive: what has been read, what the kernel      *)
(* holds and what write_buffers holds of an open connection are all that    *)
(* was passed to write_data() for it; the pieces passed follow one another  *)
(* like the rows of the answers; and while a line is answered, the rows     *)
(* that are left are those after the last piece passed.                     *)

-----------------------------------------------------------------------------
(* Pieces that follow one another, for the lines d executed so far. *)

RowAt(l, k) == IF k <= Rows(l) THEN k ELSE 0
StartOf(i, r) == [of |-> i, row |-> r, end |-> FALSE]
EndOf(i, r) == [of |-> i, row |-> r, end |-> TRUE]
FirstIn(d, i) == StartOf(i, RowAt(d[i], 1))
NextIn(d, p) ==
  IF ~p.end THEN EndOf(p.of, p.row)
  ELSE IF p.row = 0 THEN FirstIn(d, p.of + 1)
  ELSE StartOf(p.of, RowAt(d[p.of], p.row + 1))
Following(o, d) ==
  \A i \in 1..Len(o) : /\ o[i].of \in 1..Len(d)
                       /\ o[i] = IF i = 1 THEN FirstIn(d, 1) ELSE NextIn(d, o[i - 1])

\* The rows of the answer to l, the line n of a client, that are left after k of them.
Left(rows, n, l, k) ==
  /\ Len(rows) = Rows(l) + 1 - k
  /\ \A j \in 1..Len(rows) : rows[j] = Row(n, RowAt(l, k + j))

LEMMA RowsType == ASSUME NEW l \in Seq(Tokens) PROVE Rows(l) \in Nat
  <1>1. CommandOf(l) \in Commands \cup {NL}
    BY DEF CommandOf
  <1> QED  BY <1>1, RemoteAssumption DEF Rows

LEMMA RowIsTwo ==
  ASSUME NEW i \in Nat, NEW r \in Nat
  PROVE  Row(i, r) = <<StartOf(i, r), EndOf(i, r)>> /\ StartOf(i, r) \in Pieces /\ EndOf(i, r) \in Pieces
  BY DEF Row, StartOf, EndOf, Pieces

\* These are the pieces that AnswersInOrder speaks of.
LEMMA PiecesNamed ==
  ASSUME NEW c \in Clients, done[c] \in Seq(Seq(Tokens))
  PROVE  /\ \A i \in 1..Len(done[c]) : FirstPiece(c, i) = FirstIn(done[c], i)
         /\ \A p \in Pieces : (p.of \in 1..Len(done[c])) /\ (p.end /\ p.row = 0 => p.of + 1 \in 1..Len(done[c])) =>
              NextPiece(c, p) = NextIn(done[c], p)
  <1> DEFINE d == done[c]
  <1>0. Len(d) \in Nat /\ \A i \in 1..Len(d) : d[i] \in Seq(Tokens)
    BY LenProperties, ElementOfSeq
  <1>1. ASSUME NEW i \in 1..Len(d) PROVE FirstPiece(c, i) = FirstIn(d, i)
    <2>1. d[i] \in Seq(Tokens) /\ i \in Nat
      BY <1>0
    <2>2. Answer(i, d[i])[1] = Row(i, IF 1 <= Rows(d[i]) THEN 1 ELSE 0) /\ Rows(d[i]) \in Nat
      <3> DEFINE l == d[i]
      <3> HIDE DEF l
      <3>1. l \in Seq(Tokens)
        BY <2>1 DEF l
      <3>2. Rows(l) \in Nat /\ \A n \in 1..(Rows(l) + 1) : Answer(i, l)[n] = Row(i, IF n <= Rows(l) THEN n ELSE 0)
        BY <2>1, <3>1, AnswerType
      <3>3. 1 \in 1..(Rows(l) + 1)
        BY <3>2
      <3> QED  BY <3>2, <3>3 DEF l
    <2> QED  BY <2>2 DEF FirstPiece, FirstIn, StartOf, RowAt, Row
  <1>2. ASSUME NEW p \in Pieces, p.of \in 1..Len(d), p.end /\ p.row = 0 => p.of + 1 \in 1..Len(d)
        PROVE  NextPiece(c, p) = NextIn(d, p)
    <2>0. p = [of |-> p.of, row |-> p.row, end |-> p.end] /\ p.row \in Nat /\ p.end \in BOOLEAN
      BY DEF Pieces
    <2>1. CASE ~p.end
      <3>1. Row(p.of, p.row)[2] = EndOf(p.of, p.row)
        BY DEF Row, EndOf
      <3>2. NextPiece(c, p) = Row(p.of, p.row)[2] /\ NextIn(d, p) = EndOf(p.of, p.row)
        BY <2>1 DEF NextPiece, NextIn
      <3> QED  BY <3>1, <3>2
    <2>2. CASE p.end /\ p.row = 0
      BY <1>1, <1>2, <2>2 DEF NextPiece, NextIn
    <2>3. CASE p.end /\ p.row # 0
      <3>1. d[p.of] \in Seq(Tokens)
        BY <1>0, <1>2
      <3>2. Rows(d[p.of]) \in Nat
        BY <3>1, RowsType
      <3>3. NextPiece(c, p) = [p EXCEPT !.row = IF p.row < Rows(d[p.of]) THEN p.row + 1 ELSE 0, !.end = FALSE]
        BY <2>3 DEF NextPiece
      <3>4. (p.row < Rows(d[p.of])) <=> (p.row + 1 <= Rows(d[p.of]))
        BY <2>0, <3>2
      <3> QED  BY <2>0, <2>3, <3>3, <3>4 DEF NextIn, StartOf, RowAt
    <2> QED  BY <2>0, <2>1, <2>2, <2>3
  <1> QED  BY <1>1, <1>2

\* A line more is executed.
LEMMA FollowingGrows ==
  ASSUME NEW o \in Seq(Pieces), NEW d \in Seq(Seq(Tokens)), NEW l \in Seq(Tokens), Following(o, d)
  PROVE  Following(o, Append(d, l))
  <1> DEFINE e == Append(d, l)
  <1>1. /\ Len(d) \in Nat /\ Len(e) = Len(d) + 1
        /\ \A i \in 1..Len(d) : e[i] = d[i]
    BY LenProperties, AppendProperties
  <1> HIDE DEF e
  <1>2. \A i \in 1..Len(d) : FirstIn(e, i) = FirstIn(d, i)
    BY <1>1 DEF FirstIn
  <1>3. ASSUME NEW i \in 1..Len(o)
        PROVE  o[i].of \in 1..Len(e) /\ o[i] = IF i = 1 THEN FirstIn(e, 1) ELSE NextIn(e, o[i - 1])
    <2>1. o[i].of \in 1..Len(d) /\ o[i].of \in 1..Len(e)
      BY <1>1 DEF Following
    <2>2. CASE i = 1
      <3>1. o[i] = FirstIn(d, 1)
        BY <2>2 DEF Following
      <3>2. o[i].of = 1
        BY <3>1 DEF FirstIn, StartOf
      <3> QED  BY <1>2, <2>1, <2>2, <3>1, <3>2
    <2>3. CASE i # 1
      <3> DEFINE p == o[i - 1]
      <3>1. i - 1 \in 1..Len(o)
        BY <2>3, LenProperties
      <3>2. p \in Pieces /\ p.of \in 1..Len(d) /\ o[i] = NextIn(d, p)
        BY <2>3, <3>1, ElementOfSeq DEF Following
      <3> HIDE DEF p
      <3>3. NextIn(e, p) = NextIn(d, p)
        <4>1. CASE ~p.end
          BY <4>1 DEF NextIn
        <4>2. CASE p.end /\ p.row = 0
          <5>1. o[i] = FirstIn(d, p.of + 1)
            BY <3>2, <4>2 DEF NextIn
          <5>2. o[i].of = p.of + 1
            BY <5>1 DEF FirstIn, StartOf
          <5>3. FirstIn(e, p.of + 1) = FirstIn(d, p.of + 1)
            BY <1>2, <2>1, <5>2
          <5> QED  BY <4>2, <5>3 DEF NextIn
        <4>3. CASE p.end /\ p.row # 0
          BY <1>1, <3>2, <4>3 DEF NextIn
        <4> QED  BY <4>1, <4>2, <4>3
      <3> QED  BY <2>1, <2>3, <3>2, <3>3 DEF p
    <2> QED  BY <2>2, <2>3
  <1> QED  BY <1>3 DEF Following, e

\* A row more is passed to write_data().
LEMMA FollowingRow ==
  ASSUME NEW o \in Seq(Pieces), NEW d \in Seq(Seq(Tokens)), NEW n \in 1..Len(d), NEW r \in Nat,
         Following(o, d), StartOf(n, r) = IF o = << >> THEN FirstIn(d, 1) ELSE NextIn(d, Last(o))
  PROVE  /\ o \o Row(n, r) \in Seq(Pieces) /\ o \o Row(n, r) # << >> /\ Last(o \o Row(n, r)) = EndOf(n, r)
         /\ Following(o \o Row(n, r), d)
  <1> DEFINE a == StartOf(n, r)
             b == EndOf(n, r)
             u == o \o <<a, b>>
  <1>1. a \in Pieces /\ b \in Pieces /\ Row(n, r) = <<a, b>> /\ a.of = n /\ b.of = n /\ NextIn(d, a) = b
    <2>1. n \in Nat
      BY LenProperties
    <2> QED  BY <2>1, RowIsTwo DEF StartOf, EndOf, NextIn
  <1>2. a = IF o = << >> THEN FirstIn(d, 1) ELSE NextIn(d, Last(o))
    OBVIOUS
  <1> HIDE DEF a, b
  <1>3. /\ u \in Seq(Pieces) /\ u # << >> /\ Last(u) = b
        /\ Len(u) = Len(o) + 2 /\ Len(o) \in Nat
        /\ \A i \in 1..Len(o) : u[i] = o[i]
        /\ u[Len(o) + 1] = a /\ u[Len(o) + 2] = b
    BY <1>1, LastOfAppended
  <1>4. (o = << >>) <=> (Len(o) = 0)
    BY EmptySeq
  <1>5. o # << >> => Last(o) = o[Len(o)]
    BY DEF Last
  <1> HIDE DEF u
  <1>6. ASSUME NEW i \in 1..Len(u)
        PROVE  u[i].of \in 1..Len(d) /\ u[i] = IF i = 1 THEN FirstIn(d, 1) ELSE NextIn(d, u[i - 1])
    <2>0. i \in Nat /\ (i \in 1..Len(o) \/ i = Len(o) + 1 \/ i = Len(o) + 2)
      <3> DEFINE m == Len(o)
      <3>1. m \in Nat /\ Len(u) = m + 2
        BY <1>3
      <3> HIDE DEF m
      <3>2. i \in 1..(m + 2)
        BY <3>1
      <3>3. i \in Nat /\ (i \in 1..m \/ i = m + 1 \/ i = m + 2)
        BY <3>1, <3>2
      <3> QED  BY <3>3 DEF m
    <2>1. CASE i \in 1..Len(o)
      <3>1. u[i] = o[i]
        BY <1>3, <2>1
      <3>2. ASSUME i # 1 PROVE u[i - 1] = o[i - 1]
        <4>1. i - 1 \in 1..Len(o)
          BY <1>3, <2>0, <2>1, <3>2
        <4> QED  BY <1>3, <4>1
      <3> QED  BY <2>1, <3>1, <3>2 DEF Following
    <2>2. CASE i = Len(o) + 1
      <3>1. CASE Len(o) = 0
        BY <1>1, <1>2, <1>3, <1>4, <2>2, <3>1
      <3>2. CASE Len(o) # 0
        <4>1. i # 1 /\ i - 1 = Len(o) /\ Len(o) \in 1..Len(o)
          BY <1>3, <2>2, <3>2
        <4>2. u[i - 1] = Last(o) /\ a = NextIn(d, Last(o)) /\ u[i] = a
          BY <1>2, <1>3, <1>4, <1>5, <2>2, <3>2, <4>1
        <4> QED  BY <1>1, <4>1, <4>2
      <3> QED  BY <3>1, <3>2
    <2>3. CASE i = Len(o) + 2
      <3>1. i # 1 /\ i - 1 = Len(o) + 1
        BY <1>3, <2>3
      <3>2. u[i] = b /\ u[i - 1] = a
        BY <1>3, <2>3, <3>1
      <3> QED  BY <1>1, <3>1, <3>2
    <2> QED  BY <2>0, <2>1, <2>2, <2>3
  <1> QED  BY <1>1, <1>3, <1>6 DEF Following, u, b

\* The rows of an answer, one after the other.
LEMMA LeftFirst ==
  ASSUME NEW n \in Nat, NEW l \in Seq(Tokens)
  PROVE  /\ Head(Answer(n, l)) = Row(n, RowAt(l, 1)) /\ Left(Tail(Answer(n, l)), n, l, 1)
         /\ RowAt(l, 1) \in Nat
  <1> DEFINE a == Answer(n, l)
             t == Tail(a)
  <1>1. /\ Rows(l) \in Nat /\ a \in Seq(Seq(Pieces)) /\ Len(a) = Rows(l) + 1 /\ a # << >>
        /\ \A i \in 1..(Rows(l) + 1) : a[i] = Row(n, RowAt(l, i))
    BY AnswerType DEF RowAt
  <1> HIDE DEF a
  <1>2. Head(a) = a[1] /\ Len(t) = Len(a) - 1 /\ \A i \in 1..Len(t) : t[i] = a[i + 1]
    <2>1. ASSUME NEW s \in Seq(Seq(Pieces)), s # << >>
          PROVE  Head(s) = s[1] /\ Len(Tail(s)) = Len(s) - 1 /\ \A i \in 1..Len(Tail(s)) : Tail(s)[i] = s[i + 1]
      BY <2>1, HeadTailProperties
    <2> QED  BY <1>1, <2>1
  <1> HIDE DEF t
  <1>3. \A i \in 1..Rows(l) : t[i] = Row(n, RowAt(l, 1 + i))
    <2> SUFFICES ASSUME NEW i \in 1..Rows(l) PROVE t[i] = Row(n, RowAt(l, 1 + i))
      OBVIOUS
    <2>1. i + 1 \in 1..(Rows(l) + 1) /\ i + 1 = 1 + i /\ i \in 1..Len(t)
      BY <1>1, <1>2
    <2> QED  BY <1>1, <1>2, <2>1
  <1>4. Len(t) = Rows(l) + 1 - 1 /\ Len(t) = Rows(l) /\ 1 \in 1..(Rows(l) + 1)
    BY <1>1, <1>2
  <1>5. RowAt(l, 1) \in Nat
    BY DEF RowAt
  <1> QED  BY <1>1, <1>2, <1>3, <1>4, <1>5 DEF Left, t, a

LEMMA LeftNext ==
  ASSUME NEW n \in Nat, NEW l \in Seq(Tokens), NEW rows \in Seq(Seq(Pieces)),
         NEW k \in 1..(Rows(l) + 1), Left(rows, n, l, k)
  PROVE  /\ rows = << >> => RowAt(l, k) = 0
         /\ rows # << >> =>
              /\ k + 1 \in 1..(Rows(l) + 1) /\ RowAt(l, k) = k /\ RowAt(l, k + 1) \in Nat
              /\ Head(rows) = Row(n, RowAt(l, k + 1)) /\ Left(Tail(rows), n, l, k + 1)
  <1>1. Rows(l) \in Nat /\ k \in Nat /\ Len(rows) \in Nat /\ Len(rows) = Rows(l) + 1 - k
    BY RowsType, LenProperties DEF Left
  <1>2. ASSUME rows = << >> PROVE RowAt(l, k) = 0
    <2>1. Rows(l) + 1 - k = 0
      BY <1>1, <1>2, EmptySeq
    <2>2. ~(k <= Rows(l))
      BY <1>1, <2>1
    <2> QED  BY <2>2 DEF RowAt
  <1>3. ASSUME rows # << >>
        PROVE  /\ k + 1 \in 1..(Rows(l) + 1) /\ RowAt(l, k) = k /\ RowAt(l, k + 1) \in Nat
               /\ Head(rows) = Row(n, RowAt(l, k + 1)) /\ Left(Tail(rows), n, l, k + 1)
    <2> DEFINE t == Tail(rows)
    <2>1. Len(rows) > 0
      BY <1>1, <1>3, EmptySeq
    <2>2. k + 1 \in 1..(Rows(l) + 1) /\ k <= Rows(l) /\ 1 \in 1..Len(rows)
      BY <1>1, <2>1
    <2>3. RowAt(l, k) = k /\ RowAt(l, k + 1) \in Nat
      BY <1>1, <2>2 DEF RowAt
    <2>4. Head(rows) = rows[1] /\ Len(t) = Len(rows) - 1 /\ \A i \in 1..Len(t) : t[i] = rows[i + 1]
      BY <1>3, HeadTailProperties
    <2> HIDE DEF t
    <2>5. Head(rows) = Row(n, RowAt(l, k + 1))
      BY <2>2, <2>4 DEF Left
    <2>6. Len(t) = Rows(l) + 1 - (k + 1)
      BY <1>1, <2>4
    <2>7. \A i \in 1..Len(t) : t[i] = Row(n, RowAt(l, (k + 1) + i))
      <3> SUFFICES ASSUME NEW i \in 1..Len(t) PROVE t[i] = Row(n, RowAt(l, (k + 1) + i))
        OBVIOUS
      <3>1. i \in Nat /\ i + 1 \in 1..Len(rows) /\ k + (i + 1) = (k + 1) + i
        BY <1>1, <2>4
      <3>2. rows[i + 1] = Row(n, RowAt(l, k + (i + 1)))
        BY <3>1 DEF Left
      <3> QED  BY <2>4, <3>1, <3>2
    <2> QED  BY <2>2, <2>3, <2>5, <2>6, <2>7 DEF Left, t
  <1> QED  BY <1>2, <1>3

-----------------------------------------------------------------------------
(* The inductive invariant. *)

\* What has been read, what the kernel holds and, of an open connection, what write_buffers
\* holds are all that was passed to write_data().
Owes(c) ==
  \E w \in Seq(Pieces) :
    /\ Three(got[c], toClient[c], w) = owed[c]
    /\ ~Gone(c) => \A fd \in Connection(c) : writeBuf[fd] = w

\* Between two lines of a connection, the last one has been answered to its end.
Complete(c) ==
  Accepted(c) /\ ~Answering(c) =>
    IF done[c] = << >> THEN owed[c] = << >>
    ELSE owed[c] # << >> /\ Last(owed[c]) = LastPiece(c)

\* While one is answered, the rows left are those after the last one passed.
Replying(c) ==
  Answering(c) /\ owner[cur] = c =>
    /\ done[c] # << >> /\ owed[c] # << >>
    /\ \E k \in 1..(Rows(Last(done[c])) + 1) :
         /\ Left(reply, Len(done[c]), Last(done[c]), k)
         /\ Last(owed[c]) = EndOf(Len(done[c]), RowAt(Last(done[c]), k))

Answers ==
  \A c \in Clients : Owes(c) /\ Following(owed[c], done[c]) /\ Complete(c) /\ Replying(c)

LEMMA HistoryType ==
  ASSUME DInv, NEW c \in Clients
  PROVE  /\ got[c] \in Seq(Pieces) /\ toClient[c] \in Seq(Pieces) /\ owed[c] \in Seq(Pieces)
         /\ done[c] \in Seq(Seq(Tokens)) /\ Len(done[c]) \in Nat
         /\ done[c] # << >> => Last(done[c]) \in Seq(Tokens) /\ Len(done[c]) \in 1..Len(done[c])
                               /\ Last(done[c]) = done[c][Len(done[c])]
  <1>1. /\ got[c] \in Seq(Pieces) /\ toClient[c] \in Seq(Pieces) /\ owed[c] \in Seq(Pieces)
        /\ done[c] \in Seq(Seq(Tokens))
    BY DEF DInv, Types, TypePages, TypeHistory
  <1> DEFINE d == done[c]
  <1>2. d \in Seq(Seq(Tokens))
    BY <1>1
  <1> HIDE DEF d
  <1>3. /\ Len(d) \in Nat
        /\ d # << >> => Last(d) \in Seq(Tokens) /\ Len(d) \in 1..Len(d) /\ Last(d) = d[Len(d)]
    <2>1. Len(d) \in Nat /\ (d # << >> => Len(d) # 0)
      BY <1>2, LenProperties, EmptySeq
    <2>2. d # << >> => Len(d) \in 1..Len(d)
      BY <2>1
    <2> QED  BY <1>2, <2>1, <2>2, ElementOfSeq DEF Last
  <1> QED  BY <1>1, <1>3 DEF d

LEMMA AnswersFollow == IInv /\ DInv /\ Answers => AnswersInOrder
  <1> SUFFICES ASSUME IInv, DInv, Answers, NEW c \in Clients
               PROVE  /\ IsPrefix(got[c] \o toClient[c], owed[c])
                      /\ ~Gone(c) => \A fd \in Connection(c) : got[c] \o toClient[c] \o writeBuf[fd] = owed[c]
                      /\ \A i \in 1..Len(owed[c]) :
                           /\ owed[c][i].of \in 1..Len(done[c])
                           /\ owed[c][i] = IF i = 1 THEN FirstPiece(c, 1) ELSE NextPiece(c, owed[c][i - 1])
                      /\ Accepted(c) /\ ~Answering(c) =>
                           IF done[c] = << >> THEN owed[c] = << >>
                           ELSE owed[c] # << >> /\ Last(owed[c]) = LastPiece(c)
    BY DEF AnswersInOrder
  <1>1. PICK w \in Seq(Pieces) :
          /\ Three(got[c], toClient[c], w) = owed[c]
          /\ ~Gone(c) => \A fd \in Connection(c) : writeBuf[fd] = w
    BY DEF Answers, Owes
  <1>2. IsPrefix(got[c] \o toClient[c], owed[c])
    <2> DEFINE p == got[c]
               q == toClient[c]
    <2>1. p \in Seq(Pieces) /\ q \in Seq(Pieces)
      BY HistoryType
    <2> HIDE DEF p, q
    <2>2. IsPrefix(p \o q, Three(p, q, w))
      BY <2>1, ThreeMove
    <2> QED  BY <1>1, <2>2 DEF p, q
  <1>3. ~Gone(c) => \A fd \in Connection(c) : got[c] \o toClient[c] \o writeBuf[fd] = owed[c]
    BY <1>1 DEF Three
  <1>4. ASSUME NEW i \in 1..Len(owed[c])
        PROVE  /\ owed[c][i].of \in 1..Len(done[c])
               /\ owed[c][i] = IF i = 1 THEN FirstPiece(c, 1) ELSE NextPiece(c, owed[c][i - 1])
    <2> DEFINE o == owed[c]
               d == done[c]
    <2>1. o \in Seq(Pieces) /\ d \in Seq(Seq(Tokens)) /\ Following(o, d) /\ Len(o) \in Nat
      BY HistoryType, LenProperties DEF Answers
    <2>2. o[i].of \in 1..Len(d) /\ o[i] = IF i = 1 THEN FirstIn(d, 1) ELSE NextIn(d, o[i - 1])
      BY <2>1 DEF Following
    <2>3. CASE i = 1
      <3>1. o[i].of = 1
        BY <2>2, <2>3 DEF FirstIn, StartOf
      <3> QED  BY <2>1, <2>2, <2>3, <3>1, PiecesNamed
    <2>4. CASE i # 1
      <3> DEFINE p == o[i - 1]
      <3>1. i - 1 \in 1..Len(o)
        BY <2>1, <2>4
      <3>2. p \in Pieces /\ p.of \in 1..Len(d)
        BY <2>1, <3>1, ElementOfSeq DEF Following
      <3>3. o[i] = NextIn(d, p)
        BY <2>2, <2>4
      <3> HIDE DEF p
      <3>4. p.end /\ p.row = 0 => o[i].of = p.of + 1
        BY <3>3 DEF NextIn, FirstIn, StartOf
      <3>5. NextPiece(c, p) = NextIn(d, p)
        BY <2>1, <2>2, <3>2, <3>4, PiecesNamed
      <3> QED  BY <2>2, <2>4, <3>3, <3>5 DEF p
    <2> QED  BY <2>3, <2>4
  <1> QED  BY <1>2, <1>3, <1>4 DEF Answers, Complete

LEMMA InitAnswers == Init => Answers
  <1> SUFFICES ASSUME Init, NEW c \in Clients
               PROVE  Owes(c) /\ Following(owed[c], done[c]) /\ Complete(c) /\ Replying(c)
    BY DEF Answers
  <1>1. /\ got[c] = << >> /\ toClient[c] = << >> /\ owed[c] = << >> /\ done[c] = << >>
        /\ worker = "off" /\ \A fd \in Fds : writeBuf[fd] = << >>
    BY DEF Init
  <1>2. << >> \in Seq(Pieces) /\ Three(<< >>, << >>, << >>) = << >>
    <2>1. << >> \in Seq(Pieces) /\ << >> \o << >> = << >>
      BY EmptySeq, ConcatEmptySeq
    <2> QED  BY <2>1 DEF Three
  <1>3. Owes(c)
    BY <1>1, <1>2 DEF Owes, Connection
  <1>4. Following(owed[c], done[c])
    <2>1. Len(<< >>) = 0
      OBVIOUS
    <2>2. 1..Len(owed[c]) = {}
      BY <1>1, <2>1
    <2> QED  BY <2>2 DEF Following
  <1>5. Complete(c) /\ Replying(c)
    BY <1>1 DEF Complete, Replying, Answering
  <1> QED  BY <1>3, <1>4, <1>5

-----------------------------------------------------------------------------
(* Steps that pass nothing on. *)

\* Connections can only be lost, and nothing is answered.
LEMMA StillKeepsAnswers ==
  ASSUME Answers, UNCHANGED <<got, owed, done, toClient, page>>,
         \A c \in Clients :
           /\ Connection(c)' \subseteq Connection(c)
           /\ \A fd \in Connection(c)' : writeBuf'[fd] = writeBuf[fd]
           /\ Answering(c)' => Answering(c) /\ UNCHANGED <<cur, reply>> /\ (owner'[cur] = c => owner[cur] = c)
           /\ Answering(c) => Answering(c)'
  PROVE  Answers'
  <1> SUFFICES ASSUME NEW c \in Clients
               PROVE  (Owes(c) /\ Following(owed[c], done[c]) /\ Complete(c) /\ Replying(c))'
    BY DEF Answers
  <1>1. Owes(c)' /\ Following(owed[c], done[c])'
    BY DEF Answers, Owes, Gone, Following
  <1>2. Complete(c)'
    BY DEF Answers, Complete, Accepted, LastPiece
  <1>3. Replying(c)'
    BY DEF Answers, Replying
  <1> QED  BY <1>1, <1>2, <1>3

LEMMA MainKeepsAnswers ==
  ASSUME IInv, DInv, Answers, Main \/ OtherOpens
  PROVE  Answers'
  <1>1. /\ UNCHANGED <<got, owed, done, toClient, page, cur, serving, reply>>
        /\ worker' = worker \/ {worker, worker'} \cap {"lines", "write"} = {}
    BY DEF Main, OtherOpens, CreateSocket, CreateFails, PipeFails, StopWorker, Shutdown, elsewhere, workerOnly,
           clientOnly, serveVars, pageVars, histVars, kernelVars, IInv, DownIsEmpty
  <1>2. \A fd \in Fds : /\ owner'[fd] = owner[fd] \/ owner'[fd] \in {"free", "listen", "pipe", "other"}
                        /\ owner'[fd] \in Clients => writeBuf'[fd] = writeBuf[fd]
    <2>1. CASE OtherOpens
      BY <2>1 DEF OtherOpens, IInv, TypesOK, elsewhere, workerOnly
    <2>2. CASE CreateSocket \/ CreateFails \/ PipeFails \/ StopWorker
      BY <2>2 DEF CreateSocket, CreateFails, PipeFails, StopWorker, IInv, TypesOK, workerOnly
    <2>3. CASE Shutdown
      <3>1. \A fd \in Fds : /\ owner'[fd] = owner[fd] \/ owner'[fd] = "free"
                            /\ fd \in conns => owner'[fd] = "free"
                            /\ fd \notin conns => writeBuf'[fd] = writeBuf[fd]
        BY <2>3 DEF Shutdown, CloseFds
      <3> QED  BY <3>1, Roles
    <2> QED  BY <2>1, <2>2, <2>3 DEF Main
  <1>3. \A c \in Clients : /\ Connection(c)' \subseteq Connection(c)
                           /\ \A fd \in Connection(c)' : writeBuf'[fd] = writeBuf[fd]
    BY <1>2, Roles DEF Connection
  <1>4. ASSUME NEW c \in Clients, Answering(c)
        PROVE  owner'[cur] = c => owner[cur] = c
    BY <1>2, <1>4, Roles DEF Answering, IInv, ServesCur
  <1>5. \A c \in Clients : Answering(c)' <=> Answering(c)
    BY <1>1 DEF Answering
  <1> QED  BY <1>1, <1>3, <1>4, <1>5, StillKeepsAnswers

LEMMA PassKeepsAnswers ==
  ASSUME IInv, DInv, Answers,
         AcceptNothing \/ PassEnds \/ ResumeWrite \/ ReadInput \/ ReadEof \/ LinesEnd \/ LineTooLong
  PROVE  Answers'
  <1>1. /\ UNCHANGED <<got, owed, done, toClient, page>> /\ worker # "write"
        /\ worker' # "write" \/ serving' = "free"
        /\ \A fd \in Fds : /\ owner'[fd] = owner[fd] \/ owner'[fd] = "free"
                           /\ owner'[fd] \in Clients => writeBuf'[fd] = writeBuf[fd]
    <2>3. CASE ReadEof /\ StaysOpen
      BY <2>3 DEF ReadEof, StaysOpen, kernelVars, pageVars, histVars
    <2>1. CASE (ReadEof /\ ~StaysOpen) \/ LineTooLong
      <3>1. PICK fd \in Fds : CloseConn(fd)
        <4>1. CASE ReadEof /\ ~StaysOpen
          BY <4>1 DEF ReadEof, DInv, Types, TypeControl
        <4>2. CASE LineTooLong
          BY <4>2 DEF LineTooLong, IInv, ServesCur
        <4> QED  BY <2>1, <4>1, <4>2
      <3>2. \A g \in Fds : /\ owner'[g] = owner[g] \/ owner'[g] = "free"
                           /\ g = fd => owner'[g] = "free"
                           /\ g # fd => writeBuf'[g] = writeBuf[g]
        BY <3>1 DEF CloseConn, CloseFds, DInv, Types, TypeBuffers
      <3>3. UNCHANGED <<got, owed, done, toClient, page>> /\ worker # "write" /\ worker' # "write"
        BY <2>1 DEF ReadEof, LineTooLong, kernelVars, pageVars, histVars
      <3> QED  BY <3>2, <3>3, Roles
    <2>2. CASE AcceptNothing \/ PassEnds \/ ResumeWrite \/ ReadInput \/ LinesEnd
      BY <2>2 DEF AcceptNothing, Select, PassEnds, ResumeWrite, ReadInput, LinesEnd, kernelVars, pageVars, histVars
    <2> QED  BY <2>1, <2>2, <2>3
  <1>2. \A c \in Clients : /\ Connection(c)' \subseteq Connection(c)
                           /\ \A fd \in Connection(c)' : writeBuf'[fd] = writeBuf[fd]
    BY <1>1, Roles DEF Connection
  <1>3. \A c \in Clients : ~Answering(c) /\ ~Answering(c)'
    BY <1>1, Roles DEF Answering
  <1> QED  BY <1>1, <1>2, <1>3, StillKeepsAnswers

\* Who is accepted has got and is owed nothing, and nothing waits in write_buffers.
LEMMA AcceptKeepsAnswers ==
  ASSUME IInv, DInv, Answers, AcceptNewConnection
  PROVE  Answers'
  <1>1. /\ UNCHANGED <<got, owed, done, toClient, page, writeBuf>> /\ worker = "select" /\ worker' = "conns"
    BY DEF AcceptNewConnection, Select, pageVars, histVars, kernelVars
  <1>2. PICK fd \in Fds, c \in backlog : owner[fd] = "free" /\ owner' = [owner EXCEPT ![fd] = c]
    BY DEF AcceptNewConnection, Free
  <1>3. c \in Clients /\ Connection(c) = {} /\ \A g \in Fds : owner'[g] = IF g = fd THEN c ELSE owner[g]
    BY <1>2 DEF IInv, TypesOK, OnePlace
  <1>4. done[c] = << >> /\ owed[c] = << >> /\ got[c] = << >> /\ toClient[c] = << >>
    BY <1>2, <1>3 DEF DInv, PagesKeep
  <1>5. fd \notin conns /\ writeBuf[fd] = << >>
    <2>1. fd \notin conns
      BY <1>2, Roles DEF IInv, ConnsOwned
    <2> QED  BY <1>1, <2>1 DEF DInv, BuffersOfOpen
  <1>6. \A b \in Clients : ~Answering(b) /\ ~Answering(b)'
    BY <1>1 DEF Answering
  <1> SUFFICES ASSUME NEW b \in Clients
               PROVE  (Owes(b) /\ Following(owed[b], done[b]) /\ Complete(b) /\ Replying(b))'
    BY DEF Answers
  <1>7. Following(owed[b], done[b])' /\ Replying(b)'
    BY <1>1, <1>6 DEF Answers, Following, Replying
  <1>8. CASE b # c
    <2>1. Connection(b)' = Connection(b)
      BY <1>2, <1>3, <1>8, Roles DEF Connection
    <2>2. Owes(b)' /\ Complete(b)'
      BY <1>1, <1>6, <2>1 DEF Answers, Owes, Gone, Complete, Accepted, LastPiece
    <2> QED  BY <1>7, <2>2
  <1>9. CASE b = c
    <2>1. Connection(c)' = {fd}
      BY <1>2, <1>3 DEF Connection
    <2>2. Three(<< >>, << >>, << >>) = << >> /\ << >> \in Seq(Pieces)
      <3>1. << >> \in Seq(Pieces) /\ << >> \o << >> = << >>
        BY EmptySeq, ConcatEmptySeq
      <3> QED  BY <3>1 DEF Three
    <2>3. Owes(c)'
      BY <1>1, <1>4, <1>5, <2>1, <2>2 DEF Owes
    <2>4. Complete(c)'
      BY <1>1, <1>4 DEF Complete
    <2> QED  BY <1>7, <1>9, <2>3, <2>4
  <1> QED  BY <1>8, <1>9

-----------------------------------------------------------------------------
(* Clients. *)

LEMMA ClientKeepsAnswers ==
  ASSUME IInv, DInv, Answers, NEW c \in Clients, Client(c)
  PROVE  Answers'
  <1>1. UNCHANGED <<worker, serving, cur, reply, writeBuf, owner, done, owed>>
    BY ServerUnchanged DEF serveVars
  <1>2. \A b \in Clients : b # c => /\ got'[b] = got[b] /\ toClient'[b] = toClient[b]
                                    /\ Gone(b)' = Gone(b)
    BY SMTT(40) DEF Client, Connect, SendPart, SendLast, Recv, Leave, histVars, pageVars, Gone, IInv, TypesOK, DInv,
           Types, TypePages, TypeHistory
  <1>3. \A b \in Clients : Connection(b)' = Connection(b) /\ (Answering(b)' <=> Answering(b))
    BY <1>1 DEF Connection, Answering
  <1>4. \A b \in Clients : Following(owed[b], done[b])' /\ Complete(b)' /\ Replying(b)'
    BY <1>1, <1>3 DEF Answers, Following, Complete, Accepted, LastPiece, Replying
  <1>5. ASSUME NEW b \in Clients, b # c PROVE Owes(b)'
    BY <1>1, <1>2, <1>3, <1>5 DEF Answers, Owes
  <1>6. Owes(c)'
    <2>1. PICK w \in Seq(Pieces) :
            /\ Three(got[c], toClient[c], w) = owed[c]
            /\ ~Gone(c) => \A fd \in Connection(c) : writeBuf[fd] = w
      BY DEF Answers, Owes
    <2>2. got[c] \in Seq(Pieces) /\ toClient[c] \in Seq(Pieces)
      BY HistoryType
    <2>3. CASE got'[c] = got[c] /\ toClient'[c] = toClient[c] /\ (Gone(c) => Gone(c)')
      BY <1>1, <1>3, <2>1, <2>3 DEF Owes
    <2>4. CASE got'[c] = got[c] /\ toClient'[c] = << >> /\ Gone(c)'
      <3> DEFINE q == toClient[c]
                 p == got[c]
      <3>1. p \in Seq(Pieces) /\ q \in Seq(Pieces)
        BY <2>2
      <3>2. Three(p, q, w) = owed[c]
        BY <2>1
      <3>3. got'[c] = p
        BY <2>4
      <3> HIDE DEF p, q
      <3>4. q \o w \in Seq(Pieces) /\ Three(p, << >>, q \o w) = owed[c]
        BY <3>1, <3>2, ThreeMove, ConcatProperties
      <3> QED  BY <1>1, <2>4, <3>3, <3>4 DEF Owes
    <2>5. CASE Recv(c)
      <3> DEFINE q == toClient[c]
                 p == got[c]
      <3>1. /\ q # << >> /\ toClient'[c] = Tail(q) /\ got'[c] = Append(p, Head(q))
            /\ page'[c] # "gone"
        BY <2>5 DEF Recv, pageVars, DInv, Types, TypePages, TypeHistory, IInv, TypesOK
      <3>2. p \in Seq(Pieces) /\ q \in Seq(Pieces) /\ page[c] # "gone"
        BY <2>2, <2>5 DEF Recv
      <3>3. Three(p, q, w) = owed[c]
        BY <2>1
      <3> HIDE DEF p, q
      <3>4. Three(Append(p, Head(q)), Tail(q), w) = owed[c]
        BY <3>1, <3>2, <3>3, ThreeMove
      <3>5. ~Gone(c) /\ ~Gone(c)'
        BY <3>1, <3>2 DEF Gone
      <3> QED  BY <1>1, <1>3, <2>1, <3>1, <3>4, <3>5 DEF Owes
    <2>6. \/ got'[c] = got[c] /\ toClient'[c] = toClient[c] /\ (Gone(c) => Gone(c)')
          \/ got'[c] = got[c] /\ toClient'[c] = << >> /\ Gone(c)'
          \/ Recv(c)
      BY DEF Client, Connect, SendPart, SendLast, Leave, histVars, pageVars, Gone, IInv, TypesOK, DInv, Types,
             TypePages
    <2> QED  BY <2>3, <2>4, <2>5, <2>6
  <1> QED  BY <1>4, <1>5, <1>6 DEF Answers

-----------------------------------------------------------------------------
(* Lines and their answers. *)

\* What the worker serves is the only connection of its client, if any.
LEMMA ServesOne ==
  ASSUME IInv, DInv, worker \in {"lines", "write"}
  PROVE  /\ cur \in Fds
         /\ \A c \in Clients : serving = c => Connection(c) = IF owner[cur] = c THEN {cur} ELSE {}
         /\ \A c \in Clients : owner[cur] = c => Connection(c) = {cur} /\ (serving \in Clients => serving = c)
         /\ \A c \in Clients : owner[cur] # c => cur \notin Connection(c)
  <1>1. cur \in Fds
    BY DEF IInv, ServesCur
  <1>2. ASSUME NEW c \in Clients, owner[cur] = c PROVE Connection(c) = {cur}
    BY <1>1, <1>2 DEF IInv, ConnsOwned, Connection
  <1>3. ASSUME NEW c \in Clients, serving = c, owner[cur] # c PROVE Connection(c) = {} /\ owner[cur] \notin Clients
    BY <1>3, Roles DEF DInv, ServedOnce, Serving
  <1>4. ASSUME NEW c \in Clients, owner[cur] # c PROVE cur \notin Connection(c)
    BY <1>4 DEF Connection
  <1>5. ASSUME NEW c \in Clients, owner[cur] = c, serving \in Clients PROVE serving = c
    BY <1>3, <1>5
  <1> QED  BY <1>1, <1>2, <1>3, <1>4, <1>5

\* The next line is taken, of which the first row is passed on,
LEMMA ExecuteKeepsAnswers ==
  ASSUME IInv, DInv, Answers, ExecuteCmd
  PROVE  Answers'
  <1>0. PICK c \in Clients, n \in Nat, l \in Seq(Tokens), d \in Seq(Seq(Tokens)) :
          c = serving /\ n = Len(done[c]) + 1 /\ l = NextLine /\ d = done[c]
    <2>1. serving \in Clients
      BY DEF ExecuteCmd, DInv, PlaceInLines
    <2>2. NextLine \in Seq(Tokens)
      BY NextLineType DEF ExecuteCmd
    <2> QED  BY <2>1, <2>2, HistoryType
  <1> DEFINE answer == Answer(n, l)
  <1>1. /\ worker = "lines" /\ LineEnds # {} /\ WriteData(answer, writeBuf)
        /\ done' = [done EXCEPT ![c] = Append(@, l)]
        /\ UNCHANGED <<owner, cur, serving, toClient, got, page>>
    BY <1>0 DEF ExecuteCmd, kernelVars, pageVars
  <1>2. /\ answer \in Seq(Seq(Pieces)) /\ answer # << >>
        /\ Head(answer) = Row(n, RowAt(l, 1)) /\ Left(Tail(answer), n, l, 1) /\ RowAt(l, 1) \in Nat
        /\ Rows(l) \in Nat
    BY AnswerType, LeftFirst
  <1>3. cur \in Fds /\ owner[cur] \in Clients => owner[cur] = c
    BY <1>0, <1>1, ServesOne
  <1> HIDE DEF answer
  <1> DEFINE row == Row(n, RowAt(l, 1))
  <1>4. /\ worker' = "write" /\ reply' = Tail(answer) /\ row \in Seq(Pieces)
        /\ \A fd \in Fds : writeBuf'[fd] = IF fd = cur THEN writeBuf[fd] \o row ELSE writeBuf[fd]
        /\ \A b \in Clients : owed'[b] = IF owner[cur] = b /\ b = c THEN owed[b] \o row ELSE owed[b]
    <2>1. cur \in Fds /\ writeBuf \in [Fds -> Seq(Pieces)]
      BY <1>1, ServesOne DEF DInv, Types, TypeBuffers
    <2> QED  BY <1>0, <1>1, <1>2, <2>1, WriteDataType
  <1>5. /\ \A b \in Clients : done'[b] = IF b = c THEN Append(d, l) ELSE done[b]
        /\ Append(d, l) \in Seq(Seq(Tokens)) /\ Len(d) \in Nat /\ Len(Append(d, l)) = n
        /\ Append(d, l)[n] = l /\ n \in 1..Len(Append(d, l)) /\ Append(d, l) # << >> /\ Last(Append(d, l)) = l
        /\ \A i \in 1..Len(d) : Append(d, l)[i] = d[i]
    <2>1. \A b \in Clients : done'[b] = IF b = c THEN Append(d, l) ELSE done[b]
      BY <1>0, <1>1 DEF DInv, Types, TypeHistory
    <2>2. /\ Append(d, l) \in Seq(Seq(Tokens)) /\ Len(d) \in Nat /\ Len(Append(d, l)) = Len(d) + 1
          /\ Append(d, l)[Len(d) + 1] = l /\ \A i \in 1..Len(d) : Append(d, l)[i] = d[i]
      BY AppendProperties, LenProperties
    <2>3. n = Len(d) + 1
      BY <1>0
    <2> DEFINE e == Append(d, l)
    <2> HIDE DEF e
    <2>4. e \in Seq(Seq(Tokens)) /\ Len(e) = n /\ e[n] = l /\ n \in 1..Len(e)
      BY <2>2, <2>3 DEF e
    <2>5. e # << >> /\ Last(e) = l
      BY <2>4, EmptySeq DEF Last
    <2> QED  BY <2>1, <2>2, <2>4, <2>5 DEF e
  <1>6. \A b \in Clients : Connection(b)' = Connection(b) /\ (Answering(b)' <=> b = c) /\ ~Answering(b)
    BY <1>0, <1>1, <1>4 DEF Connection, Answering
  <1>7. ASSUME NEW b \in Clients, b # c
        PROVE  (Owes(b) /\ Following(owed[b], done[b]) /\ Complete(b) /\ Replying(b))'
    <2>1. owed'[b] = owed[b] /\ done'[b] = done[b] /\ \A fd \in Connection(b) : writeBuf'[fd] = writeBuf[fd]
      BY <1>1, <1>3, <1>4, <1>5, <1>7, ServesOne DEF Connection
    <2>2. Owes(b)' /\ Following(owed[b], done[b])'
      BY SMTT(40), <1>1, <1>6, <2>1 DEF Answers, Owes, Gone, Following
    <2>3. Complete(b)'
      BY <1>6, <2>1 DEF Answers, Complete, Accepted, LastPiece
    <2>4. Replying(b)'
      BY <1>6, <1>7 DEF Replying
    <2> QED  BY <2>2, <2>3, <2>4
  <1> DEFINE o == owed[c]
             e == Append(d, l)
  <1>8. o \in Seq(Pieces) /\ Following(o, d)
    BY <1>0, HistoryType DEF Answers
  <1>9. PICK w \in Seq(Pieces) :
          /\ Three(got[c], toClient[c], w) = o
          /\ ~Gone(c) => \A fd \in Connection(c) : writeBuf[fd] = w
    BY DEF Answers, Owes
  <1> HIDE DEF o, e, row
  <1>10. Following(o, e)
    BY <1>8, FollowingGrows DEF e
  <1>11. CASE owner[cur] # c
    <2>1. owed'[c] = o /\ done'[c] = e /\ Connection(c)' = {}
      BY <1>0, <1>1, <1>4, <1>5, <1>6, <1>11, ServesOne DEF o, e
    <2>2. Owes(c)'
      BY <1>1, <1>9, <2>1 DEF Owes
    <2>3. Complete(c)' /\ Replying(c)'
      BY <1>1, <1>11, <2>1 DEF Complete, Accepted, Replying
    <2> QED  BY <1>7, <1>10, <2>1, <2>2, <2>3 DEF Answers, Following
  <1>12. CASE owner[cur] = c
    <2>1. owed'[c] = o \o row /\ done'[c] = e /\ Connection(c)' = {cur} /\ Connection(c) = {cur}
      BY <1>0, <1>1, <1>4, <1>5, <1>6, <1>12, ServesOne DEF o, e
    <2>2. StartOf(n, RowAt(l, 1)) = IF o = << >> THEN FirstIn(e, 1) ELSE NextIn(e, Last(o))
      <3>1. IF d = << >> THEN o = << >> ELSE o # << >> /\ Last(o) = EndOf(Len(d), 0)
        BY <1>0, <1>6, <2>1 DEF Answers, Complete, Accepted, LastPiece, EndOf, o
      <3>2. FirstIn(e, n) = StartOf(n, RowAt(l, 1))
        BY <1>5 DEF FirstIn, e
      <3>3. CASE d = << >>
        <4>1. n = 1
          BY <1>0, <3>3, EmptySeq
        <4> QED  BY <3>1, <3>2, <3>3, <4>1
      <3>4. CASE d # << >>
        <4>1. NextIn(e, EndOf(Len(d), 0)) = FirstIn(e, Len(d) + 1)
          BY DEF NextIn, EndOf
        <4>2. Len(d) + 1 = n
          BY <1>0
        <4> QED  BY <3>1, <3>2, <3>4, <4>1, <4>2
      <3> QED  BY <3>3, <3>4
    <2>3. /\ o \o row \in Seq(Pieces) /\ o \o row # << >> /\ Last(o \o row) = EndOf(n, RowAt(l, 1))
          /\ Following(o \o row, e)
      <3>1. e \in Seq(Seq(Tokens)) /\ n \in 1..Len(e)
        BY <1>5 DEF e
      <3> QED  BY <1>2, <1>8, <1>10, <2>2, <3>1, FollowingRow DEF row
    <2>4. Owes(c)'
      <3> DEFINE p == got[c]
                 q == toClient[c]
      <3>1. p \in Seq(Pieces) /\ q \in Seq(Pieces)
        BY HistoryType
      <3>5. row \in Seq(Pieces) /\ Three(p, q, w) = o
        BY <1>4, <1>9
      <3>2. got'[c] = p /\ toClient'[c] = q
        BY <1>1
      <3>3. ~Gone(c)' => writeBuf'[cur] = w \o row
        <4>1. cur \in Connection(c) /\ cur \in Fds
          BY <2>1, <1>1, ServesOne
        <4> QED  BY <1>1, <1>4, <1>9, <4>1 DEF Gone
      <3> HIDE DEF p, q
      <3>4. Three(p, q, w \o row) = o \o row /\ w \o row \in Seq(Pieces)
        <4>1. Joined(w, row) \in Seq(Pieces) /\ Three(p, q, Joined(w, row)) = Joined(Three(p, q, w), row)
          BY <3>1, <3>5, ThreeLonger
        <4> QED  BY <3>5, <4>1 DEF Joined
      <3> QED  BY <2>1, <3>2, <3>3, <3>4 DEF Owes
    <2>5. Replying(c)'
      <3>1. 1 \in 1..(Rows(l) + 1)
        BY <1>2
      <3>2. e # << >> /\ Last(e) = l /\ Len(e) = n
        BY <1>5 DEF e
      <3> QED  BY <1>2, <1>4, <2>1, <2>3, <3>1, <3>2 DEF Replying
    <2>6. Complete(c)'
      BY <1>6 DEF Complete
    <2> QED  BY ZenonT(40), <1>7, <2>1, <2>3, <2>4, <2>5, <2>6 DEF Answers, Following
  <1> QED  BY <1>11, <1>12

\* or is CLOSE, which ends the connection.
LEMMA CloseKeepsAnswers ==
  ASSUME IInv, DInv, Answers, CmdClose
  PROVE  Answers'
  <1>0. PICK c \in Clients, l \in Seq(Tokens), d \in Seq(Seq(Tokens)) :
          c = serving /\ l = NextLine /\ d = done[c]
    <2>1. serving \in Clients
      BY DEF CmdClose, DInv, PlaceInLines
    <2>2. NextLine \in Seq(Tokens)
      BY NextLineType DEF CmdClose
    <2> QED  BY <2>1, <2>2, HistoryType
  <1>1. /\ worker = "lines" /\ worker' = "lines" /\ CloseConn(cur)
        /\ done' = [done EXCEPT ![c] = Append(@, l)]
        /\ UNCHANGED <<cur, serving, toClient, got, page, owed>>
    BY <1>0 DEF CmdClose, kernelVars, pageVars
  <1>2. \A g \in Fds : /\ owner'[g] = IF g = cur THEN "free" ELSE owner[g]
                       /\ g # cur => writeBuf'[g] = writeBuf[g]
    BY <1>1 DEF CloseConn, CloseFds, DInv, Types, TypeBuffers
  <1>3. \A b \in Clients : done'[b] = IF b = c THEN Append(d, l) ELSE done[b]
    BY <1>0, <1>1 DEF DInv, Types, TypeHistory
  <1>4. \A b \in Clients : ~Answering(b)' /\ ~Answering(b)
    BY <1>1 DEF Answering
  <1>5. \A b \in Clients : Connection(b)' = Connection(b) \ {cur} /\ (b = c => Connection(b)' = {})
    BY <1>0, <1>1, <1>2, Roles, ServesOne DEF Connection
  <1> SUFFICES ASSUME NEW b \in Clients
               PROVE  (Owes(b) /\ Following(owed[b], done[b]) /\ Complete(b) /\ Replying(b))'
    BY DEF Answers
  <1>6. Owes(b)'
    <2>1. \A fd \in Connection(b)' : fd \in Connection(b) /\ writeBuf'[fd] = writeBuf[fd]
      BY <1>2, <1>5 DEF Connection
    <2> QED  BY <1>1, <2>1 DEF Answers, Owes, Gone
  <1>7. Following(owed[b], done[b])'
    <2>1. CASE b # c
      BY <1>1, <1>3, <2>1 DEF Answers, Following
    <2>2. CASE b = c
      <3> DEFINE o == owed[c]
                 e == Append(d, l)
      <3>1. o \in Seq(Pieces) /\ Following(o, d)
        BY <1>0, HistoryType DEF Answers
      <3> HIDE DEF o, e
      <3>2. Following(o, e)
        BY <3>1, FollowingGrows DEF e
      <3>3. owed'[c] = o /\ done'[c] = e
        BY <1>1, <1>3 DEF o, e
      <3> QED  BY <2>2, <3>2, <3>3 DEF Following
    <2> QED  BY <2>1, <2>2
  <1>8. Complete(b)' /\ Replying(b)'
    <2>1. CASE b # c
      BY <1>1, <1>3, <1>4, <1>5, <2>1 DEF Answers, Complete, Accepted, LastPiece, Replying
    <2>2. CASE b = c
      BY <1>4, <1>5, <2>2 DEF Complete, Accepted, Replying
    <2> QED  BY <2>1, <2>2
  <1> QED  BY <1>6, <1>7, <1>8

-----------------------------------------------------------------------------
(* Writes. *)

WriteStep == Write \/ WriteFails \/ WriteElsewhere

LEMMA WriteFrame ==
  ASSUME IInv, DInv, WriteStep
  PROVE  /\ worker = "write" /\ cur \in Fds /\ UNCHANGED <<cur, serving, done, got, page>>
         /\ \A fd \in Fds : owner'[fd] = owner[fd] \/ owner'[fd] = "free"
         /\ \A c \in Clients : Connection(c)' \subseteq Connection(c)
         /\ \E buffers \in [Fds -> Seq(Pieces)] :
              Written(buffers) \/ UNCHANGED <<worker, reply, owed>>
  <1>1. worker = "write" /\ cur \in Fds /\ UNCHANGED <<cur, serving, done, got, page>>
    BY DEF WriteStep, Write, WriteFails, WriteElsewhere, writeOnly, pageVars, IInv, ServesCur
  <1>2. \A fd \in Fds : owner'[fd] = owner[fd] \/ owner'[fd] = "free"
    BY DEF WriteStep, Write, WriteFails, WriteElsewhere, CloseFds
  <1>3. \A c \in Clients : Connection(c)' \subseteq Connection(c)
    BY <1>2, Roles DEF Connection
  <1>4. CASE Write
    BY <1>1, <1>2, <1>3, <1>4, WriteTakes
  <1>5. CASE WriteFails \/ WriteElsewhere
    <2> DEFINE b == [writeBuf EXCEPT ![cur] = << >>]
    <2>1. b \in [Fds -> Seq(Pieces)]
      BY EmptySeq DEF DInv, Types, TypeBuffers
    <2>2. Written(b)
      BY <1>5 DEF WriteFails, WriteElsewhere
    <2> HIDE DEF b
    <2> QED  BY <1>1, <1>2, <1>3, <2>1, <2>2
  <1> QED  BY <1>4, <1>5 DEF WriteStep

\* What has been passed on of an answer, and what is left of it.
LEMMA WriteKeepsRows ==
  ASSUME IInv, DInv, Answers, WriteStep, NEW c \in Clients
  PROVE  (Following(owed[c], done[c]) /\ Complete(c) /\ Replying(c))'
  <1>1. /\ worker = "write" /\ cur \in Fds /\ UNCHANGED <<cur, serving, done, got, page>>
        /\ \A fd \in Fds : owner'[fd] = owner[fd] \/ owner'[fd] = "free"
        /\ Connection(c)' \subseteq Connection(c)
    BY WriteFrame
  <1>2. PICK buffers \in [Fds -> Seq(Pieces)] : Written(buffers) \/ UNCHANGED <<worker, reply, owed>>
    BY WriteFrame
  <1>3. owner'[cur] = c => owner[cur] = c
    BY <1>1, Roles
  <1>4. CASE UNCHANGED <<worker, reply, owed>>
    BY <1>1, <1>3, <1>4 DEF Answers, Following, Complete, Accepted, Answering, LastPiece, Replying
  <1>5. CASE Written(buffers) /\ ~(Answering(c) /\ owner[cur] = c)
    <2>1. /\ worker' \in {"write", "conns", "lines"}
          /\ owed'[c] = IF owner[cur] = c /\ c = serving /\ worker' = "write" THEN owed[c] \o Head(reply) ELSE owed[c]
      BY <1>1, <1>5, WrittenType
    <2>2. owed'[c] = owed[c]
      BY <1>1, <1>5, <2>1 DEF Answering
    <2>3. Following(owed[c], done[c])'
      BY <1>1, <2>2 DEF Answers, Following
    <2>4. Replying(c)'
      BY <1>1, <1>3, <1>5 DEF Replying, Answering
    <2>5. Complete(c)'
      <3>1. CASE serving = c
        <4>1. Connection(c) = {}
          BY <1>1, <1>5, <3>1, ServesOne DEF Answering
        <4> QED  BY <1>1, <4>1 DEF Complete, Accepted
      <3>2. CASE serving # c
        BY <1>1, <2>2, <3>2 DEF Answers, Complete, Accepted, Answering, LastPiece
      <3> QED  BY <3>1, <3>2
    <2> QED  BY <2>3, <2>4, <2>5
  <1>6. CASE Written(buffers) /\ Answering(c) /\ owner[cur] = c
    <2>1. PICK o \in Seq(Pieces), d \in Seq(Seq(Tokens)), n \in Nat, l \in Seq(Tokens), rows \in Seq(Seq(Pieces)) :
            /\ o = owed[c] /\ d = done[c] /\ n = Len(d) /\ l = Last(d) /\ rows = reply
            /\ d # << >> /\ o # << >> /\ n \in 1..Len(d) /\ l = d[n] /\ Following(o, d)
      <3>1. done[c] # << >> /\ owed[c] # << >> /\ Following(owed[c], done[c])
        BY <1>6 DEF Answers, Replying
      <3>2. reply \in Seq(Seq(Pieces))
        BY DEF DInv, Types, TypeBuffers
      <3> QED  BY <3>1, <3>2, HistoryType
    <2>2. PICK k \in 1..(Rows(l) + 1) : Left(rows, n, l, k) /\ Last(o) = EndOf(n, RowAt(l, k))
      BY <1>6, <2>1 DEF Answers, Replying
    <2>3. /\ rows = << >> => RowAt(l, k) = 0
          /\ rows # << >> =>
               /\ k + 1 \in 1..(Rows(l) + 1) /\ RowAt(l, k) = k /\ RowAt(l, k + 1) \in Nat
               /\ Head(rows) = Row(n, RowAt(l, k + 1)) /\ Left(Tail(rows), n, l, k + 1)
      BY <2>2, LeftNext
    <2>4. serving = c /\ done'[c] = d
      BY <1>1, <1>6, <2>1 DEF Answering
    <2>5. CASE rows = << >>
      <3>1. worker' # "write" /\ owed'[c] = o
        BY <1>1, <1>2, <1>6, <2>1, <2>5, WrittenType
      <3>2. Following(owed[c], done[c])'
        BY <2>1, <2>4, <3>1 DEF Following
      <3>3. ~Answering(c)' /\ Last(o) = EndOf(Len(d), 0)
        BY <2>1, <2>2, <2>3, <2>5, <3>1 DEF Answering
      <3> QED  BY <2>1, <2>4, <3>1, <3>2, <3>3 DEF Complete, Replying, LastPiece, EndOf
    <2>6. CASE rows # << >>
      <3> DEFINE r == RowAt(l, k + 1)
                 row == Row(n, r)
      <3>1. worker' = "write" /\ reply' = Tail(rows) /\ owed'[c] = o \o row
        <4>1. reply # << >>
          BY <2>1, <2>6
        <4>2. WriteData(reply, buffers)
          BY <1>6, <4>1 DEF Written
        <4>3. reply \in Seq(Seq(Pieces))
          BY <2>1
        <4>4. worker' = "write" /\ reply' = Tail(reply) /\ owed'[c] = owed[c] \o Head(reply)
          BY <1>1, <1>2, <1>6, <2>4, <4>1, <4>2, <4>3, WriteDataType
        <4> QED  BY <2>1, <2>3, <2>6, <4>4
      <3>2. StartOf(n, r) = NextIn(d, Last(o))
        <4>1. k # 0 /\ RowAt(l, k) = k
          BY <2>3, <2>6
        <4>2. NextIn(d, EndOf(n, k)) = StartOf(n, RowAt(d[n], k + 1))
          BY <4>1 DEF NextIn, EndOf
        <4> QED  BY <2>1, <2>2, <4>1, <4>2
      <3>3. r \in Nat
        BY <2>3, <2>6
      <3> HIDE DEF r
      <3>4. o \o row # << >> /\ Last(o \o row) = EndOf(n, r) /\ Following(o \o row, d)
        BY <2>1, <3>2, <3>3, FollowingRow
      <3> HIDE DEF row
      <3>5. Following(owed[c], done[c])'
        BY <2>4, <3>1, <3>4 DEF Following
      <3>6. Complete(c)'
        BY <1>1, <2>4, <3>1 DEF Complete, Answering
      <3>7. Replying(c)'
        <4>1. k + 1 \in 1..(Rows(l) + 1) /\ Left(Tail(rows), n, l, k + 1) /\ Last(o \o row) = EndOf(n, RowAt(l, k + 1))
          BY <2>3, <2>6, <3>4 DEF r
        <4> QED  BY <2>1, <2>4, <3>1, <3>4, <4>1 DEF Replying
      <3> QED  BY <3>5, <3>6, <3>7
    <2> QED  BY <2>5, <2>6
  <1> QED  BY <1>2, <1>4, <1>5, <1>6

\* What the kernel takes leaves write_buffers; what is passed on next follows it there.
LEMMA WriteKeepsOwes ==
  ASSUME IInv, DInv, Answers, WriteStep, NEW c \in Clients
  PROVE  Owes(c)'
  <1>1. /\ worker = "write" /\ cur \in Fds /\ UNCHANGED <<cur, serving, done, got, page>>
        /\ Connection(c)' \subseteq Connection(c)
    BY WriteFrame
  <1>2. reply \in Seq(Seq(Pieces)) /\ Gone(c)' = Gone(c) /\ writeBuf \in [Fds -> Seq(Pieces)]
        /\ toClient \in [Clients -> Seq(Pieces)]
    BY <1>1 DEF Gone, DInv, Types, TypeBuffers, TypePages
  <1>3. PICK w \in Seq(Pieces) :
          /\ Three(got[c], toClient[c], w) = owed[c]
          /\ ~Gone(c) => \A fd \in Connection(c) : writeBuf[fd] = w
    BY DEF Answers, Owes
  <1>4. CASE owner[cur] # c
    <2>1. owed'[c] = owed[c]
      <3>1. PICK buffers \in [Fds -> Seq(Pieces)] : Written(buffers) \/ UNCHANGED <<worker, reply, owed>>
        BY WriteFrame
      <3> QED  BY <1>1, <1>4, <3>1, WrittenType
    <2>2. toClient'[c] = toClient[c] /\ \A fd \in Fds : fd # cur => writeBuf'[fd] = writeBuf[fd]
      <3>1. CASE Write
        <4>1. PICK n \in 1..Len(writeBuf[cur]) :
                LET rest == SubSeq(writeBuf[cur], n + 1, Len(writeBuf[cur]))
                    buffers == [writeBuf EXCEPT ![cur] = rest]
                IN /\ buffers \in [Fds -> Seq(Pieces)]
                   /\ toClient' = [toClient EXCEPT ![owner[cur]] = @ \o SubSeq(writeBuf[cur], 1, n)]
                   /\ Written(buffers) \/ (writeBuf' = buffers /\ UNCHANGED <<worker, reply, owed>>)
          BY <3>1, WriteTakes
        <4> DEFINE buffers == [writeBuf EXCEPT ![cur] = SubSeq(writeBuf[cur], n + 1, Len(writeBuf[cur]))]
        <4>2. \A fd \in Fds : fd # cur => buffers[fd] = writeBuf[fd]
          BY <1>2
        <4>3. buffers \in [Fds -> Seq(Pieces)] /\ (Written(buffers) \/ writeBuf' = buffers)
          BY <4>1
        <4>4. toClient'[c] = toClient[c]
          BY <1>2, <1>4, <4>1
        <4> HIDE DEF buffers
        <4> QED  BY <1>1, <4>2, <4>3, <4>4, WrittenType
      <3>2. CASE WriteFails \/ WriteElsewhere
        <4> DEFINE b == [writeBuf EXCEPT ![cur] = << >>]
        <4>1. b \in [Fds -> Seq(Pieces)] /\ \A fd \in Fds : fd # cur => b[fd] = writeBuf[fd]
          BY <1>2, EmptySeq
        <4>2. Written(b) /\ toClient' = toClient
          BY <3>2 DEF WriteFails, WriteElsewhere
        <4> HIDE DEF b
        <4> QED  BY <1>1, <4>1, <4>2, WrittenType
      <3> QED  BY <3>1, <3>2 DEF WriteStep
    <2>3. \A fd \in Connection(c)' : fd \in Connection(c) /\ writeBuf'[fd] = writeBuf[fd]
      BY <1>1, <1>4, <2>2, ServesOne DEF Connection
    <2> QED  BY <1>1, <1>2, <1>3, <2>1, <2>2, <2>3 DEF Owes
  <1>5. CASE owner[cur] = c
    <2>1. Connection(c) = {cur} /\ (serving \in Clients => serving = c)
      BY <1>1, <1>5, ServesOne
    <2> DEFINE p == got[c]
               q == toClient[c]
    <2>0. p \in Seq(Pieces) /\ q \in Seq(Pieces)
      BY HistoryType
    <2>2. got'[c] = p
      BY <1>1
    <2>3. Three(p, q, w) = owed[c]
      BY <1>3
    <2>4. CASE Write
      <3>1. PICK n \in 1..Len(writeBuf[cur]) :
              LET rest == SubSeq(writeBuf[cur], n + 1, Len(writeBuf[cur]))
                  buffers == [writeBuf EXCEPT ![cur] = rest]
              IN /\ ~Gone(owner[cur]) /\ rest \in Seq(Pieces)
                 /\ buffers \in [Fds -> Seq(Pieces)]
                 /\ SubSeq(writeBuf[cur], 1, n) \in Seq(Pieces)
                 /\ writeBuf[cur] = SubSeq(writeBuf[cur], 1, n) \o rest
                 /\ toClient' = [toClient EXCEPT ![owner[cur]] = @ \o SubSeq(writeBuf[cur], 1, n)]
                 /\ Written(buffers) \/ (writeBuf' = buffers /\ UNCHANGED <<worker, reply, owed>>)
        BY <2>4, WriteTakes
      <3> DEFINE t == SubSeq(writeBuf[cur], 1, n)
                 rest == SubSeq(writeBuf[cur], n + 1, Len(writeBuf[cur]))
                 buffers == [writeBuf EXCEPT ![cur] = rest]
      <3>2. /\ ~Gone(c) /\ rest \in Seq(Pieces) /\ t \in Seq(Pieces) /\ buffers \in [Fds -> Seq(Pieces)]
            /\ buffers[cur] = rest
            /\ Written(buffers) \/ (writeBuf' = buffers /\ UNCHANGED <<worker, reply, owed>>)
        BY <1>1, <1>2, <1>5, <3>1
      <3>3. writeBuf[cur] = Joined(t, rest)
        BY <3>1 DEF Joined
      <3>4. toClient'[c] = Joined(q, t)
        BY <1>2, <1>5, <3>1 DEF Joined
      <3>5. w = writeBuf[cur]
        BY <1>3, <2>1, <3>2
      <3> HIDE DEF t, rest, buffers, p, q
      <3>6. Joined(q, t) \in Seq(Pieces) /\ Three(p, Joined(q, t), rest) = owed[c]
        <4>1. rest \in Seq(Pieces) /\ t \in Seq(Pieces)
          BY <3>2
        <4>2. Joined(q, t) \in Seq(Pieces) /\ Three(p, Joined(q, t), rest) = Three(p, q, Joined(t, rest))
          BY <2>0, <4>1, ThreeLonger
        <4> QED  BY <2>3, <3>3, <3>5, <4>2
      <3>7. CASE owed'[c] = owed[c] /\ writeBuf'[cur] = rest
        BY <1>1, <2>1, <2>2, <3>2, <3>4, <3>6, <3>7 DEF Owes
      <3>8. CASE owed'[c] = Joined(owed[c], Head(reply)) /\ writeBuf'[cur] = Joined(rest, Head(reply)) /\ reply # << >>
        <4> DEFINE row == Head(reply)
        <4>1. row \in Seq(Pieces)
          BY <1>2, <3>8, HeadTailProperties
        <4> HIDE DEF row
        <4>2. Joined(rest, row) \in Seq(Pieces) /\ Three(p, Joined(q, t), Joined(rest, row)) = Joined(owed[c], row)
          <5>1. rest \in Seq(Pieces) /\ Joined(q, t) \in Seq(Pieces)
            BY <3>2, <3>6
          <5> DEFINE s == Joined(q, t)
          <5>2. s \in Seq(Pieces)
            BY <5>1
          <5> HIDE DEF s
          <5>3. Joined(rest, row) \in Seq(Pieces) /\ Three(p, s, Joined(rest, row)) = Joined(Three(p, s, rest), row)
            BY <2>0, <4>1, <5>1, <5>2, ThreeLonger
          <5> QED  BY <3>6, <5>3 DEF s
        <4>3. owed'[c] = Joined(owed[c], row) /\ writeBuf'[cur] = Joined(rest, row)
          BY <3>8 DEF row
        <4> QED  BY <1>1, <2>1, <2>2, <3>4, <4>2, <4>3 DEF Owes
      <3>9. CASE Written(buffers)
        <4>1. CASE worker' = "write"
          <5>1. reply # << >> /\ serving # "free"
            BY <1>1, <3>2, <3>9, <4>1, WrittenType
          <5>2. serving = c
            BY <2>1, <5>1 DEF DInv, Types, TypeControl
          <5>3. writeBuf'[cur] = buffers[cur] \o Head(reply) /\ owed'[c] = owed[c] \o Head(reply)
            BY <1>1, <1>5, <3>2, <3>9, <4>1, <5>2, WrittenType
          <5> QED  BY <3>2, <3>8, <5>1, <5>3 DEF Joined
        <4>2. CASE worker' # "write"
          BY <1>1, <3>2, <3>7, <3>9, <4>2, WrittenType
        <4> QED  BY <4>1, <4>2
      <3>10. CASE writeBuf' = buffers /\ UNCHANGED <<worker, reply, owed>>
        BY <3>2, <3>7, <3>10
      <3> QED  BY <3>2, <3>9, <3>10
    <2>5. CASE WriteFails \/ WriteElsewhere
      <3>1. Gone(c)
        BY <1>5, <2>5, Roles DEF WriteFails, WriteElsewhere
      <3> DEFINE b == [writeBuf EXCEPT ![cur] = << >>]
      <3>2. b \in [Fds -> Seq(Pieces)]
        BY <1>2, EmptySeq
      <3>3. Written(b) /\ toClient'[c] = q
        BY <2>5 DEF WriteFails, WriteElsewhere
      <3> HIDE DEF b, p, q
      <3>4. CASE owed'[c] = owed[c]
        BY <1>2, <2>2, <2>3, <3>1, <3>3, <3>4 DEF Owes
      <3>5. CASE owed'[c] = Joined(owed[c], Head(reply)) /\ reply # << >>
        <4> DEFINE row == Head(reply)
        <4>1. row \in Seq(Pieces)
          BY <1>2, <3>5, HeadTailProperties
        <4> HIDE DEF row
        <4>2. Joined(w, row) \in Seq(Pieces) /\ Three(p, q, Joined(w, row)) = Joined(owed[c], row)
          <5>1. Joined(w, row) \in Seq(Pieces) /\ Three(p, q, Joined(w, row)) = Joined(Three(p, q, w), row)
            BY <2>0, <4>1, ThreeLonger
          <5> QED  BY <2>3, <5>1
        <4>3. owed'[c] = Joined(owed[c], row)
          BY <3>5 DEF row
        <4> QED  BY <1>2, <2>2, <3>1, <3>3, <4>2, <4>3 DEF Owes
      <3>6. owed'[c] = owed[c] \/ (owed'[c] = owed[c] \o Head(reply) /\ reply # << >>)
        BY <1>1, <3>2, <3>3, WrittenType
      <3> QED  BY <3>4, <3>5, <3>6 DEF Joined
    <2> QED  BY <2>4, <2>5 DEF WriteStep
  <1> QED  BY <1>4, <1>5

LEMMA NextKeepsAnswers == IInv /\ DInv /\ Answers /\ [Next]_vars => Answers'
  <1> SUFFICES ASSUME IInv, DInv, Answers, [Next]_vars PROVE Answers'
    OBVIOUS
  <1>1. CASE UNCHANGED vars
    <2>1. UNCHANGED <<got, owed, done, toClient, page, worker, serving, cur, reply, writeBuf, owner>>
      BY <1>1 DEF vars, kernelVars, pageVars, histVars, serveVars
    <2>2. \A c \in Clients : Connection(c)' = Connection(c) /\ (Answering(c)' <=> Answering(c))
      BY <2>1 DEF Connection, Answering
    <2> QED  BY <2>1, <2>2, StillKeepsAnswers
  <1>2. CASE Main \/ OtherOpens
    BY <1>2, MainKeepsAnswers
  <1>3. CASE \E c \in Clients : Client(c)
    BY <1>3, ClientKeepsAnswers
  <1>4. CASE WriteStep
    BY <1>4, WriteKeepsRows, WriteKeepsOwes DEF Answers
  <1>5. CASE Worker
    BY <1>4, <1>5, PassKeepsAnswers, AcceptKeepsAnswers, ExecuteKeepsAnswers, CloseKeepsAnswers
       DEF Worker, WriteStep
  <1> QED  BY <1>1, <1>2, <1>3, <1>5 DEF Next

\* However little a write moves, what clients read is the answers to their own lines.
THEOREM AnswersAreInOrder == Spec => []AnswersInOrder
  <1>1. Init => IInv /\ DInv /\ Answers
    BY InitIInv, InitDInv, InitAnswers
  <1>2. IInv /\ DInv /\ Answers /\ [Next]_vars => IInv' /\ DInv' /\ Answers'
    BY NextKeeps, NextKeepsData, NextKeepsAnswers
  <1>3. IInv /\ DInv /\ Answers => AnswersInOrder
    BY AnswersFollow
  <1> QED  BY <1>1, <1>2, <1>3, PTL DEF Spec
=============================================================================
