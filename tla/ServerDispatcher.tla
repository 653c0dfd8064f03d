-------------------------- MODULE ServerDispatcher --------------------------
(***************************************************************************)
(* ServerDispatcher (Server/Server/server-dispatcher.h) with the reads of  *)
(* read-write-helper.h: the thread that accepts connections, the notifier  *)
(* that wakes the threads whose descriptors select() found readable, and   *)
(* one handler thread per connection.                                      *)
(*                                                                         *)
(* A step of a thread ends where it waits on a condition variable, locks   *)
(* g_mtx or makes a call that may block.  The notifier calls select() and  *)
(* the acceptor accept() with g_mtx held; a closing handler, or one that   *)
(* opens or closes a file for the backend, has g_mtx for a single step.    *)
(*                                                                         *)
(* A client sends a stream of units.  The first unit of a request stands   *)
(* for what its header says, the content length or Malformed; the other    *)
(* units of the header and the payload are units Body.  What the backend   *)
(* does with a request is left open, except for the flag that decides      *)
(* whether the connection goes on.                                         *)
(***************************************************************************)
EXTENDS Integers, Sequences, FiniteSets, FiniteSetsExt

CONSTANTS
  Clients,      \* the connections that are made, one handler thread each
  ListenFd,     \* m_listenfd
  Fds,          \* descriptor numbers accept() can return
  MaxSockfd,    \* m_max_sockfd
  HeaderLen,    \* units of a header, request_header_len
  Lengths,      \* content lengths that headers announce
  MaxRequests,  \* bound: requests of a client
  None,
  FieldsFit,        \* do the numbers in headers fit into int?
  SpuriousWakeups   \* may a wait end without a notification?

ASSUME DispatcherAssumption ==
  /\ None \notin Clients
  /\ ListenFd \in Nat \ {0}
  /\ Fds \subseteq {d \in Nat : d > ListenFd}
  /\ Cardinality(Clients) <= Cardinality(Fds)
  /\ MaxSockfd \in Nat /\ ListenFd <= MaxSockfd
  /\ HeaderLen \in Nat \ {0}
  /\ Lengths \subseteq Nat
  /\ MaxRequests \in Nat
  /\ {FieldsFit, SpuriousWakeups} \subseteq BOOLEAN

VARIABLES
  conn,      \* client -> "new", "pending", "accepted", "refused", "closed"
  fd,        \* client -> descriptor of its connection, 0 if it has none
  backlog,   \* connections that accept() has not returned yet, in order
  inbox,     \* client -> units that arrived and were not read
  owes,      \* client -> units its last request still lacks
  sent,      \* client -> requests begun
  answered,  \* client -> responses written to its connection
  hungUp,    \* clients that closed their end
  rfds,      \* m_rfds
  gMtx,      \* holder of g_mtx across steps
  apc,       \* next step of start()
  sock,      \* the client whose descriptor is in m_sockfd
  ready,     \* the rest of the notifier's rfds
  hpc,       \* client -> next step of its handler thread
  phase,     \* client -> what the handler reads, "header" or "payload"
  need,      \* client -> units missing in the buffer
  header     \* client -> request_header

clientVars  == <<owes, sent, hungUp>>
threadVars  == <<hpc, phase, need, header>>
acceptorVars == <<apc, sock, gMtx>>
vars == <<conn, fd, backlog, inbox, answered, rfds, ready, clientVars, threadVars,
          acceptorVars>>

Malformed == -1
Body      == -2
Headers   == Lengths \cup {Malformed}

\* The payload that a header announces, and all that follows its first unit.
PayloadLen(u) == IF u = Malformed THEN 0 ELSE u

Extent(u) == (HeaderLen - 1) + PayloadLen(u)

\* The members of ServerDispatcher and the locals of its threads have their
\* types; acceptor and notifier keep g_mtx across a call that may block.
TypeOK ==
  /\ conn \in [Clients -> {"new", "pending", "accepted", "refused", "closed"}]
  /\ fd \in [Clients -> Fds \cup {0}]
  /\ backlog \in Seq(Clients)
  /\ inbox \in [Clients -> Seq(Headers \cup {Body})]
  /\ owes \in [Clients -> Nat]
  /\ sent \in [Clients -> 0..MaxRequests]
  /\ answered \in [Clients -> Nat]
  /\ hungUp \subseteq Clients
  /\ rfds \subseteq Fds \cup {ListenFd}
  /\ gMtx \in {"acceptor", "notifier", None}
  /\ apc \in {"wait", "lock", "accept", "spawn"}
  /\ sock \in Clients \cup {None}
  /\ ready \subseteq Fds \cup {ListenFd}
  /\ hpc \in [Clients -> {"none", "loop", "waiting", "woken", "file", "close",
                         "done"}]
  /\ phase \in [Clients -> {"header", "payload"}]
  /\ need \in [Clients -> Nat]
  /\ header \in [Clients -> Headers]

\* initializeSocket has put the listening descriptor into m_rfds.
Init ==
  /\ conn = [c \in Clients |-> "new"]
  /\ fd = [c \in Clients |-> 0]
  /\ backlog = <<>>
  /\ inbox = [c \in Clients |-> <<>>]
  /\ owes = [c \in Clients |-> 0]
  /\ sent = [c \in Clients |-> 0]
  /\ answered = [c \in Clients |-> 0]
  /\ hungUp = {}
  /\ rfds = {ListenFd}
  /\ gMtx = None
  /\ apc = "wait"
  /\ sock = None
  /\ ready = {}
  /\ hpc = [c \in Clients |-> "none"]
  /\ phase = [c \in Clients |-> "header"]
  /\ need = [c \in Clients |-> HeaderLen]
  /\ header = [c \in Clients |-> Malformed]

-----------------------------------------------------------------------------
(* The clients.                                                            *)

Connect(c) ==
  /\ conn[c] = "new"
  /\ conn' = [conn EXCEPT ![c] = "pending"]
  /\ backlog' = Append(backlog, c)
  /\ UNCHANGED <<fd, inbox, answered, rfds, ready, clientVars, threadVars, acceptorVars>>

CanSend(c) == conn[c] \in {"pending", "accepted"} /\ c \notin hungUp

BeginRequest(c, n) ==
  /\ CanSend(c)
  /\ owes[c] = 0
  /\ sent[c] < MaxRequests
  /\ inbox' = [inbox EXCEPT ![c] = Append(@, n)]
  /\ owes' = [owes EXCEPT ![c] = Extent(n)]
  /\ sent' = [sent EXCEPT ![c] = @ + 1]
  /\ UNCHANGED <<conn, fd, backlog, answered, hungUp, rfds, ready, threadVars,
                 acceptorVars>>

SendBody(c) ==
  /\ CanSend(c)
  /\ owes[c] > 0
  /\ inbox' = [inbox EXCEPT ![c] = Append(@, Body)]
  /\ owes' = [owes EXCEPT ![c] = @ - 1]
  /\ UNCHANGED <<conn, fd, backlog, answered, sent, hungUp, rfds, ready, threadVars,
                 acceptorVars>>

HangUp(c) ==
  /\ CanSend(c)
  /\ hungUp' = hungUp \cup {c}
  /\ UNCHANGED <<conn, fd, backlog, inbox, answered, owes, sent, rfds, ready,
                 threadVars, acceptorVars>>

Client(c) ==
  Connect(c) \/ (\E n \in Headers : BeginRequest(c, n)) \/ SendBody(c) \/ HangUp(c)

-----------------------------------------------------------------------------
(* The notifier.                                                           *)

\* read() on the connection of c would not block.
HasInput(c) == inbox[c] # <<>> \/ c \in hungUp

Readable(d) ==
  IF d = ListenFd THEN backlog # <<>> ELSE \E c \in Clients : fd[c] = d /\ HasInput(c)

\* g_mtx is locked and m_rfds copied.
SelectBegin ==
  /\ ready = {}
  /\ gMtx = None
  /\ gMtx' = "notifier"
  /\ UNCHANGED <<conn, fd, backlog, inbox, answered, rfds, ready, clientVars,
                 threadVars, apc, sock>>

\* select() returns, with nothing after 100 ms, and g_mtx is released.  Nobody
\* has changed m_rfds since it was copied.
SelectEnd ==
  /\ gMtx = "notifier"
  /\ gMtx' = None
  /\ ready' = {d \in rfds : Readable(d)}
  /\ UNCHANGED <<conn, fd, backlog, inbox, answered, rfds, clientVars, threadVars,
                 apc, sock>>

\* Mutant: the loop starts behind the listening descriptor.
FirstConnection == ListenFd + 1

FirstFd == ListenFd

\* notify_one, in the order of the descriptors and without g_mtx.  It wakes
\* the thread that waits for the descriptor at this moment, if there is one,
\* whatever has become of the input since select().
Notify ==
  LET d == Min(ready)
  IN  /\ ready # {}
      /\ ready' = ready \ {d}
      /\ apc' = IF d >= FirstFd /\ d = ListenFd /\ apc = "wait" THEN "lock" ELSE apc
      /\ hpc' = [c \in Clients |->
                   IF d >= FirstFd /\ fd[c] = d /\ hpc[c] = "waiting"
                   THEN "woken" ELSE hpc[c]]
      /\ UNCHANGED <<conn, fd, backlog, inbox, answered, rfds, clientVars, phase, need,
                     header, sock, gMtx>>

Notifier == SelectBegin \/ SelectEnd \/ Notify

\* wait() and wait_for() return without a notification; they have no predicate.
WakeSpuriously ==
  /\ SpuriousWakeups
  /\ \/ apc = "wait" /\ apc' = "lock" /\ UNCHANGED hpc
     \/ \E c \in Clients : /\ hpc[c] = "waiting"
                           /\ hpc' = [hpc EXCEPT ![c] = "woken"]
                           /\ UNCHANGED apc
  /\ UNCHANGED <<conn, fd, backlog, inbox, answered, rfds, ready, clientVars, phase,
                 need, header, sock, gMtx>>

-----------------------------------------------------------------------------
(* start(): the acceptor.                                                  *)

AcceptorLock ==
  /\ apc = "lock"
  /\ gMtx = None
  /\ apc' = "accept"
  /\ gMtx' = "acceptor"
  /\ UNCHANGED <<conn, fd, backlog, inbox, answered, rfds, ready, clientVars,
                 threadVars, sock>>

\* accept() blocks, with g_mtx held, until there is a connection.  Its
\* descriptor is the lowest that is not open; files are open too, so all that
\* is known here is that no connection has it.  A connection whose descriptor
\* is too large is closed at once.
Accept ==
  LET c == Head(backlog)
  IN  /\ apc = "accept"
      /\ backlog # <<>>
      /\ backlog' = Tail(backlog)
      /\ gMtx' = None
      /\ \E d \in {n \in Fds : \A b \in Clients : fd[b] # n} :
           \/ /\ d > MaxSockfd
              /\ conn' = [conn EXCEPT ![c] = "refused"]
              /\ inbox' = [inbox EXCEPT ![c] = <<>>]
              /\ apc' = "wait"
              /\ UNCHANGED <<fd, rfds, sock>>
           \/ /\ d <= MaxSockfd
              /\ conn' = [conn EXCEPT ![c] = "accepted"]
              /\ fd' = [fd EXCEPT ![c] = d]
              /\ rfds' = rfds \cup {d}
              /\ sock' = c
              /\ apc' = "spawn"
              /\ UNCHANGED inbox
      /\ UNCHANGED <<answered, ready, clientVars, threadVars>>

Spawn ==
  /\ apc = "spawn"
  /\ apc' = "wait"
  /\ hpc' = [hpc EXCEPT ![sock] = "loop"]
  /\ UNCHANGED <<conn, fd, backlog, inbox, answered, rfds, ready, clientVars, phase,
                 need, header, sock, gMtx>>

Acceptor == AcceptorLock \/ Accept \/ Spawn

-----------------------------------------------------------------------------
(* m_processRequest: the handler of a connection.                          *)

\* The loop of readFileDescriptor waits before every read().
Wait(c) ==
  /\ hpc[c] = "loop"
  /\ need[c] > 0
  /\ hpc' = [hpc EXCEPT ![c] = "waiting"]
  /\ UNCHANGED <<conn, fd, backlog, inbox, answered, rfds, ready, clientVars, phase,
                 need, header, acceptorVars>>

\* Mutant: the read goes on after a timeout.
TimeoutIgnored == "loop"

\* ETIMEDOUT ends the loop, and with it the connection.
AfterTimeout == "close"

\* m_connection_timeout_seconds have passed since the wait began.  How long
\* that is beside the steps of other threads is left open.
TimeOut(c) ==
  /\ hpc[c] = "waiting"
  /\ hpc' = [hpc EXCEPT ![c] = AfterTimeout]
  /\ UNCHANGED <<conn, fd, backlog, inbox, answered, rfds, ready, clientVars, phase,
                 need, header, acceptorVars>>

\* Mutant: read() is not limited to what the buffer lacks.
ReadUnlimited(c) == Len(inbox[c])

\* in_buffer_len - total_bytes_read
ReadLimit(c) == need[c]

\* read() returns some of the units that are there, 0 at the end of the
\* stream; until there is input it blocks, and no timeout applies.  Payload
\* that is taken for a header may look like any header.
Read(c) ==
  /\ hpc[c] = "woken"
  /\ \/ /\ inbox[c] # <<>>
        /\ \E n \in 1..Min({ReadLimit(c), Len(inbox[c])}) :
             /\ inbox' = [inbox EXCEPT ![c] = SubSeq(@, n + 1, Len(@))]
             /\ need' = [need EXCEPT ![c] = @ - n]
        /\ \/ /\ phase[c] = "header" /\ need[c] = HeaderLen
              /\ \E u \in IF Head(inbox[c]) = Body THEN Headers ELSE {Head(inbox[c])} :
                   header' = [header EXCEPT ![c] = u]
           \/ /\ phase[c] = "payload" \/ need[c] < HeaderLen
              /\ UNCHANGED header
        /\ hpc' = [hpc EXCEPT ![c] = "loop"]
     \/ /\ inbox[c] = <<>> /\ c \in hungUp
        /\ hpc' = [hpc EXCEPT ![c] = "close"]
        /\ UNCHANGED <<inbox, need, header>>
  /\ UNCHANGED <<conn, fd, backlog, answered, rfds, ready, clientVars, phase,
                 acceptorVars>>

\* Mutant: the connection goes on after a malformed header.
FormattingErrorIgnored == "loop"

\* SET_FORMATTING_ERROR clears transaction_in_progress.
AfterFormattingError == "close"

\* Mutant: the length is never extracted.
ContentLenLost(c) == {0}

\* extractHeaderFields: if TXN_ID or SEQ_NUM does not fit int, operator>> fails and
\* CONTENT_LEN stays 0.
ContentLen(c) == {header[c]} \cup (IF FieldsFit THEN {} ELSE {0})

\* A malformed header is answered with an error, which ends the connection.
GetContentLength(c) ==
  /\ hpc[c] = "loop" /\ phase[c] = "header" /\ need[c] = 0
  /\ \/ /\ header[c] = Malformed
        /\ answered' = [answered EXCEPT ![c] = @ + 1]
        /\ hpc' = [hpc EXCEPT ![c] = AfterFormattingError]
        /\ UNCHANGED <<phase, need>>
     \/ /\ header[c] # Malformed
        /\ phase' = [phase EXCEPT ![c] = "payload"]
        /\ \E n \in ContentLen(c) : need' = [need EXCEPT ![c] = n]
        /\ UNCHANGED <<answered, hpc>>
  /\ UNCHANGED <<conn, fd, backlog, inbox, rfds, ready, clientVars, header,
                 acceptorVars>>

\* The whole request is there, and the backend has to open or close a file
\* for it: File locks g_mtx for that.
UseFile(c) ==
  /\ hpc[c] = "loop" /\ phase[c] = "payload" /\ need[c] = 0
  /\ hpc' = [hpc EXCEPT ![c] = "file"]
  /\ UNCHANGED <<conn, fd, backlog, inbox, answered, rfds, ready, clientVars, phase,
                 need, header, acceptorVars>>

\* The backend processes the request and says whether the connection goes
\* on; the response is written, and a failure to write it ignored.
ProcessRequest(c) ==
  /\ \/ hpc[c] = "loop" /\ phase[c] = "payload" /\ need[c] = 0
     \/ hpc[c] = "file" /\ gMtx = None
  /\ answered' = [answered EXCEPT ![c] = @ + 1]
  /\ \/ /\ phase' = [phase EXCEPT ![c] = "header"]
        /\ need' = [need EXCEPT ![c] = HeaderLen]
        /\ hpc' = [hpc EXCEPT ![c] = "loop"]
     \/ /\ hpc' = [hpc EXCEPT ![c] = "close"]
        /\ UNCHANGED <<phase, need>>
  /\ UNCHANGED <<conn, fd, backlog, inbox, rfds, ready, clientVars, header,
                 acceptorVars>>

\* Mutant: the descriptor stays in m_rfds.
Uncleared(d) == rfds

\* FD_CLR
Cleared(d) == rfds \ {d}

\* close() and FD_CLR, under g_mtx.
Close(c) ==
  /\ hpc[c] = "close"
  /\ gMtx = None
  /\ hpc' = [hpc EXCEPT ![c] = "done"]
  /\ conn' = [conn EXCEPT ![c] = "closed"]
  /\ fd' = [fd EXCEPT ![c] = 0]
  /\ inbox' = [inbox EXCEPT ![c] = <<>>]
  /\ rfds' = Cleared(fd[c])
  /\ UNCHANGED <<backlog, answered, ready, clientVars, phase, need, header,
                 acceptorVars>>

Handler(c) ==
  \/ Wait(c) \/ TimeOut(c) \/ Read(c)
  \/ GetContentLength(c) \/ UseFile(c) \/ ProcessRequest(c) \/ Close(c)

-----------------------------------------------------------------------------

Next ==
  \/ \E c \in Clients : Client(c) \/ Handler(c)
  \/ Notifier
  \/ WakeSpuriously
  \/ Acceptor

Spec == Init /\ [][Next]_vars

\* Threads that can run do run, and a deadline that nothing moves passes.  The
\* notifier takes g_mtx again as soon as it has released it: that whoever
\* waits for g_mtx gets it in the end is strong fairness.  (A thread is at
\* one place at a time, so fairness of the thread is fairness of that step.)
\* Nothing is assumed of the clients.
FairSpec ==
  /\ Spec
  /\ WF_vars(Notifier)
  /\ SF_vars(Acceptor)
  /\ \A c \in Clients : SF_vars(Handler(c))

-----------------------------------------------------------------------------
(* Properties.                                                             *)

Live(c) == hpc[c] \in {"loop", "waiting", "woken", "file", "close"}

\* m_rfds has exactly the open descriptors, all of them indices of m_fd_cvs
\* and m_fd_mtxs, and every open descriptor has exactly one thread that will
\* close it: its handler, or the acceptor that is about to start one.
DescriptorsTracked ==
  /\ rfds = {ListenFd} \cup {fd[c] : c \in {x \in Clients : conn[x] = "accepted"}}
  /\ \A d \in rfds : d <= MaxSockfd
  /\ \A c \in Clients :
       conn[c] = "accepted" <=> (Live(c) \/ (apc = "spawn" /\ sock = c))
  /\ \A b, c \in Clients : fd[b] = fd[c] /\ fd[b] # 0 => b = c

\* Units of the current request that the handler has not read.
Expected(c) ==
  IF phase[c] = "payload" THEN need[c]
  ELSE IF need[c] < HeaderLen THEN need[c] + PayloadLen(header[c]) ELSE 0

\* "CONTENT_LEN - Used to indicate the number of bytes in the DATA field"
\* (README): a handler and its stream are in step.  What it will read as the
\* rest of a header or as payload belongs to its request, and where it expects
\* the next header one begins, wherever the stream was cut into packets.
InStep ==
  \A c \in Clients : hpc[c] \in {"loop", "waiting", "woken", "file"} =>
    /\ \A j \in 1..Len(inbox[c]) : j <= Expected(c) => inbox[c][j] = Body
    /\ Len(inbox[c]) > Expected(c) => inbox[c][Expected(c) + 1] # Body

\* Places where requests begin in a stream.
HeaderPlaces(s) == {j \in 1..Len(s) : s[j] # Body}

Begun(c) == IF phase[c] = "payload" \/ need[c] < HeaderLen THEN 1 ELSE 0

Counted(c) == sent[c] = answered[c] + Begun(c) + Cardinality(HeaderPlaces(inbox[c]))

\* While a connection lives, every request that began is answered, being
\* read or processed, or still in the stream: none is skipped, and none is
\* answered twice.
ResponsesMatchRequests ==
  \A c \in Clients : hpc[c] \in {"loop", "waiting", "woken", "file"} => Counted(c)

\* The acceptor is in accept(), with g_mtx, and nobody connects.
Stalled == apc = "accept" /\ backlog = <<>>

\* The handler of c is in read(), where no timeout applies, and nothing comes.
ReadBlocked(c) == hpc[c] = "woken" /\ ~HasInput(c)

\* Every connection is closed in the end, whatever its client does: by the
\* timeout, at the end of the stream or after a request that ends it.  Only two
\* things keep one open for ever, an acceptor that stays in accept() with g_mtx
\* and a handler that stays in read(); lost notifications, competition for
\* g_mtx and descriptors that are used again do not.
ConnectionsEnd ==
  \A c \in Clients :
    <>[](conn[c] = "accepted") => <>[]Stalled \/ <>[]ReadBlocked(c)

\* "ServerDispatcher will terminate a connection if
\* m_connection_timeout_seconds elapse without receiving a packet" (class
\* comment), looked at while the acceptor does not stall.
SilentConnectionsEnd ==
  \A c \in Clients : conn[c] = "accepted" ~> (conn[c] = "closed" \/ Stalled)

\* The same comment, for clients that have closed their end, so that read()
\* does not block.
HungUpConnectionsEnd ==
  \A c \in Clients : conn[c] = "accepted" /\ c \in hungUp ~> conn[c] = "closed"

\* "Incoming connections from clients are accepted by the ServerDispatcher":
\* each is accepted, or refused because all descriptors are in use.
ConnectionsAccepted ==
  \A c \in Clients : conn[c] = "pending" ~> conn[c] # "pending"

-----------------------------------------------------------------------------
(* What makes the properties inductive.                                    *)

\* The n units after place j are units Body and a request begins next, as far as
\* they have arrived; the rest is what the client owes.
Follow(s, j, n, rest) ==
  /\ \A k \in (j + 1)..(j + n) : k <= Len(s) => s[k] = Body
  /\ j + n < Len(s) => s[j + n + 1] # Body
  /\ j + n >= Len(s) => rest = (j + n) - Len(s)

\* A stream that begins with the rest of a request that is being read.
Framed(s, lead, rest) ==
  /\ Follow(s, 0, lead, rest)
  /\ \A j \in 1..Len(s) : s[j] # Body => Follow(s, j, Extent(s[j]), rest)

\* The connection was not refused, and its handler has not given it up.
Streaming(c) ==
  /\ conn[c] \in {"new", "pending", "accepted"}
  /\ hpc[c] \in {"none", "loop", "waiting", "woken", "file"}

StreamsOK ==
  \A c \in Clients : Streaming(c) => Framed(inbox[c], Expected(c), owes[c]) /\ Counted(c)

\* Where a handler is in its request.
HandlerOK(c) ==
  /\ phase[c] = "header" => need[c] <= HeaderLen
  /\ hpc[c] = "none" => phase[c] = "header" /\ need[c] = HeaderLen
  /\ hpc[c] = "file" => phase[c] = "payload" /\ need[c] = 0

HandlersOK == \A c \in Clients : HandlerOK(c)

\* Connection, descriptor and handler of a client belong together.
ConnectionOK(c) ==
  /\ conn[c] \in {"new", "pending", "refused"} => fd[c] = 0 /\ hpc[c] = "none"
  /\ conn[c] = "accepted" => fd[c] \in Fds /\ hpc[c] # "done"
  /\ conn[c] = "closed" => fd[c] = 0 /\ hpc[c] = "done"

ConnectionsOK ==
  /\ \A c \in Clients : ConnectionOK(c)
  /\ \A j \in 1..Len(backlog) : conn[backlog[j]] = "pending"
  /\ \A i, j \in 1..Len(backlog) : backlog[i] = backlog[j] => i = j
  /\ apc = "spawn" => sock \in Clients /\ hpc[sock] = "none"
=============================================================================
