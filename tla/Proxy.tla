--------------------------------- MODULE Proxy ---------------------------------
(***************************************************************************)
(* The web proxy of lab10/proxy.c: main accepts connections and starts a   *)
(* thread for each, which relays a request to a server and the response    *)
(* back, and logs it.  A thread has the name of the client it is for, but  *)
(* all it knows of it is the descriptor it finds in its argument.          *)
(*                                                                         *)
(* A peer's message is a sequence of items, lines and bytes.  What comes   *)
(* of it is up to the peer, who may hang up at any time; an item arrives   *)
(* when the proxy reads it.  A failed read is as good as an end of file,   *)
(* and once a peer has hung up, a write to it may fail or go unnoticed.    *)
(***************************************************************************)
EXTENDS Integers, Sequences

CONSTANTS
  Client,               \* the connections that come in, and their threads
  FD,                   \* the descriptors beyond the standard ones and listenfd
  NewFD(_),             \* which of the unused ones the kernel hands out
  Cell,                 \* the memory blocks malloc can give to main
  Requests, Responses,  \* the messages of clients and of servers
  Patient               \* the connections whose peers answer in the end

Closed == <<>>       \* in the descriptor table; no connection to start a thread for
NULL == -1           \* no descriptor yet; a memory block not allocated

ASSUME DescriptorAssumption ==
  /\ FD \subseteq Nat \ {0} /\ Cell \subseteq Nat \ {0} /\ Patient \subseteq Client
  /\ \A F \in SUBSET FD : F # {} => NewFD(F) \in F

(***************************************************************************)
(* A "bad" line is one that sscanf or parse_uri rejects; a good request    *)
(* line is the same item before and after doit writes it anew.  A "length" *)
(* line announces val bytes; an "end" line is the empty one after the      *)
(* headers.  Byte(0) is the first character of some line.                  *)
(***************************************************************************)
Item == [kind : {"bad", "line", "length", "end", "byte"}, val : Int]
Byte(n) == [kind |-> "byte", val |-> n]

\* A stream as the proxy reads it: lines up to the empty one, bytes from there on
LinesThenBytes(m) ==
  \A k \in DOMAIN m : m[k].kind = "byte" <=> \E j \in 1 .. (k - 1) : m[j].kind = "end"

ASSUME MessageAssumption ==
  \A m \in Requests \cup Responses : m \in Seq(Item) /\ LinesThenBytes(m)

\* The two ends of the connections of a client's thread
Peer == Client \X {"client", "server"}

VARIABLES
  message,           \* what each peer has to say
  taken, got,        \* how much of it was read; what the peer was sent
  hung,              \* the peers that have hung up
  fds,               \* the descriptor table: the peer at the other end
  main, arrived,     \* main: where it is; the thread to create and its argument
  block,             \* malloc's memory: the descriptor main put into a block
  pc, p,             \* a thread: where it is, and its argument
  connfd, clientfd,  \* the rest are locals of doit
  req_bodysize, res_headsize, res_bodysize, i, buf,
  s, log

network == <<message, taken, got, hung>>
mainvars == <<main, arrived, block>>
sizes == <<req_bodysize, res_headsize, res_bodysize>>
locals == <<p, connfd, clientfd, sizes, i, buf>>
logging == <<s, log>>
vars == <<network, fds, mainvars, pc, locals, logging>>

ThreadPC == {"none", "start", "reqline", "reqhdr", "connect", "send", "reqbody", "reshdr",
             "resbody", "abandon", "finish", "P", "print", "V", "close", "done"}

\* Where main and the threads are, and which descriptors they hold
ControlTypeOK ==
  /\ fds \in [FD -> Peer \cup {Closed}]
  /\ main \in {"accept", "create", "died"}
  /\ arrived \in (Client \X Cell) \cup {Closed}
  /\ block \in [Cell -> FD \cup {NULL}]
  /\ pc \in [Client -> ThreadPC]
  /\ p \in [Client -> Cell \cup {0}]
  /\ connfd \in [Client -> FD \cup {NULL}] /\ clientfd \in [Client -> FD \cup {NULL}]

TypeOK ==
  /\ ControlTypeOK
  /\ message \in [Peer -> Seq(Item)]
  /\ taken \in [Peer -> Nat] /\ got \in [Peer -> Seq(Item)] /\ hung \subseteq Peer
  /\ req_bodysize \in [Client -> Int] /\ res_bodysize \in [Client -> Int]
  /\ res_headsize \in [Client -> Nat]
  /\ i \in [Client -> Nat] /\ buf \in [Client -> Item]
  /\ s \in {0, 1}
  /\ log \in Seq([client : Client, size : Int])

Init ==
  /\ \E rq \in [Client -> Requests], rs \in [Client -> Responses] :
       message = [e \in Peer |-> IF e[2] = "client" THEN rq[e[1]] ELSE rs[e[1]]]
  /\ taken = [e \in Peer |-> 0] /\ got = [e \in Peer |-> <<>>] /\ hung = {}
  /\ fds = [f \in FD |-> Closed]
  /\ main = "accept" /\ arrived = Closed /\ block = [b \in Cell |-> NULL]
  /\ pc = [c \in Client |-> "none"] /\ p = [c \in Client |-> 0]
  /\ connfd = [c \in Client |-> NULL] /\ clientfd = [c \in Client |-> NULL]
  /\ req_bodysize = [c \in Client |-> 0]
  /\ res_headsize = [c \in Client |-> 0] /\ res_bodysize = [c \in Client |-> 0]
  /\ i = [c \in Client |-> 0] /\ buf = [c \in Client |-> Byte(0)]
  /\ s = 1 /\ log = <<>>

Alive == main # "died"
At(c, point) == Alive /\ pc[c] = point
Goto(c, point) == pc' = [pc EXCEPT ![c] = point]

FreeFDs == {f \in FD : fds[f] = Closed}

-----------------------------------------------------------------------------
(* main.  Every wrapper it calls ends the process when its call fails.     *)

FreeBlocks_Static == {CHOOSE b \in Cell : TRUE}
FreeBlocks == {b \in Cell : block[b] = NULL}

\* Malloc, Accept and Getnameinfo
Accept(c) ==
  /\ main = "accept" /\ pc[c] = "none"
  /\ FreeFDs # {}
  /\ \E b \in FreeBlocks :
       /\ block' = [block EXCEPT ![b] = NewFD(FreeFDs)]
       /\ arrived' = <<c, b>>
  /\ fds' = [fds EXCEPT ![NewFD(FreeFDs)] = <<c, "client">>]
  /\ main' = "create"
  /\ UNCHANGED <<network, pc, locals, logging>>

Pthread_create ==
  /\ main = "create"
  /\ Goto(arrived[1], "start")
  /\ p' = [p EXCEPT ![arrived[1]] = arrived[2]]
  /\ main' = "accept" /\ arrived' = Closed
  /\ UNCHANGED <<network, fds, block, connfd, clientfd, sizes, i, buf, logging>>

MainFails ==
  /\ Alive
  /\ main' = "died"
  /\ UNCHANGED <<network, fds, arrived, block, pc, locals, logging>>

-----------------------------------------------------------------------------
(* Reading and writing.                                                    *)

\* rio_readlineb or rio_readnb of one byte on descriptor f: an item, or none.
Arrives(f) == fds[f] # Closed /\ fds[f] \notin hung /\ taken[fds[f]] < Len(message[fds[f]])
NextItem(f) == message[fds[f]][taken[fds[f]] + 1]
Take(f) == taken' = [taken EXCEPT ![fds[f]] = @ + 1]
EndOfFile(f) == fds[f] = Closed \/ fds[f] \in hung

\* rio_writen
WriteSucceeds(f, items) ==
  /\ fds[f] # Closed
  /\ got' = [got EXCEPT ![fds[f]] = @ \o items]
WriteFails(f) ==
  /\ fds[f] = Closed \/ fds[f] \in hung
  /\ UNCHANGED got

close(f) == fds' = [fds EXCEPT ![f] = Closed]

-----------------------------------------------------------------------------
(* A thread: thread and doit.                                              *)

Start(c) ==
  /\ At(c, "start")
  /\ connfd' = [connfd EXCEPT ![c] = block[p[c]]]
  /\ block' = [block EXCEPT ![p[c]] = NULL]
  /\ p' = [p EXCEPT ![c] = 0]
  /\ Goto(c, "reqline")
  /\ UNCHANGED <<network, fds, main, arrived, clientfd, sizes, i, buf, logging>>

RequestLine(c) ==
  /\ At(c, "reqline")
  /\ \/ EndOfFile(connfd[c]) /\ Goto(c, "close") /\ UNCHANGED taken
     \/ /\ Arrives(connfd[c]) /\ Take(connfd[c])
        /\ Goto(c, IF NextItem(connfd[c]).kind = "line" THEN "reqhdr" ELSE "close")
  /\ UNCHANGED <<message, got, hung, fds, mainvars, locals, logging>>

\* The loop ends at the empty line, and at the end of the file too.
RequestHeader(c) ==
  LET item == NextItem(connfd[c])
  IN  /\ At(c, "reqhdr")
      /\ \/ EndOfFile(connfd[c]) /\ Goto(c, "connect") /\ UNCHANGED <<taken, req_bodysize>>
         \/ /\ Arrives(connfd[c]) /\ Take(connfd[c])
            /\ req_bodysize' = [req_bodysize EXCEPT ![c] = IF item.kind = "length" THEN item.val ELSE @]
            /\ Goto(c, IF item.kind = "end" THEN "connect" ELSE "reqhdr")
      /\ UNCHANGED <<message, got, hung, fds, mainvars, p, connfd, clientfd,
                     res_headsize, res_bodysize, i, buf, logging>>

\* open_clientfd fails when no descriptor is left, or no server answers.
Connect(c) ==
  /\ At(c, "connect")
  /\ \/ Goto(c, "close") /\ UNCHANGED <<fds, clientfd>>
     \/ /\ FreeFDs # {}
        /\ fds' = [fds EXCEPT ![NewFD(FreeFDs)] = <<c, "server">>]
        /\ clientfd' = [clientfd EXCEPT ![c] = NewFD(FreeFDs)]
        /\ Goto(c, "send")
  /\ UNCHANGED <<network, mainvars, p, connfd, sizes, i, buf, logging>>

\* The request line and the headers as far as they came
SendRequest(c) ==
  LET from == fds[connfd[c]]
  IN  /\ At(c, "send")
      /\ \/ WriteSucceeds(clientfd[c], SubSeq(message[from], 1, taken[from])) /\ Goto(c, "reqbody")
         \/ WriteFails(clientfd[c]) /\ Goto(c, "abandon")
      /\ UNCHANGED <<message, taken, hung, fds, mainvars, locals, logging>>

-----------------------------------------------------------------------------
(***************************************************************************)
(* The bodies, a byte at a time.  A turn reads a byte, or keeps the one in *)
(* the buffer when nothing comes any more, and writes it.                  *)
(***************************************************************************)
GivesUpRequest_Never(c) == FALSE
GivesUpRequest(c) == i[c] + 1 = req_bodysize[c]
GivesUpResponse_Never(c) == FALSE
GivesUpResponse(c) == i[c] # res_bodysize[c] - 1

RelayByte(c, from, to, givesUp) ==
  \/ /\ EndOfFile(from) /\ givesUp
     /\ Goto(c, "abandon")
     /\ UNCHANGED <<taken, got, i, buf>>
  \/ /\ \/ EndOfFile(from) /\ ~givesUp /\ UNCHANGED <<taken, buf>>
        \/ Arrives(from) /\ Take(from) /\ buf' = [buf EXCEPT ![c] = NextItem(from)]
     /\ \/ /\ WriteSucceeds(to, <<buf'[c]>>)
           /\ i' = [i EXCEPT ![c] = @ + 1]
           /\ UNCHANGED pc
        \/ WriteFails(to) /\ Goto(c, "abandon") /\ UNCHANGED i

RequestBody(c) ==
  /\ At(c, "reqbody")
  /\ \/ /\ i[c] >= req_bodysize[c]
        /\ i' = [i EXCEPT ![c] = 0] /\ buf' = [buf EXCEPT ![c] = Byte(0)]
        /\ Goto(c, "reshdr")
        /\ UNCHANGED <<taken, got>>
     \/ /\ i[c] < req_bodysize[c]
        /\ RelayByte(c, connfd[c], clientfd[c], GivesUpRequest(c))
  /\ UNCHANGED <<message, hung, fds, mainvars, p, connfd, clientfd, sizes, logging>>

ResponseHeader(c) ==
  LET item == NextItem(clientfd[c])
  IN  /\ At(c, "reshdr")
      /\ \/ /\ EndOfFile(clientfd[c])
            /\ Goto(c, "abandon")
            /\ UNCHANGED <<taken, got, res_headsize, res_bodysize>>
         \/ /\ Arrives(clientfd[c]) /\ Take(clientfd[c])
            /\ res_headsize' = [res_headsize EXCEPT ![c] = @ + 1]
            /\ res_bodysize' = [res_bodysize EXCEPT ![c] = IF item.kind = "length" THEN item.val ELSE @]
            /\ \/ /\ WriteSucceeds(connfd[c], <<item>>)
                  /\ Goto(c, IF item.kind = "end" THEN "resbody" ELSE "reshdr")
               \/ WriteFails(connfd[c]) /\ Goto(c, "abandon")
      /\ UNCHANGED <<message, hung, fds, mainvars, p, connfd, clientfd, req_bodysize, i, buf, logging>>

ResponseBody(c) ==
  /\ At(c, "resbody")
  /\ \/ /\ i[c] >= res_bodysize[c]
        /\ Goto(c, "finish")
        /\ UNCHANGED <<taken, got, i, buf>>
     \/ /\ i[c] < res_bodysize[c]
        /\ RelayByte(c, clientfd[c], connfd[c], GivesUpResponse(c))
  /\ UNCHANGED <<message, hung, fds, mainvars, p, connfd, clientfd, sizes, logging>>

-----------------------------------------------------------------------------
(* The end: close(clientfd), the log, close(connfd).                       *)

Abandon_AndLog(c) ==
  /\ At(c, "abandon")
  /\ close(clientfd[c])
  /\ clientfd' = [clientfd EXCEPT ![c] = NULL]
  /\ Goto(c, "P")
  /\ UNCHANGED <<network, mainvars, p, connfd, sizes, i, buf, logging>>

Abandon(c) ==
  /\ At(c, "abandon")
  /\ close(clientfd[c])
  /\ clientfd' = [clientfd EXCEPT ![c] = NULL]
  /\ Goto(c, "close")
  /\ UNCHANGED <<network, mainvars, p, connfd, sizes, i, buf, logging>>

Finish(c) ==
  /\ At(c, "finish")
  /\ close(clientfd[c])
  /\ clientfd' = [clientfd EXCEPT ![c] = NULL]
  /\ Goto(c, "P")
  /\ UNCHANGED <<network, mainvars, p, connfd, sizes, i, buf, logging>>

P_Missing(c) ==
  /\ At(c, "P")
  /\ Goto(c, "print")
  /\ UNCHANGED <<network, fds, mainvars, locals, logging>>
P(c) ==
  /\ At(c, "P") /\ s > 0
  /\ s' = s - 1
  /\ Goto(c, "print")
  /\ UNCHANGED <<network, fds, mainvars, locals, log>>

PrintLog(c) ==
  /\ At(c, "print")
  /\ log' = Append(log, [client |-> c, size |-> res_bodysize[c] + res_headsize[c]])
  /\ Goto(c, "V")
  /\ UNCHANGED <<network, fds, mainvars, locals, s>>

V_Missing(c) ==
  /\ At(c, "V")
  /\ Goto(c, "close")
  /\ UNCHANGED <<network, fds, mainvars, locals, logging>>
V(c) ==
  /\ At(c, "V")
  /\ s' = s + 1
  /\ Goto(c, "close")
  /\ UNCHANGED <<network, fds, mainvars, locals, log>>

CloseConnection(c) ==
  /\ At(c, "close")
  /\ close(connfd[c])
  /\ connfd' = [connfd EXCEPT ![c] = NULL]
  /\ Goto(c, "done")
  /\ UNCHANGED <<network, mainvars, p, clientfd, sizes, i, buf, logging>>

-----------------------------------------------------------------------------
Hangup(e) ==
  /\ Alive /\ e \notin hung
  /\ \E f \in FD : fds[f] = e
  /\ hung' = hung \cup {e}
  /\ UNCHANGED <<message, taken, got, fds, mainvars, pc, locals, logging>>

\* The steps that wait for a peer, and the others
Exchange(c) ==
  \/ RequestLine(c) \/ RequestHeader(c) \/ SendRequest(c) \/ RequestBody(c)
  \/ ResponseHeader(c) \/ ResponseBody(c)
Proceed(c) ==
  \/ Start(c) \/ Connect(c) \/ Abandon(c) \/ Finish(c)
  \/ P(c) \/ PrintLog(c) \/ V(c) \/ CloseConnection(c)

Next ==
  \/ \E c \in Client : Accept(c) \/ Exchange(c) \/ Proceed(c)
  \/ Pthread_create
  \/ MainFails
  \/ \E e \in Peer : Hangup(e)

Spec == Init /\ [][Next]_vars

(***************************************************************************)
(* Threads run.  The peers of a patient connection answer as long as they  *)
(* have something to say, and then hang up; the others owe nothing.        *)
(***************************************************************************)
SaidAll(e) == taken[e] = Len(message[e]) /\ Hangup(e)
Fairness ==
  /\ \A c \in Client : WF_vars(Proceed(c))
  /\ \A c \in Patient : WF_vars(Exchange(c)) /\ \A e \in {c} \X {"client", "server"} : WF_vars(SaidAll(e))
FairSpec == Spec /\ Fairness
=============================================================================
