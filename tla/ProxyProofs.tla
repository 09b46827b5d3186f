------------------------------ MODULE ProxyProofs ------------------------------
(***************************************************************************)
(* Proofs about the proxy, for every number of connections, descriptors    *)
(* and memory blocks, and every set of messages.                           *)
(***************************************************************************)
EXTENDS ProxyProps, SequenceTheorems, FiniteSetTheorems, WellFoundedInduction, TLAPS

\* A connection on its way from main to its thread: the block leads to it.
Handed ==
  /\ main = "create" => arrived # Closed
  /\ main = "accept" => arrived = Closed
  /\ arrived # Closed =>
       /\ pc[arrived[1]] = "none"
       /\ block[arrived[2]] \in FD
       /\ fds[block[arrived[2]]] = <<arrived[1], "client">>
Starting ==
  \A c \in Client : pc[c] = "start" =>
    p[c] \in Cell /\ block[p[c]] \in FD /\ fds[block[p[c]]] = <<c, "client">>

\* A thread's locals hold its descriptors.
Holding ==
  \A c \in Client :
    /\ pc[c] \in Serving => connfd[c] \in FD /\ fds[connfd[c]] = <<c, "client">>
    /\ pc[c] \in Connected => clientfd[c] \in FD /\ fds[clientfd[c]] = <<c, "server">>

\* What is open is held.
Held(f) ==
  LET c == fds[f][1]
  IN  \/ fds[f][2] = "client" /\ pc[c] \in Serving /\ connfd[c] = f
      \/ fds[f][2] = "client" /\ pc[c] = "start" /\ block[p[c]] = f
      \/ fds[f][2] = "client" /\ main \in {"create", "died"} /\ arrived # Closed
           /\ arrived[1] = c /\ block[arrived[2]] = f
      \/ fds[f][2] = "server" /\ pc[c] \in Connected /\ clientfd[c] = f
NoLeak == \A f \in FD : fds[f] # Closed => Held(f)

ControlInv == ControlTypeOK /\ Handed /\ Starting /\ Holding /\ NoLeak

LEMMA ControlInit == Init => ControlInv
BY DescriptorAssumption DEF Init, ControlInv, ControlTypeOK, Handed, Starting, Holding, NoLeak, ThreadPC, Serving, Connected, Closed

\* Accept takes a block nobody uses and a descriptor that is not open.
LEMMA AcceptControl ==
  ASSUME ControlInv, NEW c \in Client, Accept(c)
  PROVE  ControlInv'
<1> DEFINE f == NewFD(FreeFDs)
<1>1. f \in FD /\ fds[f] = Closed
  BY DescriptorAssumption DEF Accept, FreeFDs
<1>2. PICK b \in Cell : block[b] = NULL /\ block' = [block EXCEPT ![b] = f] /\ arrived' = <<c, b>>
  BY DEF Accept, FreeBlocks
<1>3. fds' = [fds EXCEPT ![f] = <<c, "client">>] /\ main' = "create" /\ main = "accept"
      /\ pc[c] = "none" /\ arrived = Closed /\ UNCHANGED <<pc, p, connfd, clientfd>>
  BY DEF Accept, ControlInv, Handed, locals
<1> HIDE DEF f
<1>4. NULL \notin FD
  BY DescriptorAssumption DEF NULL
<1>5. ControlTypeOK'
  BY <1>1, <1>2, <1>3 DEF ControlInv, ControlTypeOK, Peer
<1>6. Handed'
  BY <1>1, <1>2, <1>3 DEF ControlInv, ControlTypeOK, Handed, Closed
<1>7. Starting'
  BY <1>1, <1>2, <1>3, <1>4 DEF ControlInv, ControlTypeOK, Starting, Closed
<1>8. Holding'
  BY <1>1, <1>2, <1>3 DEF ControlInv, ControlTypeOK, Holding, Closed
<1>9. NoLeak'
  BY <1>1, <1>2, <1>3, <1>4 DEF ControlInv, ControlTypeOK, NoLeak, Held, Starting, Closed
<1> QED BY <1>5, <1>6, <1>7, <1>8, <1>9 DEF ControlInv

LEMMA CreateControl ==
  ASSUME ControlInv, Pthread_create
  PROVE  ControlInv'
<1>1. PICK c \in Client, b \in Cell : arrived = <<c, b>>
  BY DEF Pthread_create, ControlInv, ControlTypeOK, Handed
<1>2. /\ pc' = [pc EXCEPT ![c] = "start"] /\ p' = [p EXCEPT ![c] = b]
      /\ main = "create" /\ main' = "accept" /\ arrived' = Closed
      /\ UNCHANGED <<fds, block, connfd, clientfd>>
  BY <1>1 DEF Pthread_create, Goto
<1>3. arrived # Closed /\ pc[c] = "none" /\ block[b] \in FD /\ fds[block[b]] = <<c, "client">>
  BY <1>1 DEF ControlInv, Handed, Pthread_create
<1>4. ControlTypeOK'
  BY <1>2 DEF ControlInv, ControlTypeOK, ThreadPC
<1>5. Handed'
  BY <1>2 DEF Handed
<1>6. Starting'
  BY <1>2, <1>3 DEF ControlInv, ControlTypeOK, Starting
<1>7. Holding'
  BY <1>2, <1>3 DEF ControlInv, ControlTypeOK, Holding, Serving, Connected
<1>8. NoLeak'
  <2> SUFFICES ASSUME NEW f \in FD, fds[f] # Closed PROVE Held(f)'
    BY <1>2 DEF NoLeak
  <2>1. Held(f)
    BY DEF ControlInv, NoLeak
  <2> QED BY <1>1, <1>2, <1>3, <2>1 DEF Held, ControlInv, ControlTypeOK, Serving, Connected
<1> QED BY <1>4, <1>5, <1>6, <1>7, <1>8 DEF ControlInv

LEMMA FailControl ==
  ASSUME ControlInv, MainFails
  PROVE  ControlInv'
BY DEF ControlInv, ControlTypeOK, Handed, Starting, Holding, NoLeak, Held, MainFails, Alive, locals

\* The block leads to the thread's connection still: nobody else got it.
LEMMA StartControl ==
  ASSUME ControlInv, NEW c \in Client, Start(c)
  PROVE  ControlInv'
<1> DEFINE f == block[p[c]]
<1>1. pc[c] = "start" /\ p[c] \in Cell /\ f \in FD /\ fds[f] = <<c, "client">>
  BY DEF Start, At, ControlInv, Starting
<1>2. /\ connfd' = [connfd EXCEPT ![c] = f] /\ block' = [block EXCEPT ![p[c]] = NULL]
      /\ p' = [p EXCEPT ![c] = 0] /\ pc' = [pc EXCEPT ![c] = "reqline"]
      /\ UNCHANGED <<fds, main, arrived, clientfd>>
  BY DEF Start, Goto
<1>3. ControlTypeOK'
  BY <1>1, <1>2 DEF ControlInv, ControlTypeOK, ThreadPC
<1>4. Handed'
  BY <1>1, <1>2 DEF ControlInv, ControlTypeOK, Handed
<1>5. Starting'
  BY <1>1, <1>2 DEF ControlInv, ControlTypeOK, Starting
<1>6. Holding'
  BY <1>1, <1>2 DEF ControlInv, ControlTypeOK, Holding, Serving, Connected
<1>7. NoLeak'
  <2> SUFFICES ASSUME NEW g \in FD, fds[g] # Closed PROVE Held(g)'
    BY <1>2 DEF NoLeak
  <2>1. Held(g)
    BY DEF ControlInv, NoLeak
  <2>2. CASE g = f
    <3>1. fds'[g] = <<c, "client">>
      BY <1>1, <1>2, <2>2
    <3>2. pc'[c] \in Serving /\ connfd'[c] = g
      BY <1>1, <1>2, <2>2 DEF ControlInv, ControlTypeOK, Serving, ThreadPC
    <3> QED BY <3>1, <3>2 DEF Held
  <2>3. CASE g # f
    BY <1>1, <1>2, <2>1, <2>3 DEF Held, ControlInv, ControlTypeOK, Serving, Connected, Starting, Handed
  <2> QED BY <2>2, <2>3
<1> QED BY <1>3, <1>4, <1>5, <1>6, <1>7 DEF ControlInv

(***************************************************************************)
(* Between these points a thread neither opens nor closes anything.  The   *)
(* points "reqline" ... "connect" and "P" ... "close" are those without a  *)
(* connection to the server.                                               *)
(***************************************************************************)
LEMMA GoOnControl ==
  ASSUME ControlInv, NEW c \in Client, NEW point \in Serving,
         pc[c] \in Serving, pc[c] \in Connected <=> point \in Connected,
         Goto(c, point), UNCHANGED <<fds, main, arrived, block, p, connfd, clientfd>>
  PROVE  ControlInv'
<1>1. ControlTypeOK'
  BY DEF ControlInv, ControlTypeOK, Goto, Serving
<1>2. Handed'
  BY DEF ControlInv, ControlTypeOK, Handed, Goto, Serving
<1>3. Starting'
  BY DEF ControlInv, ControlTypeOK, Starting, Goto, Serving
<1>4. Holding'
  BY DEF ControlInv, ControlTypeOK, Holding, Goto
<1>5. NoLeak'
  BY DEF ControlInv, ControlTypeOK, NoLeak, Held, Goto, Serving
<1> QED BY <1>1, <1>2, <1>3, <1>4, <1>5 DEF ControlInv

LEMMA ConnectControl ==
  ASSUME ControlInv, NEW c \in Client, Connect(c)
  PROVE  ControlInv'
<1>1. pc[c] = "connect"
  BY DEF Connect, At
<1>2. CASE Goto(c, "close") /\ UNCHANGED <<fds, clientfd>>
  BY <1>1, <1>2, GoOnControl DEF Connect, mainvars, Serving, Connected, ThreadPC
<1>3. CASE FreeFDs # {} /\ Goto(c, "send")
  <2> DEFINE f == NewFD(FreeFDs)
  <2>1. f \in FD /\ fds[f] = Closed
    BY <1>3, DescriptorAssumption DEF FreeFDs
  <2>2. /\ fds' = [fds EXCEPT ![f] = <<c, "server">>] /\ clientfd' = [clientfd EXCEPT ![c] = f]
        /\ pc' = [pc EXCEPT ![c] = "send"] /\ UNCHANGED <<main, arrived, block, p, connfd>>
    BY <1>1, <1>3 DEF Connect, Goto, mainvars, ControlInv, ControlTypeOK
  <2> HIDE DEF f
  <2>3. ControlTypeOK'
    BY <2>1, <2>2 DEF ControlInv, ControlTypeOK, Peer, ThreadPC
  <2>4. Handed'
    BY <1>1, <2>1, <2>2 DEF ControlInv, ControlTypeOK, Handed, Closed
  <2>5. Starting'
    BY <2>1, <2>2 DEF ControlInv, ControlTypeOK, Starting, Closed
  <2>6. Holding'
    BY <1>1, <2>1, <2>2 DEF ControlInv, ControlTypeOK, Holding, Closed, Serving, Connected, ThreadPC
  <2>7. NoLeak'
    <3> SUFFICES ASSUME NEW g \in FD, fds'[g] # Closed PROVE Held(g)'
      BY DEF NoLeak
    <3>1. CASE g = f
      BY <2>1, <2>2, <3>1 DEF Held, ControlInv, ControlTypeOK, Connected
    <3>2. CASE g # f
      <4>1. fds'[g] = fds[g] /\ Held(g)
        BY <2>2, <3>2 DEF ControlInv, ControlTypeOK, NoLeak
      <4> QED BY <1>1, <2>2, <4>1 DEF Held, ControlInv, ControlTypeOK, Serving, Connected, ThreadPC
    <3> QED BY <3>1, <3>2
  <2> QED BY <2>3, <2>4, <2>5, <2>6, <2>7 DEF ControlInv
<1> QED BY <1>2, <1>3 DEF Connect

\* close(clientfd) closes nothing but the thread's own connection to the server.
LEMMA DisconnectControl ==
  ASSUME ControlInv, NEW c \in Client, NEW point \in Serving \ Connected,
         pc[c] \in Connected, Goto(c, point),
         close(clientfd[c]), clientfd' = [clientfd EXCEPT ![c] = NULL],
         UNCHANGED <<main, arrived, block, p, connfd>>
  PROVE  ControlInv'
<1> DEFINE f == clientfd[c]
<1>1. f \in FD /\ fds[f] = <<c, "server">>
  BY DEF ControlInv, Holding
<1>2. fds' = [fds EXCEPT ![f] = Closed] /\ pc' = [pc EXCEPT ![c] = point]
  BY DEF close, Goto
<1> HIDE DEF f
<1>3. ControlTypeOK'
  BY <1>1, <1>2 DEF ControlInv, ControlTypeOK, Serving
<1>4. Handed'
  BY <1>1, <1>2 DEF ControlInv, ControlTypeOK, Handed, Connected
<1>5. Starting'
  BY <1>1, <1>2 DEF ControlInv, ControlTypeOK, Starting, Serving
<1>6. Holding'
  BY <1>1, <1>2 DEF ControlInv, ControlTypeOK, Holding, Serving, Connected, ThreadPC
<1>7. NoLeak'
  <2> SUFFICES ASSUME NEW g \in FD, fds'[g] # Closed PROVE Held(g)'
    BY DEF NoLeak
  <2>1. g # f /\ fds'[g] = fds[g] /\ Held(g)
    BY <1>1, <1>2 DEF ControlInv, ControlTypeOK, NoLeak
  <2> QED BY <1>1, <1>2, <2>1 DEF f, Held, ControlInv, ControlTypeOK, Serving, Connected, ThreadPC
<1> QED BY <1>3, <1>4, <1>5, <1>6, <1>7 DEF ControlInv

LEMMA CloseControl ==
  ASSUME ControlInv, NEW c \in Client, CloseConnection(c)
  PROVE  ControlInv'
<1> DEFINE f == connfd[c]
<1>1. pc[c] = "close" /\ f \in FD /\ fds[f] = <<c, "client">>
  BY DEF CloseConnection, At, ControlInv, Holding, Serving, ThreadPC
<1>2. /\ fds' = [fds EXCEPT ![f] = Closed] /\ pc' = [pc EXCEPT ![c] = "done"]
      /\ connfd' = [connfd EXCEPT ![c] = NULL] /\ UNCHANGED <<main, arrived, block, p, clientfd>>
  BY DEF CloseConnection, close, Goto, mainvars
<1> HIDE DEF f
<1>3. ControlTypeOK'
  BY <1>1, <1>2 DEF ControlInv, ControlTypeOK, ThreadPC
<1>4. Handed'
  BY <1>1, <1>2 DEF ControlInv, ControlTypeOK, Handed
<1>5. Starting'
  BY <1>1, <1>2 DEF ControlInv, ControlTypeOK, Starting
<1>6. Holding'
  BY <1>1, <1>2 DEF ControlInv, ControlTypeOK, Holding, Serving, Connected
<1>7. NoLeak'
  <2> SUFFICES ASSUME NEW g \in FD, fds'[g] # Closed PROVE Held(g)'
    BY DEF NoLeak
  <2>1. g # f /\ fds'[g] = fds[g] /\ Held(g)
    BY <1>1, <1>2 DEF ControlInv, ControlTypeOK, NoLeak
  <2> QED BY <1>1, <1>2, <2>1 DEF f, Held, ControlInv, ControlTypeOK, Serving, Connected
<1> QED BY <1>3, <1>4, <1>5, <1>6, <1>7 DEF ControlInv

\* What the invariant is about
controlvars == <<fds, main, arrived, block, pc, p, connfd, clientfd>>

LEMMA SameControl ==
  ASSUME ControlInv, UNCHANGED controlvars
  PROVE  ControlInv'
BY DEF controlvars, ControlInv, ControlTypeOK, Handed, Starting, Holding, NoLeak, Held

LEMMA ExchangeControl ==
  ASSUME ControlInv, NEW c \in Client, Exchange(c)
  PROVE  ControlInv'
<1> USE DEF At, mainvars, locals, Serving, Connected, ThreadPC
<1>1. UNCHANGED <<fds, main, arrived, block, p, connfd, clientfd>>
  BY DEF Exchange, RequestLine, RequestHeader, SendRequest, RequestBody, ResponseHeader, ResponseBody
<1>2. ASSUME NEW point \in Serving, pc[c] \in Serving, pc[c] \in Connected <=> point \in Connected,
             Goto(c, point)
      PROVE  ControlInv'
  BY <1>1, <1>2, GoOnControl
<1>3. CASE UNCHANGED pc
  BY <1>1, <1>3, SameControl DEF controlvars
<1>4. CASE RequestLine(c)
  <2>1. pc[c] = "reqline" /\ (Goto(c, "close") \/ Goto(c, "reqhdr"))
    BY <1>4 DEF RequestLine
  <2> QED BY <1>2, <2>1
<1>5. CASE RequestHeader(c)
  <2>1. pc[c] = "reqhdr" /\ (Goto(c, "connect") \/ Goto(c, "reqhdr"))
    BY <1>5 DEF RequestHeader
  <2> QED BY <1>2, <2>1
<1>6. CASE SendRequest(c)
  <2>1. pc[c] = "send" /\ (Goto(c, "reqbody") \/ Goto(c, "abandon"))
    BY <1>6 DEF SendRequest
  <2> QED BY <1>2, <2>1
<1>7. CASE RequestBody(c)
  <2>1. pc[c] = "reqbody" /\ (Goto(c, "reshdr") \/ Goto(c, "abandon") \/ UNCHANGED pc)
    BY <1>7 DEF RequestBody, RelayByte
  <2> QED BY <1>2, <1>3, <2>1
<1>8. CASE ResponseHeader(c)
  <2>1. pc[c] = "reshdr" /\ (Goto(c, "reshdr") \/ Goto(c, "abandon") \/ Goto(c, "resbody"))
    BY <1>8 DEF ResponseHeader
  <2> QED BY <1>2, <2>1
<1>9. CASE ResponseBody(c)
  <2>1. pc[c] = "resbody" /\ (Goto(c, "finish") \/ Goto(c, "abandon") \/ UNCHANGED pc)
    BY <1>9 DEF ResponseBody, RelayByte
  <2> QED BY <1>2, <1>3, <2>1
<1> QED BY <1>4, <1>5, <1>6, <1>7, <1>8, <1>9 DEF Exchange

LEMMA ProceedControl ==
  ASSUME ControlInv, NEW c \in Client, Proceed(c)
  PROVE  ControlInv'
<1>1. CASE Start(c)
  BY <1>1, StartControl
<1>2. CASE Connect(c)
  BY <1>2, ConnectControl
<1>3. CASE Abandon(c)
  BY <1>3, DisconnectControl DEF Abandon, At, mainvars, Serving, Connected, ThreadPC
<1>4. CASE Finish(c)
  BY <1>4, DisconnectControl DEF Finish, At, mainvars, Serving, Connected, ThreadPC
<1>5. CASE P(c)
  BY <1>5, GoOnControl DEF P, At, mainvars, locals, Serving, Connected, ThreadPC
<1>6. CASE PrintLog(c)
  BY <1>6, GoOnControl DEF PrintLog, At, mainvars, locals, Serving, Connected, ThreadPC
<1>7. CASE V(c)
  BY <1>7, GoOnControl DEF V, At, mainvars, locals, Serving, Connected, ThreadPC
<1>8. CASE CloseConnection(c)
  BY <1>8, CloseControl
<1> QED BY <1>1, <1>2, <1>3, <1>4, <1>5, <1>6, <1>7, <1>8 DEF Proceed

LEMMA ControlStep == ControlInv /\ [Next]_vars => ControlInv'
<1> SUFFICES ASSUME ControlInv, [Next]_vars PROVE ControlInv'
  OBVIOUS
<1>1. ASSUME NEW c \in Client, Accept(c) \/ Exchange(c) \/ Proceed(c) PROVE ControlInv'
  BY <1>1, AcceptControl, ExchangeControl, ProceedControl
<1>2. CASE Pthread_create
  BY <1>2, CreateControl
<1>3. CASE MainFails
  BY <1>3, FailControl
<1>4. CASE \E e \in Peer : Hangup(e)
  BY <1>4, SameControl DEF Hangup, controlvars, mainvars, locals
<1>5. CASE UNCHANGED vars
  BY <1>5, SameControl DEF vars, controlvars, mainvars, locals
<1> QED BY <1>1, <1>2, <1>3, <1>4, <1>5 DEF Next

THEOREM ControlKept == Spec => []ControlInv
BY ControlInit, ControlStep, PTL DEF Spec

(***************************************************************************)
(* A thread of the proxy uses its own two descriptors only, and every      *)
(* descriptor is closed when doit and thread are done with it.             *)
(***************************************************************************)
THEOREM DescriptorsAreOwned == Spec => []DescriptorsOwned
<1>1. ControlInv => DescriptorsOwned
  BY DEF ControlInv, Holding, NoLeak, Held, DescriptorsOwned
<1> QED BY <1>1, ControlKept, PTL

-----------------------------------------------------------------------------
(* The types of the rest. *)

\* Who holds the semaphore: it is 1 only when nobody is between P and V.
LogExclusive ==
  /\ \A c \in Client : pc[c] \in {"print", "V"} => s = 0
  /\ \A c, d \in Client : pc[c] \in {"print", "V"} /\ pc[d] \in {"print", "V"} => c = d

\* Nobody is heard beyond what there is to say.
HeardOnly == \A e \in Peer : taken[e] <= Len(message[e])

TypeInv == TypeOK /\ LogExclusive /\ HeardOnly

LEMMA TypeInit == Init => TypeInv
<1> SUFFICES ASSUME Init PROVE TypeInv
  OBVIOUS
<1>1. message \in [Peer -> Seq(Item)]
  <2>1. PICK rq \in [Client -> Requests], rs \in [Client -> Responses] :
          message = [e \in Peer |-> IF e[2] = "client" THEN rq[e[1]] ELSE rs[e[1]]]
    BY DEF Init
  <2>2. ASSUME NEW e \in Peer PROVE rq[e[1]] \in Seq(Item) /\ rs[e[1]] \in Seq(Item)
    <3>1. e[1] \in Client
      BY DEF Peer
    <3>2. rq[e[1]] \in Requests /\ rs[e[1]] \in Responses
      BY <3>1
    <3> QED BY <3>2, MessageAssumption
  <2>3. ASSUME NEW e \in Peer PROVE (IF e[2] = "client" THEN rq[e[1]] ELSE rs[e[1]]) \in Seq(Item)
    BY <2>2
  <2> QED BY <2>1, <2>3
<1>2. Byte(0) \in Item
  BY DEF Byte, Item
<1>3. <<>> \in Seq(Item) /\ <<>> \in Seq([client : Client, size : Int])
  OBVIOUS
<1>4. ControlTypeOK
  BY ControlInit DEF ControlInv
<1>5. TypeOK
  BY <1>1, <1>2, <1>3, <1>4 DEF TypeOK, Init
<1>6. LogExclusive
  BY DEF Init, LogExclusive
<1>7. HeardOnly
  BY <1>5 DEF Init, HeardOnly, TypeOK
<1> QED BY <1>5, <1>6, <1>7 DEF TypeInv

\* What is read from an open descriptor is an item.
LEMMA ReadTyped ==
  ASSUME TypeOK, NEW f \in FD, Arrives(f)
  PROVE  /\ fds[f] \in Peer
         /\ NextItem(f) \in Item
         /\ Take(f) => taken' \in [Peer -> Nat]
         /\ Take(f) /\ HeardOnly /\ UNCHANGED message => HeardOnly'
<1>1. fds[f] \in Peer
  BY DEF TypeOK, ControlTypeOK, Arrives
<1>2. message[fds[f]] \in Seq(Item) /\ taken[fds[f]] \in Nat
  BY <1>1 DEF TypeOK
<1>3. taken[fds[f]] + 1 \in 1 .. Len(message[fds[f]])
  BY <1>2 DEF Arrives
<1>4. NextItem(f) \in Item
  BY <1>2, <1>3 DEF NextItem
<1>5. ASSUME Take(f) PROVE taken' \in [Peer -> Nat]
  <2>1. taken[fds[f]] + 1 \in Nat
    BY <1>2
  <2> QED BY <1>5, <2>1 DEF Take, TypeOK
<1>6. ASSUME Take(f), HeardOnly, UNCHANGED message PROVE HeardOnly'
  <2>1. taken[fds[f]] + 1 <= Len(message[fds[f]])
    BY <1>2, <1>3
  <2> QED BY <1>6, <2>1 DEF Take, HeardOnly, TypeOK
<1> QED BY <1>1, <1>4, <1>5, <1>6

\* What is written to an open descriptor adds items to what the peer got.
LEMMA WriteTyped ==
  ASSUME TypeOK, NEW f \in FD, NEW items \in Seq(Item), WriteSucceeds(f, items)
  PROVE  got' \in [Peer -> Seq(Item)]
<1>1. fds[f] \in Peer
  BY DEF TypeOK, ControlTypeOK, WriteSucceeds
<1>2. got \in [Peer -> Seq(Item)]
  BY DEF TypeOK
<1>3. got[fds[f]] \o items \in Seq(Item)
  BY <1>1, <1>2
<1> QED BY <1>2, <1>3 DEF WriteSucceeds

LEMMA RelayTyped ==
  ASSUME TypeOK, NEW c \in Client, NEW from \in FD, NEW to \in FD, NEW givesUp,
         RelayByte(c, from, to, givesUp)
  PROVE  /\ taken' \in [Peer -> Nat] /\ got' \in [Peer -> Seq(Item)]
         /\ i' \in [Client -> Nat] /\ buf' \in [Client -> Item]
<1>1. CASE UNCHANGED <<taken, got, i, buf>>
  BY <1>1 DEF TypeOK
<1>2. ASSUME \/ UNCHANGED <<taken, buf>>
             \/ Arrives(from) /\ Take(from) /\ buf' = [buf EXCEPT ![c] = NextItem(from)],
             \/ WriteSucceeds(to, <<buf'[c]>>) /\ i' = [i EXCEPT ![c] = @ + 1]
             \/ UNCHANGED <<got, i>>
      PROVE  /\ taken' \in [Peer -> Nat] /\ got' \in [Peer -> Seq(Item)]
             /\ i' \in [Client -> Nat] /\ buf' \in [Client -> Item]
  <2>1. taken' \in [Peer -> Nat] /\ buf' \in [Client -> Item]
    BY <1>2, ReadTyped DEF TypeOK
  <2>2. <<buf'[c]>> \in Seq(Item)
    BY <2>1
  <2>3. got' \in [Peer -> Seq(Item)] /\ i' \in [Client -> Nat]
    <3>1. CASE UNCHANGED <<got, i>>
      BY <3>1 DEF TypeOK
    <3>2. CASE WriteSucceeds(to, <<buf'[c]>>) /\ i' = [i EXCEPT ![c] = @ + 1]
      <4>1. got' \in [Peer -> Seq(Item)]
        BY <2>2, <3>2, WriteTyped
      <4> QED BY <3>2, <4>1 DEF TypeOK
    <3> QED BY <1>2, <3>1, <3>2
  <2> QED BY <2>1, <2>3
<1>3. \/ UNCHANGED <<taken, got, i, buf>>
      \/ /\ \/ UNCHANGED <<taken, buf>>
            \/ Arrives(from) /\ Take(from) /\ buf' = [buf EXCEPT ![c] = NextItem(from)]
         /\ \/ WriteSucceeds(to, <<buf'[c]>>) /\ i' = [i EXCEPT ![c] = @ + 1]
            \/ UNCHANGED <<got, i>>
  BY DEF RelayByte, WriteFails
<1> QED BY <1>1, <1>2, <1>3

LEMMA ExchangeTyped ==
  ASSUME TypeOK, HeardOnly, ControlInv, ControlTypeOK', NEW c \in Client, Exchange(c)
  PROVE  TypeOK'
<1> USE DEF At, Serving, Connected, ThreadPC
<1>1. UNCHANGED <<message, hung, s, log>>
  BY DEF Exchange, RequestLine, RequestHeader, SendRequest, RequestBody, ResponseHeader, ResponseBody, logging
<1>2. SUFFICES /\ taken' \in [Peer -> Nat] /\ got' \in [Peer -> Seq(Item)]
               /\ req_bodysize' \in [Client -> Int] /\ res_bodysize' \in [Client -> Int]
               /\ res_headsize' \in [Client -> Nat]
               /\ i' \in [Client -> Nat] /\ buf' \in [Client -> Item]
  BY <1>1 DEF TypeOK
<1>3. CASE RequestLine(c)
  <2>1. connfd[c] \in FD
    BY <1>3 DEF RequestLine, ControlInv, Holding
  <2>2. taken' \in [Peer -> Nat]
    BY <1>3, <2>1, ReadTyped DEF RequestLine, TypeOK
  <2> QED BY <1>3, <2>2 DEF RequestLine, TypeOK, locals, sizes
<1>4. CASE RequestHeader(c)
  <2>1. connfd[c] \in FD
    BY <1>4 DEF RequestHeader, ControlInv, Holding
  <2>2. taken' \in [Peer -> Nat]
    <3>1. UNCHANGED taken \/ (Arrives(connfd[c]) /\ Take(connfd[c]))
      BY <1>4 DEF RequestHeader
    <3> QED BY <2>1, <3>1, ReadTyped DEF TypeOK
  <2>3. req_bodysize' \in [Client -> Int]
    <3>1. CASE UNCHANGED req_bodysize
      BY <3>1 DEF TypeOK
    <3>2. CASE Arrives(connfd[c]) /\ req_bodysize' = [req_bodysize EXCEPT ![c] =
                 IF NextItem(connfd[c]).kind = "length" THEN NextItem(connfd[c]).val ELSE @]
      <4>1. NextItem(connfd[c]).val \in Int
        BY <2>1, <3>2, ReadTyped DEF Item
      <4> QED BY <3>2, <4>1 DEF TypeOK
    <3> QED BY <1>4, <3>1, <3>2 DEF RequestHeader
  <2>4. UNCHANGED <<got, res_headsize, res_bodysize, i, buf>>
    BY <1>4 DEF RequestHeader
  <2> QED BY <2>2, <2>3, <2>4 DEF TypeOK
<1>5. CASE SendRequest(c)
  <2> DEFINE from == fds[connfd[c]]
             sent == SubSeq(message[from], 1, taken[from])
  <2>1. clientfd[c] \in FD /\ from = <<c, "client">> /\ from \in Peer
    <3>1. pc[c] = "send"
      BY <1>5 DEF SendRequest
    <3> QED BY <3>1 DEF ControlInv, Holding, Peer
  <2>2. message[from] \in Seq(Item) /\ taken[from] \in Nat
    BY <2>1 DEF TypeOK
  <2>3. sent \in Seq(Item)
    BY <2>1, <2>2 DEF HeardOnly
  <2> HIDE DEF sent
  <2>4. got' \in [Peer -> Seq(Item)]
    <3>1. CASE WriteSucceeds(clientfd[c], sent)
      BY <2>1, <2>3, <3>1, WriteTyped
    <3>2. CASE UNCHANGED got
      BY <3>2 DEF TypeOK
    <3> QED BY <1>5, <3>1, <3>2 DEF SendRequest, WriteFails, sent
  <2> QED BY <1>5, <2>4 DEF SendRequest, TypeOK, locals, sizes
<1>6. CASE RequestBody(c)
  <2>1. connfd[c] \in FD /\ clientfd[c] \in FD
    BY <1>6 DEF RequestBody, ControlInv, Holding
  <2>2. Byte(0) \in Item
    BY DEF Byte, Item
  <2>3. /\ taken' \in [Peer -> Nat] /\ got' \in [Peer -> Seq(Item)]
        /\ i' \in [Client -> Nat] /\ buf' \in [Client -> Item]
    <3>1. CASE RelayByte(c, connfd[c], clientfd[c], GivesUpRequest(c))
      BY <2>1, <3>1, RelayTyped
    <3>2. CASE /\ i' = [i EXCEPT ![c] = 0] /\ buf' = [buf EXCEPT ![c] = Byte(0)]
               /\ UNCHANGED <<taken, got>>
      BY <2>2, <3>2 DEF TypeOK
    <3> QED BY <1>6, <3>1, <3>2 DEF RequestBody
  <2> QED BY <1>6, <2>3 DEF RequestBody, TypeOK, sizes
<1>7. CASE ResponseHeader(c)
  <2> DEFINE item == NextItem(clientfd[c])
  <2>1. connfd[c] \in FD /\ clientfd[c] \in FD
    BY <1>7 DEF ResponseHeader, ControlInv, Holding
  <2>2. CASE UNCHANGED <<taken, got, res_headsize, res_bodysize>>
    BY <1>7, <2>2 DEF ResponseHeader, TypeOK
  <2>3. CASE /\ Arrives(clientfd[c]) /\ Take(clientfd[c])
             /\ res_headsize' = [res_headsize EXCEPT ![c] = @ + 1]
             /\ res_bodysize' = [res_bodysize EXCEPT ![c] = IF item.kind = "length" THEN item.val ELSE @]
             /\ WriteSucceeds(connfd[c], <<item>>) \/ UNCHANGED got
    <3>1. taken' \in [Peer -> Nat] /\ item \in Item
      BY <2>1, <2>3, ReadTyped
    <3>2. <<item>> \in Seq(Item) /\ item.val \in Int
      BY <3>1 DEF Item
    <3> HIDE DEF item
    <3>3. got' \in [Peer -> Seq(Item)]
      BY <2>1, <2>3, <3>2, WriteTyped DEF TypeOK
    <3>4. res_headsize' \in [Client -> Nat] /\ res_bodysize' \in [Client -> Int]
      BY <2>3, <3>2 DEF TypeOK
    <3> QED BY <1>7, <3>1, <3>3, <3>4 DEF ResponseHeader, TypeOK
  <2> QED BY <1>7, <2>2, <2>3 DEF ResponseHeader, WriteFails
<1>8. CASE ResponseBody(c)
  <2>1. connfd[c] \in FD /\ clientfd[c] \in FD
    BY <1>8 DEF ResponseBody, ControlInv, Holding
  <2>2. /\ taken' \in [Peer -> Nat] /\ got' \in [Peer -> Seq(Item)]
        /\ i' \in [Client -> Nat] /\ buf' \in [Client -> Item]
    <3>1. CASE RelayByte(c, clientfd[c], connfd[c], GivesUpResponse(c))
      BY <2>1, <3>1, RelayTyped
    <3>2. CASE UNCHANGED <<taken, got, i, buf>>
      BY <3>2 DEF TypeOK
    <3> QED BY <1>8, <3>1, <3>2 DEF ResponseBody
  <2> QED BY <1>8, <2>2 DEF ResponseBody, TypeOK, sizes
<1> QED BY <1>3, <1>4, <1>5, <1>6, <1>7, <1>8 DEF Exchange

LEMMA ExchangeHeard ==
  ASSUME TypeOK, HeardOnly, ControlInv, NEW c \in Client, Exchange(c)
  PROVE  HeardOnly'
<1> USE DEF At, Serving, Connected, ThreadPC
<1>1. UNCHANGED message
  BY DEF Exchange, RequestLine, RequestHeader, SendRequest, RequestBody, ResponseHeader, ResponseBody
<1>2. /\ connfd[c] \in FD
      /\ pc[c] \in {"reqbody", "reshdr", "resbody"} => clientfd[c] \in FD
  BY DEF Exchange, RequestLine, RequestHeader, SendRequest, RequestBody, ResponseHeader, ResponseBody,
         ControlInv, Holding
<1>3. CASE UNCHANGED taken
  BY <1>1, <1>3 DEF HeardOnly
<1>4. \/ UNCHANGED taken
      \/ Arrives(connfd[c]) /\ Take(connfd[c])
      \/ pc[c] \in {"reqbody", "reshdr", "resbody"} /\ Arrives(clientfd[c]) /\ Take(clientfd[c])
  BY DEF Exchange, RequestLine, RequestHeader, SendRequest, RequestBody, ResponseHeader, ResponseBody, RelayByte
<1> QED BY <1>1, <1>2, <1>3, <1>4, ReadTyped

LEMMA TypeStep == TypeInv /\ ControlInv /\ ControlInv' /\ [Next]_vars => TypeInv'
<1> SUFFICES ASSUME TypeInv, ControlInv, ControlInv', [Next]_vars PROVE TypeInv'
  OBVIOUS
<1> USE DEF TypeInv, At, Goto
<1>1. ControlTypeOK /\ ControlTypeOK'
  BY DEF ControlInv
<1>2. ASSUME UNCHANGED <<network, sizes, i, buf>> PROVE HeardOnly'
  BY <1>2 DEF HeardOnly, network
<1>3. ASSUME UNCHANGED <<network, sizes, i, buf, logging>> PROVE TypeOK'
  BY <1>1, <1>3 DEF TypeOK, network, sizes, logging
<1>4. ASSUME UNCHANGED s,
             \A c \in Client : pc'[c] \in {"print", "V"} => pc[c] \in {"print", "V"}
      PROVE  LogExclusive'
  BY <1>4 DEF LogExclusive
<1>5. ASSUME NEW c \in Client, Exchange(c) PROVE TypeInv'
  <2>1. TypeOK' /\ HeardOnly'
    BY <1>1, <1>5, ExchangeTyped, ExchangeHeard
  <2>2. UNCHANGED s
    BY <1>5 DEF Exchange, RequestLine, RequestHeader, SendRequest, RequestBody, ResponseHeader,
                ResponseBody, logging
  <2>3. \A d \in Client : pc'[d] \in {"print", "V"} => pc[d] \in {"print", "V"}
    BY <1>1, <1>5 DEF Exchange, RequestLine, RequestHeader, SendRequest, RequestBody, ResponseHeader,
                ResponseBody, RelayByte, ControlTypeOK
  <2> QED BY <1>4, <2>1, <2>2, <2>3
<1>6. ASSUME NEW c \in Client, Start(c) \/ Connect(c) \/ Abandon(c) \/ Finish(c) \/ CloseConnection(c)
      PROVE  TypeInv'
  <2>1. UNCHANGED <<network, sizes, i, buf, logging>>
    BY <1>6 DEF Start, Connect, Abandon, Finish, CloseConnection
  <2>2. \A d \in Client : pc'[d] \in {"print", "V"} => pc[d] \in {"print", "V"}
    BY <1>1, <1>6 DEF Start, Connect, Abandon, Finish, CloseConnection, ControlTypeOK
  <2> QED BY <1>2, <1>3, <1>4, <2>1, <2>2 DEF logging
<1>7. ASSUME NEW c \in Client, P(c) PROVE TypeInv'
  <2>1. s = 1 /\ s' = 0
    BY <1>7 DEF P, TypeOK
  <2>2. UNCHANGED <<network, sizes, i, buf, log>> /\ pc' = [pc EXCEPT ![c] = "print"]
    BY <1>7 DEF P, locals
  <2>3. LogExclusive'
    BY <1>1, <2>1, <2>2 DEF LogExclusive, ControlTypeOK
  <2>4. TypeOK'
    BY <1>1, <2>1, <2>2 DEF TypeOK, network, sizes
  <2> QED BY <1>2, <2>2, <2>3, <2>4
<1>8. ASSUME NEW c \in Client, PrintLog(c) PROVE TypeInv'
  <2>1. UNCHANGED <<network, sizes, i, buf, s>> /\ pc[c] = "print" /\ pc' = [pc EXCEPT ![c] = "V"]
    BY <1>8 DEF PrintLog, locals
  <2>2. LogExclusive'
    BY <1>1, <2>1 DEF LogExclusive, ControlTypeOK
  <2>3. [client |-> c, size |-> res_bodysize[c] + res_headsize[c]] \in [client : Client, size : Int]
    BY DEF TypeOK
  <2>4. log' \in Seq([client : Client, size : Int])
    BY <1>8, <2>3 DEF PrintLog, TypeOK
  <2>5. TypeOK'
    BY <1>1, <2>1, <2>4 DEF TypeOK, network, sizes
  <2> QED BY <1>2, <2>1, <2>2, <2>5
<1>9. ASSUME NEW c \in Client, V(c) PROVE TypeInv'
  <2>1. UNCHANGED <<network, sizes, i, buf, log>> /\ pc[c] = "V" /\ pc' = [pc EXCEPT ![c] = "close"]
    BY <1>9 DEF V, locals
  <2>2. s = 0 /\ s' = 1
    BY <1>9, <2>1 DEF V, LogExclusive
  <2>3. LogExclusive'
    BY <1>1, <2>1, <2>2 DEF LogExclusive, ControlTypeOK
  <2>4. TypeOK'
    BY <1>1, <2>1, <2>2 DEF TypeOK, network, sizes
  <2> QED BY <1>2, <2>1, <2>3, <2>4
<1>10. CASE \/ \E c \in Client : Accept(c)
            \/ Pthread_create \/ MainFails
  <2>1. UNCHANGED <<network, sizes, i, buf, logging>>
    BY <1>10 DEF Accept, Pthread_create, MainFails, locals
  <2>2. \A d \in Client : pc'[d] \in {"print", "V"} => pc[d] \in {"print", "V"}
    BY <1>1, <1>10 DEF Accept, Pthread_create, MainFails, ControlTypeOK
  <2> QED BY <1>2, <1>3, <1>4, <2>1, <2>2 DEF logging
<1>11. CASE \E e \in Peer : Hangup(e)
  <2>1. UNCHANGED <<message, taken, got, sizes, i, buf, logging, pc>> /\ hung' \subseteq Peer
    BY <1>11 DEF Hangup, locals, TypeOK
  <2>2. TypeOK' /\ HeardOnly'
    BY <1>1, <2>1 DEF TypeOK, HeardOnly, sizes, logging
  <2> QED BY <1>4, <2>1, <2>2 DEF logging
<1>12. CASE UNCHANGED vars
  BY <1>2, <1>3, <1>4, <1>12 DEF vars, locals, logging
<1> QED BY <1>5, <1>6, <1>7, <1>8, <1>9, <1>10, <1>11, <1>12 DEF Next, Proceed

(***************************************************************************)
(* All variables keep their types.  In particular the semaphore around the *)
(* log, which P decrements and V increments, is 0 or 1: at most one thread *)
(* prints.                                                                 *)
(***************************************************************************)
THEOREM TypeCorrectness == Spec => []TypeOK
<1>1. TypeInv => TypeOK
  BY DEF TypeInv
<1>2. Spec => []TypeInv
  BY TypeInit, TypeStep, ControlKept, PTL DEF Spec
<1> QED BY <1>1, <1>2, PTL

-----------------------------------------------------------------------------
(* Messages, when an item is added at the end. *)

\* A nonempty set of naturals has a least element; below a bound, Max returns its largest.
LEMMA Least ==
  ASSUME NEW S, S \subseteq Nat, S # {}
  PROVE  \E x \in S : \A y \in S : x <= y
<1>1. IsWellFoundedOn(OpToRel(<, Nat), Nat)
  BY NatLessThanWellFounded
<1>2. PICK x \in S : \A y \in S : ~(<<y, x>> \in OpToRel(<, Nat))
  BY <1>1, WFMin
<1>3. \A y \in S : ~(y < x)
  BY <1>2 DEF OpToRel
<1> QED BY <1>3

LEMMA Largest ==
  ASSUME NEW n \in Nat, NEW S, S \subseteq 1 .. n, S # {}
  PROVE  Max(S) \in S
<1> DEFINE T == {k \in Nat : n - k \in S}
<1>1. ASSUME NEW y \in S PROVE n - y \in T
  <2>1. n - y \in Nat /\ n - (n - y) = y
    OBVIOUS
  <2> QED BY <2>1
<1>2. T \subseteq Nat /\ T # {}
  BY <1>1
<1> HIDE DEF T
<1>3. PICK x \in T : \A y \in T : x <= y
  BY <1>2, Least
<1>4. ASSUME NEW y \in S PROVE n - x >= y
  <2>1. x <= n - y
    BY <1>1, <1>3
  <2> QED BY <1>2, <2>1
<1>5. n - x \in S
  BY DEF T
<1> QED BY <1>4, <1>5 DEF Max

LEMMA AddItem ==
  ASSUME NEW m \in Seq(Item), NEW x \in Item
  PROVE  /\ m \o <<x>> \in Seq(Item)
         /\ Len(m \o <<x>>) = Len(m) + 1
         /\ DOMAIN (m \o <<x>>) = 1 .. (Len(m) + 1)
         /\ \A k \in 1 .. Len(m) : (m \o <<x>>)[k] = m[k]
         /\ (m \o <<x>>)[Len(m) + 1] = x
         /\ DOMAIN m = 1 .. Len(m) /\ Len(m) \in Nat
OBVIOUS

LEMMA AddPlaces ==
  ASSUME NEW m \in Seq(Item), NEW x \in Item, NEW kind
  PROVE  /\ Places(m, kind) \subseteq 1 .. Len(m)
         /\ Places(m \o <<x>>, kind) =
              Places(m, kind) \cup (IF x.kind = kind THEN {Len(m) + 1} ELSE {})
<1> DEFINE n == m \o <<x>>
<1>1. /\ DOMAIN n = 1 .. (Len(m) + 1) /\ DOMAIN m = 1 .. Len(m) /\ Len(m) \in Nat
      /\ \A k \in 1 .. Len(m) : n[k] = m[k]
      /\ n[Len(m) + 1] = x
  BY AddItem
<1> HIDE DEF n
<1>2. Places(n, kind) = Places(m, kind) \cup (IF x.kind = kind THEN {Len(m) + 1} ELSE {})
  BY <1>1 DEF Places
<1> QED BY <1>1, <1>2 DEF n, Places

\* The last length line counts.
LEMMA AddAnnounced ==
  ASSUME NEW m \in Seq(Item), NEW x \in Item
  PROVE  Announced(m \o <<x>>) = IF x.kind = "length" THEN x.val ELSE Announced(m)
<1> DEFINE n == m \o <<x>>
           old == Places(m, "length")
<1>1. /\ \A k \in 1 .. Len(m) : n[k] = m[k]
      /\ n[Len(m) + 1] = x /\ Len(m) \in Nat
  BY AddItem
<1>2. old \subseteq 1 .. Len(m)
  BY AddPlaces
<1>3. Places(n, "length") = old \cup (IF x.kind = "length" THEN {Len(m) + 1} ELSE {})
  BY AddPlaces
<1> HIDE DEF n, old
<1>4. CASE x.kind = "length"
  <2>1. Max(Places(n, "length")) = Len(m) + 1
    <3> DEFINE T == Places(n, "length")
               k == Len(m) + 1
    <3>1. T = old \cup {k}
      BY <1>3, <1>4
    <3>2. k \in Int /\ \A y \in old : y \in Int /\ k >= y
      BY <1>1, <1>2
    <3> HIDE DEF T, k
    <3>3. k \in T /\ \A y \in T : y \in Int /\ k >= y
      BY <3>1, <3>2
    <3>4. \A z \in T : (\A y \in T : z >= y) => z = k
      BY <3>2, <3>3
    <3>5. Max(T) = k
      BY <3>3, <3>4 DEF Max
    <3> QED BY <3>5 DEF T, k
  <2> QED BY <1>1, <1>3, <1>4, <2>1 DEF Announced, n
<1>5. CASE x.kind # "length"
  <2>1. Places(n, "length") = old
    BY <1>3, <1>5
  <2>2. old # {} => n[Max(old)] = m[Max(old)]
    BY <1>1, <1>2, Largest
  <2> QED BY <1>5, <2>1, <2>2 DEF Announced, n, old
<1> QED BY <1>4, <1>5

LEMMA NothingAnnounced == Announced(<<>>) = 0
BY DEF Announced, Places

\* What one more item makes of what was heard
LEMMA HearItem ==
  ASSUME NEW m \in Seq(Item), NEW n \in Nat, n < Len(m)
  PROVE  /\ SubSeq(m, 1, n + 1) = SubSeq(m, 1, n) \o <<m[n + 1]>>
         /\ m[n + 1] \in Item
<1>1. 1 \in 1 .. Len(m) /\ n + 1 \in 1 .. Len(m) /\ (n + 1) - 1 = n
  OBVIOUS
<1> QED BY <1>1, SubSeqRecursiveSecond

LEMMA HeardItems ==
  ASSUME NEW m \in Seq(Item), NEW n \in 0 .. Len(m)
  PROVE  /\ SubSeq(m, 1, n) \in Seq(Item) /\ Len(SubSeq(m, 1, n)) = n
         /\ DOMAIN SubSeq(m, 1, n) = 1 .. n
         /\ \A k \in 1 .. n : SubSeq(m, 1, n)[k] = m[k]
OBVIOUS

-----------------------------------------------------------------------------
(* A message of h lines, then bytes. *)

Split(m, h) == h \in 0 .. Len(m) /\ \A k \in 1 .. Len(m) : m[k].kind = "byte" <=> k > h
Ended(m) == Places(m, "end") # {}

LEMMA SplitBytes ==
  ASSUME NEW m \in Seq(Item), NEW h, Split(m, h)
  PROVE  NumBytes(m) = Len(m) - h
<1>1. Places(m, "byte") = (h + 1) .. Len(m)
  BY DEF Split, Places
<1>2. h \in Int /\ Len(m) \in Int /\ h <= Len(m)
  BY DEF Split
<1> QED BY <1>1, <1>2, FS_Interval DEF NumBytes

LEMMA SplitGrows ==
  ASSUME NEW m \in Seq(Item), NEW h, Split(m, h), NEW x \in Item
  PROVE  /\ x.kind = "byte" => Split(m \o <<x>>, h)
         /\ h = Len(m) /\ x.kind # "byte" => Split(m \o <<x>>, h + 1)
<1>1. /\ Len(m \o <<x>>) = Len(m) + 1 /\ Len(m) \in Nat
      /\ \A k \in 1 .. Len(m) : (m \o <<x>>)[k] = m[k]
      /\ (m \o <<x>>)[Len(m) + 1] = x
  BY AddItem
<1> DEFINE n == m \o <<x>>
<1> HIDE DEF n
<1> QED BY <1>1 DEF Split, n

LEMMA EndedGrows ==
  ASSUME NEW m \in Seq(Item), NEW x \in Item
  PROVE  Ended(m \o <<x>>) <=> Ended(m) \/ x.kind = "end"
<1>1. Places(m \o <<x>>, "end") = Places(m, "end") \cup (IF x.kind = "end" THEN {Len(m) + 1} ELSE {})
  BY AddPlaces
<1> QED BY <1>1 DEF Ended

\* What comes next, after lines without an end and after the end.
LEMMA NextKind ==
  ASSUME NEW m \in Seq(Item), NEW n \in Nat, n < Len(m), LinesThenBytes(m)
  PROVE  m[n + 1].kind = "byte" <=> Ended(SubSeq(m, 1, n))
<1>1. /\ DOMAIN SubSeq(m, 1, n) = 1 .. n
      /\ \A k \in 1 .. n : SubSeq(m, 1, n)[k] = m[k]
  BY HeardItems
<1>2. n + 1 \in DOMAIN m /\ (n + 1) - 1 = n
  OBVIOUS
<1>3. m[n + 1].kind = "byte" <=> \E j \in 1 .. n : m[j].kind = "end"
  BY <1>2 DEF LinesThenBytes
<1> QED BY <1>1, <1>3 DEF Ended, Places

-----------------------------------------------------------------------------
(***************************************************************************)
(* How far a conversation is, at each point of doit: what was read, what   *)
(* was sent on, and what the sizes count.                                  *)
(***************************************************************************)
Cl(c) == <<c, "client">>
Sv(c) == <<c, "server">>

NoForged(c) ==
  NumBytes(got[Sv(c)]) >= Announced(got[Sv(c)]) => IsPrefix(got[Sv(c)], Heard(Cl(c)))

InOrder(c) ==
  \/ IsPrefix(got[Cl(c)], Heard(Sv(c)))
  \/ /\ IsPrefix(Heard(Sv(c)), got[Cl(c)]) /\ Len(got[Cl(c)]) = Len(Heard(Sv(c))) + 1
     /\ Sv(c) \in hung
     /\ res_bodysize[c] = NumBytes(Heard(Sv(c))) + 1

Unsent == {"none", "start", "reqline", "reqhdr", "connect", "send"}

\* Nothing has been sent on to the server: the client was heard to the end of its headers.
Asking(c) ==
  LET heard == Heard(Cl(c))
  IN  /\ pc[c] \in Unsent =>
           /\ Split(heard, taken[Cl(c)]) /\ req_bodysize[c] = Announced(heard)
           /\ got[Sv(c)] = <<>> /\ i[c] = 0 /\ buf[c] = Byte(0)
      /\ pc[c] \in {"none", "start", "reqline"} => taken[Cl(c)] = 0
      /\ pc[c] = "reqhdr" => ~Ended(heard)
      /\ pc[c] \in {"connect", "send"} => Ended(heard) \/ Cl(c) \in hung

\* The body: from the moment it is made up, its last byte is out of reach.
Asked(c) ==
  LET heard == Heard(Cl(c))
      seen == got[Sv(c)]
  IN  pc[c] = "reqbody" =>
        /\ Split(seen, Len(seen) - i[c]) /\ req_bodysize[c] = Announced(seen)
        /\ buf[c].kind = "byte"
        /\ Ended(heard) \/ Cl(c) \in hung
        /\ seen = heard \/ (Cl(c) \in hung /\ i[c] < req_bodysize[c])

\* Until the end of the response's headers every line heard was sent on.
Answering(c) ==
  LET seen == got[Cl(c)]
  IN  /\ pc[c] \in Unsent \cup {"reqbody", "reshdr"} =>
           /\ seen = Heard(Sv(c)) /\ ~Ended(seen)
           /\ Split(seen, res_headsize[c]) /\ res_headsize[c] = Len(seen)
           /\ res_bodysize[c] = Announced(seen)
      /\ pc[c] = "reshdr" => i[c] = 0 /\ buf[c] = Byte(0)

\* i counts the bytes sent on; one at most was made up, and that the last.
Delivering(c) ==
  LET heard == Heard(Sv(c))
      seen == got[Cl(c)]
  IN  pc[c] \in {"resbody", "finish", "P", "print", "V"} =>
        /\ Split(seen, res_headsize[c]) /\ Ended(seen) /\ res_bodysize[c] = Announced(seen)
        /\ Len(seen) = res_headsize[c] + i[c]
        /\ buf[c].kind = "byte"
        /\ i[c] = 0 \/ i[c] <= res_bodysize[c]
        /\ pc[c] # "resbody" => i[c] >= res_bodysize[c]
        /\ \/ seen = heard
           \/ /\ IsPrefix(heard, seen) /\ Len(seen) = Len(heard) + 1
              /\ Sv(c) \in hung /\ i[c] = res_bodysize[c]

Conversation(c) ==
  NoForged(c) /\ InOrder(c) /\ Asking(c) /\ Asked(c) /\ Answering(c) /\ Delivering(c)

Logged ==
  /\ \A k \in DOMAIN log :
       LET c == log[k].client
           seen == got[Cl(c)]
       IN  /\ pc[c] \in {"V", "close", "done"}
           /\ Ended(seen)
           /\ Announced(seen) >= 0 =>
                log[k].size = Len(seen) /\ NumBytes(seen) = Announced(seen)
  /\ \A j, k \in DOMAIN log : log[j].client = log[k].client => j = k

Spoken == \A e \in Peer : LinesThenBytes(message[e])

RelayInv == Spoken /\ (\A c \in Client : Conversation(c)) /\ Logged

LEMMA PrefixGrows ==
  ASSUME NEW s1 \in Seq(Item), NEW s2 \in Seq(Item), NEW x \in Item
  PROVE  /\ IsPrefix(s1, s1) /\ IsPrefix(<<>>, s1)
         /\ IsPrefix(s1, s1 \o <<x>>)
         /\ IsPrefix(s1, s2) => IsPrefix(s1, s2 \o <<x>>)
<1>1. /\ s2 \o <<x>> \in Seq(Item) /\ Len(s2 \o <<x>>) = Len(s2) + 1 /\ Len(s2) \in Nat /\ Len(s1) \in Nat
      /\ \A k \in 1 .. Len(s2) : (s2 \o <<x>>)[k] = s2[k]
  BY AddItem
<1>2. ASSUME IsPrefix(s1, s2) PROVE IsPrefix(s1, s2 \o <<x>>)
  <2>1. Len(s1) <= Len(s2) /\ SubSeq(s1, 1, Len(s1)) = SubSeq(s2, 1, Len(s1))
    BY <1>2 DEF IsPrefix
  <2>2. SubSeq(s2, 1, Len(s1)) = SubSeq(s2 \o <<x>>, 1, Len(s1))
    BY <1>1, <2>1
  <2> QED BY <1>1, <2>1, <2>2 DEF IsPrefix
<1>3. IsPrefix(s1, s1) /\ IsPrefix(<<>>, s1)
  BY SubSeqEmpty DEF IsPrefix
<1>4. IsPrefix(s1, s1 \o <<x>>)
  <2>1. SubSeq(s1, 1, Len(s1)) = SubSeq(s1 \o <<x>>, 1, Len(s1)) /\ Len(s1 \o <<x>>) = Len(s1) + 1
    OBVIOUS
  <2> QED BY <1>1, <2>1 DEF IsPrefix
<1> QED BY <1>2, <1>3, <1>4

LEMMA NothingHeard ==
  /\ Announced(<<>>) = 0 /\ ~Ended(<<>>) /\ Split(<<>>, 0) /\ NumBytes(<<>>) = 0
  /\ \A m : SubSeq(m, 1, 0) = <<>>
<1>1. Places(<<>>, "byte") = {} /\ Places(<<>>, "end") = {}
  BY DEF Places
<1> QED BY <1>1, NothingAnnounced, FS_EmptySet, SubSeqEmpty DEF Ended, Split, NumBytes

\* What a peer was heard to say, and what it was sent
LEMMA HeardSeq ==
  ASSUME TypeInv, NEW e \in Peer
  PROVE  /\ message[e] \in Seq(Item) /\ taken[e] \in 0 .. Len(message[e])
         /\ Heard(e) \in Seq(Item) /\ Len(Heard(e)) = taken[e]
         /\ got[e] \in Seq(Item)
<1>1. message[e] \in Seq(Item) /\ taken[e] \in 0 .. Len(message[e]) /\ got[e] \in Seq(Item)
  BY DEF TypeInv, TypeOK, HeardOnly
<1> QED BY <1>1, HeardItems DEF Heard

LEMMA TakeItem ==
  ASSUME TypeInv, Spoken, NEW f \in FD, NEW e \in Peer, fds[f] = e,
         Arrives(f), Take(f), UNCHANGED message
  PROVE  /\ NextItem(f) \in Item /\ e \notin hung
         /\ Heard(e)' = Heard(e) \o <<NextItem(f)>>
         /\ taken'[e] = taken[e] + 1
         /\ \A d \in Peer : d # e => taken'[d] = taken[d]
         /\ NextItem(f).kind = "byte" <=> Ended(Heard(e))
<1> DEFINE m == message[e]
           n == taken[e]
<1>1. m \in Seq(Item) /\ n \in Nat /\ n < Len(m) /\ e \notin hung /\ LinesThenBytes(m)
  BY HeardSeq DEF Arrives, Spoken
<1>2. NextItem(f) = m[n + 1]
  BY DEF NextItem
<1>3. taken' = [taken EXCEPT ![e] = n + 1] /\ message' = message
  BY DEF Take
<1>4. taken'[e] = n + 1 /\ \A d \in Peer : d # e => taken'[d] = taken[d]
  BY <1>3 DEF TypeInv, TypeOK
<1> HIDE DEF m, n
<1>5. m[n + 1] \in Item /\ SubSeq(m, 1, n + 1) = SubSeq(m, 1, n) \o <<m[n + 1]>>
  BY <1>1, HearItem
<1>6. m[n + 1].kind = "byte" <=> Ended(SubSeq(m, 1, n))
  BY <1>1, NextKind
<1> QED BY <1>1, <1>2, <1>3, <1>4, <1>5, <1>6 DEF Heard, m, n

LEMMA SendItems ==
  ASSUME TypeInv, NEW f \in FD, NEW e \in Peer, fds[f] = e, NEW items, WriteSucceeds(f, items)
  PROVE  got'[e] = got[e] \o items /\ \A d \in Peer : d # e => got'[d] = got[d]
BY DEF WriteSucceeds, TypeInv, TypeOK

LEMMA Peers ==
  /\ \A c \in Client : Cl(c) \in Peer /\ Sv(c) \in Peer
  /\ \A c, d : Cl(c) # Sv(d) /\ (Cl(c) = Cl(d) => c = d) /\ (Sv(c) = Sv(d) => c = d)
BY DEF Cl, Sv, Peer

(***************************************************************************)
(* A step that leaves all that was read and sent alone.                    *)
(***************************************************************************)
Words(c) == <<message[Cl(c)], message[Sv(c)], taken[Cl(c)], taken[Sv(c)], got[Cl(c)], got[Sv(c)],
              req_bodysize[c], res_headsize[c], res_bodysize[c], i[c], buf[c]>>

LEMMA QuietStep ==
  ASSUME NEW c \in Client, Conversation(c), Words(c)' = Words(c), hung \subseteq hung',
         \/ pc'[c] = pc[c]
         \/ pc'[c] \in {"abandon", "close", "done"}
         \/ <<pc[c], pc'[c]>> \in {<<"none", "start">>, <<"start", "reqline">>, <<"connect", "send">>,
                                   <<"finish", "P">>, <<"P", "print">>, <<"print", "V">>}
  PROVE  Conversation(c)'
<1>1. /\ Heard(Cl(c))' = Heard(Cl(c)) /\ Heard(Sv(c))' = Heard(Sv(c))
      /\ got'[Cl(c)] = got[Cl(c)] /\ got'[Sv(c)] = got[Sv(c)] /\ taken'[Cl(c)] = taken[Cl(c)]
      /\ req_bodysize'[c] = req_bodysize[c] /\ res_headsize'[c] = res_headsize[c]
      /\ res_bodysize'[c] = res_bodysize[c] /\ i'[c] = i[c] /\ buf'[c] = buf[c]
  BY DEF Words, Heard, Cl, Sv
<1>2. NoForged(c)' /\ InOrder(c)'
  BY <1>1 DEF Conversation, NoForged, InOrder, Cl, Sv
<1>3. Asking(c)'
  BY <1>1 DEF Conversation, Asking, Unsent, Cl, Sv
<1>4. Asked(c)'
  BY <1>1 DEF Conversation, Asked, Cl, Sv
<1>5. Answering(c)'
  BY <1>1 DEF Conversation, Answering, Unsent, Cl, Sv
<1>6. Delivering(c)'
  BY <1>1 DEF Conversation, Delivering, Cl, Sv
<1> QED BY <1>2, <1>3, <1>4, <1>5, <1>6 DEF Conversation

-----------------------------------------------------------------------------
(* The steps that wait for a peer, for the client c they are about. *)

Talking(c) == TypeInv /\ ControlInv /\ Spoken /\ Conversation(c)

LEMMA RequestLineRelays ==
  ASSUME NEW c \in Client, Talking(c), RequestLine(c)
  PROVE  Conversation(c)'
<1> DEFINE x == NextItem(connfd[c])
<1>1. /\ pc[c] = "reqline" /\ UNCHANGED <<message, got, hung, sizes, i, buf>>
      /\ connfd[c] \in FD /\ fds[connfd[c]] = Cl(c) /\ Cl(c) \in Peer /\ Sv(c) \in Peer
  BY Peers DEF RequestLine, At, locals, Talking, ControlInv, Holding, Serving, ThreadPC, Cl
<1>2. CASE UNCHANGED taken /\ Goto(c, "close")
  <2>1. Words(c)' = Words(c) /\ pc'[c] = "close"
    BY <1>1, <1>2 DEF Words, sizes, Goto, Talking, ControlInv, ControlTypeOK, Cl, Sv
  <2> QED BY <1>1, <2>1, QuietStep DEF Talking
<1>3. CASE /\ Arrives(connfd[c]) /\ Take(connfd[c])
           /\ Goto(c, IF x.kind = "line" THEN "reqhdr" ELSE "close")
  <2>1. /\ x \in Item /\ Heard(Cl(c))' = Heard(Cl(c)) \o <<x>> /\ taken'[Cl(c)] = taken[Cl(c)] + 1
        /\ x.kind = "byte" <=> Ended(Heard(Cl(c)))
        /\ taken'[Sv(c)] = taken[Sv(c)]
    BY <1>1, <1>3, TakeItem, Peers DEF Talking
  <2>2. /\ Heard(Cl(c)) \in Seq(Item) /\ Len(Heard(Cl(c))) = taken[Cl(c)]
        /\ Heard(Sv(c)) \in Seq(Item)
    BY <1>1, HeardSeq DEF Talking
  <2>3. Heard(Cl(c)) = <<>> /\ taken[Cl(c)] = 0 /\ ~Ended(Heard(Cl(c)))
    BY <1>1, NothingHeard DEF Heard, Talking, Conversation, Asking
  <2> HIDE DEF x
  <2>4. /\ pc'[c] = IF x.kind = "line" THEN "reqhdr" ELSE "close"
        /\ Heard(Sv(c))' = Heard(Sv(c)) /\ got' = got /\ i' = i /\ buf' = buf /\ hung' = hung
        /\ req_bodysize' = req_bodysize /\ res_bodysize' = res_bodysize /\ res_headsize' = res_headsize
    BY <1>1, <1>3, <2>1 DEF Goto, Talking, ControlInv, ControlTypeOK, Heard, sizes, x
  <2>5. NoForged(c)' /\ InOrder(c)'
    <3>1. IsPrefix(<<>>, Heard(Cl(c)) \o <<x>>) /\ IsPrefix(Heard(Sv(c)), Heard(Sv(c)))
      BY <2>1, <2>2, AddItem, PrefixGrows
    <3>2. got[Sv(c)] = <<>> /\ got[Cl(c)] = Heard(Sv(c))
      BY <1>1 DEF Talking, Conversation, Asking, Answering, Unsent
    <3> QED BY <2>1, <2>4, <3>1, <3>2 DEF NoForged, InOrder, Cl, Sv
  <2>6. Asking(c)'
    <3>1. Announced(Heard(Cl(c)) \o <<x>>) = IF x.kind = "length" THEN x.val ELSE Announced(Heard(Cl(c)))
      BY <2>1, <2>2, AddAnnounced
    <3>2. x.kind # "byte" => Split(Heard(Cl(c)) \o <<x>>, taken[Cl(c)] + 1)
      BY <1>1, <2>1, <2>2, SplitGrows DEF Talking, Conversation, Asking, Unsent
    <3>3. Ended(Heard(Cl(c)) \o <<x>>) <=> x.kind = "end"
      BY <2>1, <2>2, <2>3, EndedGrows
    <3> QED BY <1>1, <2>1, <2>4, <3>1, <3>2, <3>3 DEF Talking, Conversation, Asking, Unsent, Cl, Sv
  <2>7. Asked(c)' /\ Answering(c)' /\ Delivering(c)'
    BY <1>1, <2>4 DEF Talking, Conversation, Asked, Answering, Delivering, Unsent, Cl, Sv
  <2> QED BY <2>5, <2>6, <2>7 DEF Conversation
<1> QED BY <1>2, <1>3 DEF RequestLine

LEMMA RequestHeaderRelays ==
  ASSUME NEW c \in Client, Talking(c), RequestHeader(c)
  PROVE  Conversation(c)'
<1> DEFINE x == NextItem(connfd[c])
<1>1. /\ pc[c] = "reqhdr" /\ UNCHANGED <<message, got, hung, res_headsize, res_bodysize, i, buf>>
      /\ connfd[c] \in FD /\ fds[connfd[c]] = Cl(c) /\ Cl(c) \in Peer /\ Sv(c) \in Peer
  BY Peers DEF RequestHeader, At, Talking, ControlInv, Holding, Serving, ThreadPC, Cl
<1>2. CASE EndOfFile(connfd[c]) /\ Goto(c, "connect") /\ UNCHANGED <<taken, req_bodysize>>
  <2>1. pc'[c] = "connect" /\ Cl(c) \in hung
    BY <1>1, <1>2 DEF Goto, EndOfFile, Talking, ControlInv, ControlTypeOK, Closed, Cl
  <2>2. Heard(Cl(c))' = Heard(Cl(c)) /\ Heard(Sv(c))' = Heard(Sv(c))
    BY <1>1, <1>2 DEF Heard
  <2> QED BY <1>1, <1>2, <2>1, <2>2
          DEF Talking, Conversation, NoForged, InOrder, Asking, Asked, Answering, Delivering, Unsent, Cl, Sv
<1>3. CASE /\ Arrives(connfd[c]) /\ Take(connfd[c])
           /\ req_bodysize' = [req_bodysize EXCEPT ![c] = IF x.kind = "length" THEN x.val ELSE @]
           /\ Goto(c, IF x.kind = "end" THEN "connect" ELSE "reqhdr")
  <2>1. /\ x \in Item /\ Heard(Cl(c))' = Heard(Cl(c)) \o <<x>> /\ taken'[Cl(c)] = taken[Cl(c)] + 1
        /\ x.kind = "byte" <=> Ended(Heard(Cl(c)))
        /\ taken'[Sv(c)] = taken[Sv(c)]
    BY <1>1, <1>3, TakeItem, Peers DEF Talking
  <2>2. /\ Heard(Cl(c)) \in Seq(Item) /\ Len(Heard(Cl(c))) = taken[Cl(c)]
        /\ Heard(Sv(c)) \in Seq(Item)
    BY <1>1, HeardSeq DEF Talking
  <2> HIDE DEF x
  <2>4. /\ pc'[c] = (IF x.kind = "end" THEN "connect" ELSE "reqhdr")
        /\ Heard(Sv(c))' = Heard(Sv(c)) /\ got' = got /\ i' = i /\ buf' = buf /\ hung' = hung
        /\ req_bodysize'[c] = (IF x.kind = "length" THEN x.val ELSE req_bodysize[c])
        /\ res_bodysize' = res_bodysize /\ res_headsize' = res_headsize
    BY <1>1, <1>3, <2>1 DEF Goto, Talking, TypeInv, TypeOK, ControlInv, ControlTypeOK, Heard
  <2>5. NoForged(c)' /\ InOrder(c)'
    <3>1. IsPrefix(<<>>, Heard(Cl(c)) \o <<x>>) /\ IsPrefix(Heard(Sv(c)), Heard(Sv(c)))
      BY <2>1, <2>2, AddItem, PrefixGrows
    <3>2. got[Sv(c)] = <<>> /\ got[Cl(c)] = Heard(Sv(c))
      BY <1>1 DEF Talking, Conversation, Asking, Answering, Unsent
    <3> QED BY <2>1, <2>4, <3>1, <3>2 DEF NoForged, InOrder, Cl, Sv
  <2>6. Asking(c)'
    <3>1. Announced(Heard(Cl(c)) \o <<x>>) = IF x.kind = "length" THEN x.val ELSE Announced(Heard(Cl(c)))
      BY <2>1, <2>2, AddAnnounced
    <3>2. ~Ended(Heard(Cl(c))) /\ x.kind # "byte"
      BY <1>1, <2>1 DEF Talking, Conversation, Asking
    <3>3. Split(Heard(Cl(c)) \o <<x>>, taken[Cl(c)] + 1)
      BY <1>1, <2>1, <2>2, <3>2, SplitGrows DEF Talking, Conversation, Asking, Unsent
    <3>4. Ended(Heard(Cl(c)) \o <<x>>) <=> x.kind = "end"
      BY <2>1, <2>2, <3>2, EndedGrows
    <3> QED BY <1>1, <2>1, <2>4, <3>1, <3>3, <3>4 DEF Talking, Conversation, Asking, Unsent, Cl, Sv
  <2>7. Asked(c)' /\ Answering(c)' /\ Delivering(c)'
    BY <1>1, <2>4 DEF Talking, Conversation, Asked, Answering, Delivering, Unsent, Cl, Sv
  <2> QED BY <2>5, <2>6, <2>7 DEF Conversation
<1> QED BY <1>2, <1>3 DEF RequestHeader

LEMMA SendRequestRelays ==
  ASSUME NEW c \in Client, Talking(c), SendRequest(c)
  PROVE  Conversation(c)'
<1>1. /\ pc[c] = "send" /\ UNCHANGED <<message, taken, hung, sizes, i, buf>>
      /\ connfd[c] \in FD /\ fds[connfd[c]] = Cl(c)
      /\ clientfd[c] \in FD /\ fds[clientfd[c]] = Sv(c) /\ Cl(c) \in Peer /\ Sv(c) \in Peer
  BY Peers DEF SendRequest, At, locals, Talking, ControlInv, Holding, Serving, Connected, ThreadPC, Cl, Sv
<1>2. CASE UNCHANGED got /\ Goto(c, "abandon")
  <2>1. Words(c)' = Words(c) /\ pc'[c] = "abandon"
    BY <1>1, <1>2 DEF Words, sizes, Goto, Talking, ControlInv, ControlTypeOK, Cl, Sv
  <2> QED BY <1>1, <2>1, QuietStep DEF Talking
<1>3. CASE WriteSucceeds(clientfd[c], Heard(Cl(c))) /\ Goto(c, "reqbody")
  <2>1. got'[Sv(c)] = got[Sv(c)] \o Heard(Cl(c)) /\ got'[Cl(c)] = got[Cl(c)]
    BY <1>1, <1>3, SendItems, Peers DEF Talking
  <2>2. got[Sv(c)] = <<>> /\ Heard(Cl(c)) \in Seq(Item) /\ Len(Heard(Cl(c))) = taken[Cl(c)]
    BY <1>1, HeardSeq DEF Talking, Conversation, Asking, Unsent
  <2>3. got'[Sv(c)] = Heard(Cl(c))
    BY <2>1, <2>2
  <2>4. /\ pc'[c] = "reqbody" /\ Heard(Cl(c))' = Heard(Cl(c)) /\ Heard(Sv(c))' = Heard(Sv(c))
        /\ req_bodysize' = req_bodysize /\ res_headsize' = res_headsize /\ res_bodysize' = res_bodysize
    BY <1>1, <1>3 DEF Goto, Talking, ControlInv, ControlTypeOK, Heard, sizes
  <2>5. IsPrefix(Heard(Cl(c)), Heard(Cl(c)))
    BY <2>2, AddItem, PrefixGrows DEF IsPrefix
  <2>6. Byte(0).kind = "byte" /\ taken[Cl(c)] - 0 = taken[Cl(c)]
    BY <1>1, HeardSeq DEF Byte, Talking
  <2>7. NoForged(c)' /\ InOrder(c)'
    BY <1>1, <2>1, <2>3, <2>4, <2>5 DEF Talking, Conversation, NoForged, InOrder, Cl, Sv
  <2>8. Asking(c)' /\ Answering(c)' /\ Delivering(c)'
    BY <1>1, <2>1, <2>4 DEF Talking, Conversation, Asking, Answering, Delivering, Unsent, Cl, Sv
  <2>9. Asked(c)'
    BY <1>1, <2>2, <2>3, <2>4, <2>6 DEF Talking, Conversation, Asking, Asked, Unsent, Cl, Sv
  <2> QED BY <2>7, <2>8, <2>9 DEF Conversation
<1> QED BY <1>1, <1>2, <1>3 DEF SendRequest, WriteFails, Heard

LEMMA RequestBodyRelays ==
  ASSUME NEW c \in Client, Talking(c), RequestBody(c)
  PROVE  Conversation(c)'
<1> DEFINE x == NextItem(connfd[c])
           heard == Heard(Cl(c))
           seen == got[Sv(c)]
<1>1. /\ pc[c] = "reqbody" /\ UNCHANGED <<message, hung, sizes>>
      /\ connfd[c] \in FD /\ fds[connfd[c]] = Cl(c)
      /\ clientfd[c] \in FD /\ fds[clientfd[c]] = Sv(c) /\ Cl(c) \in Peer /\ Sv(c) \in Peer
  BY Peers DEF RequestBody, At, Talking, ControlInv, Holding, Serving, Connected, ThreadPC, Cl, Sv
<1>2. /\ seen \in Seq(Item) /\ heard \in Seq(Item) /\ Heard(Sv(c)) \in Seq(Item)
      /\ i[c] \in Nat /\ buf[c] \in Item /\ req_bodysize[c] \in Int
      /\ Len(heard) \in Nat /\ Len(seen) \in Nat
  BY <1>1, HeardSeq DEF Talking, TypeInv, TypeOK
<1>3. /\ Split(seen, Len(seen) - i[c]) /\ req_bodysize[c] = Announced(seen)
      /\ buf[c].kind = "byte"
      /\ Ended(heard) \/ Cl(c) \in hung
      /\ seen = heard \/ (Cl(c) \in hung /\ i[c] < req_bodysize[c])
      /\ NoForged(c) /\ InOrder(c)
  BY <1>1 DEF Talking, Conversation, Asked
<1>4. CASE /\ i' = [i EXCEPT ![c] = 0] /\ buf' = [buf EXCEPT ![c] = Byte(0)]
           /\ Goto(c, "reshdr") /\ UNCHANGED <<taken, got>>
  <2>1. /\ pc'[c] = "reshdr" /\ Heard(Cl(c))' = heard /\ Heard(Sv(c))' = Heard(Sv(c)) /\ got' = got
        /\ i'[c] = 0 /\ buf'[c] = Byte(0) /\ hung' = hung
        /\ req_bodysize' = req_bodysize /\ res_headsize' = res_headsize /\ res_bodysize' = res_bodysize
    BY <1>1, <1>4 DEF Goto, Talking, TypeInv, TypeOK, ControlInv, ControlTypeOK, Heard, sizes
  <2> QED BY <1>1, <2>1
          DEF Talking, Conversation, NoForged, InOrder, Asking, Asked, Answering, Delivering, Unsent, Cl, Sv
<1>5. ASSUME UNCHANGED <<taken, got, i, buf>>, Goto(c, "abandon") PROVE Conversation(c)'
  <2>1. Words(c)' = Words(c) /\ pc'[c] = "abandon"
    BY <1>1, <1>5 DEF Words, sizes, Goto, Talking, ControlInv, ControlTypeOK, Cl, Sv
  <2> QED BY <1>1, <2>1, QuietStep DEF Talking
\* A byte b is written; heard becomes heard1.
<1>6. ASSUME NEW b \in Item, b.kind = "byte", NEW heard1 \in Seq(Item),
             Ended(heard1) \/ Cl(c) \in hung,
             seen \o <<b>> = heard1 \/ (Cl(c) \in hung /\ i[c] + 1 < req_bodysize[c]),
             Heard(Cl(c))' = heard1, buf' = [buf EXCEPT ![c] = b], taken'[Sv(c)] = taken[Sv(c)],
             WriteSucceeds(clientfd[c], <<buf'[c]>>), i' = [i EXCEPT ![c] = @ + 1], UNCHANGED pc
      PROVE  Conversation(c)'
  <2>1. buf'[c] = b /\ i'[c] = i[c] + 1 /\ Heard(Sv(c))' = Heard(Sv(c)) /\ hung' = hung
    BY <1>1, <1>6 DEF Talking, TypeInv, TypeOK, Heard
  <2>2. got'[Sv(c)] = seen \o <<b>> /\ got'[Cl(c)] = got[Cl(c)]
    BY <1>1, <1>6, <2>1, SendItems, Peers DEF Talking
  <2>3. /\ seen \o <<b>> \in Seq(Item) /\ Len(seen \o <<b>>) = Len(seen) + 1
        /\ (Len(seen) + 1) - (i[c] + 1) = Len(seen) - i[c]
    <3>1. seen \o <<b>> \in Seq(Item) /\ Len(seen \o <<b>>) = Len(seen) + 1
      BY <1>2, <1>6, AddItem
    <3> HIDE DEF seen
    <3> QED BY <1>2, <3>1
  <2>4. Split(seen \o <<b>>, Len(seen) - i[c])
    BY <1>2, <1>3, <1>6, SplitGrows
  <2>5. Announced(seen \o <<b>>) = req_bodysize[c]
    BY <1>2, <1>3, <1>6, AddAnnounced
  <2>6. NumBytes(seen \o <<b>>) = i[c] + 1
    <3>1. NumBytes(seen \o <<b>>) = Len(seen \o <<b>>) - (Len(seen) - i[c])
      BY <2>3, <2>4, SplitBytes
    <3> QED BY <1>2, <2>3, <3>1
  <2>7. NoForged(c)'
    <3>1. seen \o <<b>> = heard1 => IsPrefix(seen \o <<b>>, heard1)
      BY <1>6, <2>3, PrefixGrows
    <3>2. NumBytes(seen \o <<b>>) >= Announced(seen \o <<b>>) => IsPrefix(seen \o <<b>>, heard1)
      <4> HIDE DEF seen, heard
      <4> QED BY <1>2, <1>6, <2>5, <2>6, <3>1
    <3> QED BY <1>6, <2>2, <3>2 DEF NoForged
  <2>8. InOrder(c)'
    BY <1>1, <1>3, <2>1, <2>2 DEF InOrder, sizes, Cl, Sv
  <2>9. Asked(c)'
    BY <1>1, <1>6, <2>1, <2>2, <2>3, <2>4, <2>5 DEF Asked, sizes, Cl, Sv
  <2>10. Asking(c)' /\ Answering(c)' /\ Delivering(c)'
    BY <1>1, <1>6, <2>1, <2>2 DEF Talking, Conversation, Asking, Answering, Delivering, Unsent, sizes, Cl, Sv
  <2> QED BY <2>7, <2>8, <2>9, <2>10 DEF Conversation
<1>7. CASE /\ EndOfFile(connfd[c]) /\ ~GivesUpRequest(c) /\ UNCHANGED <<taken, buf>>
           /\ i[c] < req_bodysize[c]
           /\ WriteSucceeds(clientfd[c], <<buf'[c]>>) /\ i' = [i EXCEPT ![c] = @ + 1] /\ UNCHANGED pc
  <2>1. Cl(c) \in hung /\ i[c] + 1 < req_bodysize[c]
    BY <1>1, <1>2, <1>7 DEF EndOfFile, GivesUpRequest, Closed, Cl
  <2>2. Heard(Cl(c))' = heard /\ buf' = [buf EXCEPT ![c] = buf[c]]
    BY <1>1, <1>7 DEF Heard, Talking, TypeInv, TypeOK
  <2> QED BY <1>2, <1>3, <1>6, <1>7, <2>1, <2>2
<1>8. CASE /\ Arrives(connfd[c]) /\ Take(connfd[c]) /\ buf' = [buf EXCEPT ![c] = x]
           /\ \/ WriteSucceeds(clientfd[c], <<buf'[c]>>) /\ i' = [i EXCEPT ![c] = @ + 1] /\ UNCHANGED pc
              \/ UNCHANGED got /\ Goto(c, "abandon")
  <2>1. /\ x \in Item /\ Heard(Cl(c))' = heard \o <<x>> /\ Cl(c) \notin hung
        /\ x.kind = "byte" <=> Ended(heard)
        /\ taken'[Sv(c)] = taken[Sv(c)]
    BY <1>1, <1>8, TakeItem, Peers DEF Talking
  <2> HIDE DEF x
  <2>2. seen = heard /\ x.kind = "byte" /\ Ended(heard \o <<x>>)
    BY <1>2, <1>3, <2>1, EndedGrows
  <2>3. heard \o <<x>> \in Seq(Item)
    BY <1>2, <2>1, AddItem
  <2>4. CASE WriteSucceeds(clientfd[c], <<buf'[c]>>) /\ i' = [i EXCEPT ![c] = @ + 1] /\ UNCHANGED pc
    BY <1>6, <1>8, <2>1, <2>2, <2>3, <2>4
  <2>5. CASE UNCHANGED got /\ Goto(c, "abandon")
    <3>1. pc'[c] = "abandon" /\ Heard(Sv(c))' = Heard(Sv(c)) /\ hung' = hung /\ res_bodysize' = res_bodysize
      BY <1>1, <2>1, <2>5 DEF Goto, Talking, ControlInv, ControlTypeOK, Heard, sizes
    <3>2. IsPrefix(seen, heard \o <<x>>)
      BY <1>2, <2>1, <2>2, PrefixGrows
    <3> QED BY <1>3, <2>1, <2>5, <3>1, <3>2
            DEF Conversation, NoForged, InOrder, Asking, Asked, Answering, Delivering, Unsent, Cl, Sv
  <2> QED BY <1>8, <2>4, <2>5
<1> QED
  <2>1. CASE RelayByte(c, connfd[c], clientfd[c], GivesUpRequest(c)) /\ i[c] < req_bodysize[c]
    BY <1>5, <1>7, <1>8, <2>1 DEF RelayByte, WriteFails
  <2> QED BY <1>4, <2>1 DEF RequestBody

LEMMA ResponseHeaderRelays ==
  ASSUME NEW c \in Client, Talking(c), ResponseHeader(c)
  PROVE  Conversation(c)'
<1> DEFINE x == NextItem(clientfd[c])
           heard == Heard(Sv(c))
           seen == got[Cl(c)]
<1>1. /\ pc[c] = "reshdr" /\ UNCHANGED <<message, hung, req_bodysize, i, buf>>
      /\ connfd[c] \in FD /\ fds[connfd[c]] = Cl(c)
      /\ clientfd[c] \in FD /\ fds[clientfd[c]] = Sv(c) /\ Cl(c) \in Peer /\ Sv(c) \in Peer
  BY Peers DEF ResponseHeader, At, Talking, ControlInv, Holding, Serving, Connected, ThreadPC, Cl, Sv
<1>2. /\ seen = heard /\ heard \in Seq(Item) /\ Len(heard) \in Nat /\ ~Ended(heard)
      /\ Split(heard, Len(heard)) /\ res_headsize[c] = Len(heard) /\ res_bodysize[c] = Announced(heard)
      /\ i[c] = 0 /\ buf[c] = Byte(0) /\ NoForged(c)
  BY <1>1, HeardSeq DEF Talking, Conversation, Answering
<1>3. CASE UNCHANGED <<taken, got, res_headsize, res_bodysize>> /\ Goto(c, "abandon")
  <2>1. Words(c)' = Words(c) /\ pc'[c] = "abandon"
    BY <1>1, <1>3 DEF Words, Goto, Talking, ControlInv, ControlTypeOK, Cl, Sv
  <2> QED BY <1>1, <2>1, QuietStep DEF Talking
<1>4. CASE /\ Arrives(clientfd[c]) /\ Take(clientfd[c])
           /\ res_headsize' = [res_headsize EXCEPT ![c] = @ + 1]
           /\ res_bodysize' = [res_bodysize EXCEPT ![c] = IF x.kind = "length" THEN x.val ELSE @]
           /\ \/ /\ WriteSucceeds(connfd[c], <<x>>)
                 /\ Goto(c, IF x.kind = "end" THEN "resbody" ELSE "reshdr")
              \/ UNCHANGED got /\ Goto(c, "abandon")
  <2>1. /\ x \in Item /\ Heard(Sv(c))' = heard \o <<x>> /\ taken'[Cl(c)] = taken[Cl(c)]
        /\ x.kind = "byte" <=> Ended(heard)
    BY <1>1, <1>4, TakeItem, Peers DEF Talking
  <2>2. /\ Heard(Cl(c))' = Heard(Cl(c)) /\ hung' = hung /\ i'[c] = 0 /\ buf'[c] = Byte(0)
        /\ res_headsize'[c] = Len(heard) + 1
        /\ res_bodysize'[c] = IF x.kind = "length" THEN x.val ELSE Announced(heard)
    BY <1>1, <1>2, <1>4, <2>1 DEF Talking, TypeInv, TypeOK, Heard
  <2>3. /\ heard \o <<x>> \in Seq(Item) /\ Len(heard \o <<x>>) = Len(heard) + 1
        /\ IsPrefix(heard, heard \o <<x>>) /\ IsPrefix(heard \o <<x>>, heard \o <<x>>)
    BY <1>2, <2>1, AddItem, PrefixGrows
  <2>4. CASE UNCHANGED got /\ Goto(c, "abandon")
    <3>1. pc'[c] = "abandon"
      BY <1>1, <2>4 DEF Goto, Talking, ControlInv, ControlTypeOK
    <3> QED BY <1>2, <2>1, <2>2, <2>3, <2>4, <3>1
            DEF Conversation, NoForged, InOrder, Asking, Asked, Answering, Delivering, Unsent
  <2>5. CASE WriteSucceeds(connfd[c], <<x>>) /\ Goto(c, IF x.kind = "end" THEN "resbody" ELSE "reshdr")
    <3>1. pc'[c] = IF x.kind = "end" THEN "resbody" ELSE "reshdr"
      BY <1>1, <2>5 DEF Goto, Talking, ControlInv, ControlTypeOK
    <3>2. got'[Cl(c)] = heard \o <<x>> /\ got'[Sv(c)] = got[Sv(c)]
      BY <1>1, <1>2, <2>5, SendItems, Peers DEF Talking
    <3>3. /\ Split(heard \o <<x>>, Len(heard) + 1)
          /\ Announced(heard \o <<x>>) = IF x.kind = "length" THEN x.val ELSE Announced(heard)
          /\ Ended(heard \o <<x>>) <=> x.kind = "end"
      BY <1>2, <2>1, SplitGrows, AddAnnounced, EndedGrows
    <3>4. Byte(0).kind = "byte" /\ Len(heard) + 1 = (Len(heard) + 1) + 0
      BY <1>2 DEF Byte
    <3> HIDE DEF x, heard
    <3>5. NoForged(c)' /\ InOrder(c)'
      BY <1>2, <2>1, <2>2, <2>3, <3>2 DEF NoForged, InOrder
    <3>6. Asking(c)' /\ Asked(c)'
      BY <3>1 DEF Asking, Asked, Unsent
    <3>7. Answering(c)'
      BY <2>1, <2>2, <2>3, <3>1, <3>2, <3>3 DEF Answering, Unsent
    <3>8. Delivering(c)'
      BY <2>1, <2>2, <2>3, <3>1, <3>2, <3>3, <3>4 DEF Delivering
    <3> QED BY <3>5, <3>6, <3>7, <3>8 DEF Conversation
  <2> QED BY <1>4, <2>4, <2>5
<1> QED BY <1>3, <1>4 DEF ResponseHeader, WriteFails

LEMMA ResponseBodyRelays ==
  ASSUME NEW c \in Client, Talking(c), ResponseBody(c)
  PROVE  Conversation(c)'
<1> DEFINE x == NextItem(clientfd[c])
           heard == Heard(Sv(c))
           seen == got[Cl(c)]
<1>1. /\ pc[c] = "resbody" /\ UNCHANGED <<message, hung, sizes>>
      /\ connfd[c] \in FD /\ fds[connfd[c]] = Cl(c)
      /\ clientfd[c] \in FD /\ fds[clientfd[c]] = Sv(c) /\ Cl(c) \in Peer /\ Sv(c) \in Peer
  BY Peers DEF ResponseBody, At, Talking, ControlInv, Holding, Serving, Connected, ThreadPC, Cl, Sv
<1>2. /\ seen \in Seq(Item) /\ heard \in Seq(Item) /\ Len(seen) \in Nat /\ Len(heard) \in Nat
      /\ i[c] \in Nat /\ buf[c] \in Item /\ res_bodysize[c] \in Int /\ res_headsize[c] \in Nat
  BY <1>1, HeardSeq DEF Talking, TypeInv, TypeOK
<1>3. /\ Split(seen, res_headsize[c]) /\ Ended(seen) /\ res_bodysize[c] = Announced(seen)
      /\ Len(seen) = res_headsize[c] + i[c]
      /\ buf[c].kind = "byte"
      /\ i[c] = 0 \/ i[c] <= res_bodysize[c]
      /\ i[c] < res_bodysize[c] => seen = heard
      /\ NoForged(c) /\ InOrder(c)
  BY <1>1, <1>2 DEF Talking, Conversation, Delivering
<1>4. CASE i[c] >= res_bodysize[c] /\ Goto(c, "finish") /\ UNCHANGED <<taken, got, i, buf>>
  <2>1. /\ pc'[c] = "finish" /\ Heard(Cl(c))' = Heard(Cl(c)) /\ Heard(Sv(c))' = heard /\ got' = got
        /\ i' = i /\ buf' = buf /\ hung' = hung
        /\ req_bodysize' = req_bodysize /\ res_headsize' = res_headsize /\ res_bodysize' = res_bodysize
    BY <1>1, <1>4 DEF Goto, Talking, ControlInv, ControlTypeOK, Heard, sizes
  <2> QED BY <1>1, <1>4, <2>1
          DEF Talking, Conversation, NoForged, InOrder, Asking, Asked, Answering, Delivering, Unsent
<1>5. ASSUME UNCHANGED <<taken, got, i, buf>>, Goto(c, "abandon") PROVE Conversation(c)'
  <2>1. Words(c)' = Words(c) /\ pc'[c] = "abandon"
    BY <1>1, <1>5 DEF Words, sizes, Goto, Talking, ControlInv, ControlTypeOK, Cl, Sv
  <2> QED BY <1>1, <2>1, QuietStep DEF Talking
\* A byte b is written; heard becomes heard1.
<1>6. ASSUME NEW b \in Item, b.kind = "byte", NEW heard1 \in Seq(Item), i[c] < res_bodysize[c],
             \/ seen \o <<b>> = heard1
             \/ heard1 = heard /\ Sv(c) \in hung /\ i[c] + 1 = res_bodysize[c],
             Heard(Sv(c))' = heard1, buf' = [buf EXCEPT ![c] = b], taken'[Cl(c)] = taken[Cl(c)],
             WriteSucceeds(connfd[c], <<buf'[c]>>), i' = [i EXCEPT ![c] = @ + 1], UNCHANGED pc
      PROVE  Conversation(c)'
  <2>1. /\ buf'[c] = b /\ i'[c] = i[c] + 1 /\ Heard(Cl(c))' = Heard(Cl(c)) /\ hung' = hung
        /\ res_headsize' = res_headsize /\ res_bodysize' = res_bodysize /\ pc'[c] = "resbody"
    BY <1>1, <1>6 DEF Talking, TypeInv, TypeOK, Heard, sizes
  <2>2. got'[Cl(c)] = seen \o <<b>> /\ got'[Sv(c)] = got[Sv(c)]
    BY <1>1, <1>6, <2>1, SendItems, Peers DEF Talking
  <2>3. /\ seen \o <<b>> \in Seq(Item) /\ Len(seen \o <<b>>) = Len(seen) + 1
        /\ IsPrefix(seen, seen \o <<b>>) /\ IsPrefix(seen \o <<b>>, seen \o <<b>>)
    BY <1>2, <1>6, AddItem, PrefixGrows
  <2>4. /\ Split(seen \o <<b>>, res_headsize[c]) /\ Announced(seen \o <<b>>) = Announced(seen)
        /\ Ended(seen \o <<b>>)
    BY <1>2, <1>3, <1>6, SplitGrows, AddAnnounced, EndedGrows
  <2>5. seen = heard /\ NumBytes(seen) = i[c]
    <3>1. NumBytes(seen) = Len(seen) - res_headsize[c]
      BY <1>2, <1>3, SplitBytes
    <3>2. seen = heard
      BY <1>3, <1>6
    <3> HIDE DEF seen
    <3> QED BY <1>2, <1>3, <3>1, <3>2
  <2> HIDE DEF seen, heard
  <2>6. NoForged(c)'
    BY <1>3, <2>1, <2>2 DEF NoForged
  <2>7. InOrder(c)'
    BY <1>2, <1>6, <2>1, <2>2, <2>3, <2>5 DEF InOrder
  <2>8. Delivering(c)'
    <3>1. Len(seen \o <<b>>) = res_headsize[c] + (i[c] + 1) /\ i[c] + 1 <= res_bodysize[c]
      BY <1>2, <1>3, <1>6, <2>3
    <3>2. /\ Split(seen \o <<b>>, res_headsize[c]) /\ Ended(seen \o <<b>>)
          /\ res_bodysize[c] = Announced(seen \o <<b>>)
      BY <1>3, <2>4
    <3>3. \/ seen \o <<b>> = heard1
          \/ /\ IsPrefix(heard1, seen \o <<b>>) /\ Len(seen \o <<b>>) = Len(heard1) + 1
             /\ Sv(c) \in hung /\ i[c] + 1 = res_bodysize[c]
      BY <1>6, <2>3, <2>5
    <3> QED BY <1>6, <2>1, <2>2, <3>1, <3>2, <3>3 DEF Delivering
  <2>9. Asking(c)' /\ Asked(c)' /\ Answering(c)'
    BY <2>1 DEF Asking, Asked, Answering, Unsent
  <2> QED BY <2>6, <2>7, <2>8, <2>9 DEF Conversation
<1>7. CASE /\ EndOfFile(clientfd[c]) /\ ~GivesUpResponse(c) /\ UNCHANGED <<taken, buf>>
           /\ i[c] < res_bodysize[c]
           /\ WriteSucceeds(connfd[c], <<buf'[c]>>) /\ i' = [i EXCEPT ![c] = @ + 1] /\ UNCHANGED pc
  <2>1. Sv(c) \in hung /\ i[c] + 1 = res_bodysize[c]
    BY <1>1, <1>2, <1>7 DEF EndOfFile, GivesUpResponse, Closed, Sv
  <2>2. Heard(Sv(c))' = heard /\ buf' = [buf EXCEPT ![c] = buf[c]]
    BY <1>1, <1>7 DEF Heard, Talking, TypeInv, TypeOK
  <2> QED BY <1>2, <1>3, <1>6, <1>7, <2>1, <2>2
<1>8. CASE /\ Arrives(clientfd[c]) /\ Take(clientfd[c]) /\ buf' = [buf EXCEPT ![c] = x]
           /\ i[c] < res_bodysize[c]
           /\ \/ WriteSucceeds(connfd[c], <<buf'[c]>>) /\ i' = [i EXCEPT ![c] = @ + 1] /\ UNCHANGED pc
              \/ UNCHANGED got /\ Goto(c, "abandon")
  <2>1. /\ x \in Item /\ Heard(Sv(c))' = heard \o <<x>>
        /\ x.kind = "byte" <=> Ended(heard)
        /\ taken'[Cl(c)] = taken[Cl(c)]
    BY <1>1, <1>8, TakeItem, Peers DEF Talking
  <2> HIDE DEF x
  <2>2. seen = heard /\ x.kind = "byte"
    BY <1>3, <1>8, <2>1
  <2>3. heard \o <<x>> \in Seq(Item)
    BY <1>2, <2>1, AddItem
  <2>4. CASE WriteSucceeds(connfd[c], <<buf'[c]>>) /\ i' = [i EXCEPT ![c] = @ + 1] /\ UNCHANGED pc
    BY <1>6, <1>8, <2>1, <2>2, <2>3, <2>4
  <2>5. CASE UNCHANGED got /\ Goto(c, "abandon")
    <3>1. pc'[c] = "abandon" /\ Heard(Cl(c))' = Heard(Cl(c))
      BY <1>1, <2>1, <2>5 DEF Goto, Talking, ControlInv, ControlTypeOK, Heard
    <3>2. IsPrefix(seen, heard \o <<x>>)
      BY <1>2, <2>1, <2>2, PrefixGrows
    <3> QED BY <1>3, <2>1, <2>5, <3>1, <3>2
            DEF Conversation, NoForged, InOrder, Asking, Asked, Answering, Delivering, Unsent
  <2> QED BY <1>8, <2>4, <2>5
<1> QED
  <2>1. CASE RelayByte(c, clientfd[c], connfd[c], GivesUpResponse(c)) /\ i[c] < res_bodysize[c]
    BY <1>5, <1>7, <1>8, <2>1 DEF RelayByte, WriteFails
  <2> QED BY <1>4, <2>1 DEF ResponseBody

-----------------------------------------------------------------------------
(* Every step, for every client. *)

\* Exchange reads from and writes to the thread's own two peers, and sets its own locals.
LEMMA ExchangeOwn ==
  ASSUME TypeInv, ControlInv, NEW c \in Client, Exchange(c)
  PROVE  /\ \A d \in Client \ {c} : Words(d)' = Words(d) /\ pc'[d] = pc[d]
         /\ UNCHANGED <<message, hung, log>>
         /\ pc[c] \notin {"V", "close", "done"}
<1>1. /\ UNCHANGED <<message, hung, log>>
      /\ pc[c] \in {"reqline", "reqhdr", "send", "reqbody", "reshdr", "resbody"}
      /\ connfd[c] \in FD /\ fds[connfd[c]] = Cl(c) /\ Cl(c) \in Peer
      /\ pc[c] \in {"send", "reqbody", "reshdr", "resbody"} =>
           clientfd[c] \in FD /\ fds[clientfd[c]] = Sv(c) /\ Sv(c) \in Peer
  BY Peers DEF Exchange, RequestLine, RequestHeader, SendRequest, RequestBody, ResponseHeader, ResponseBody,
        At, logging, ControlInv, Holding, Serving, Connected, ThreadPC, Cl, Sv
<1>2. \/ UNCHANGED taken
      \/ Take(connfd[c])
      \/ pc[c] \in {"reqbody", "reshdr", "resbody"} /\ Take(clientfd[c])
  BY DEF Exchange, RequestLine, RequestHeader, SendRequest, RequestBody, ResponseHeader, ResponseBody,
        RelayByte, At
<1>3. \/ UNCHANGED got
      \/ \E items : WriteSucceeds(connfd[c], items)
      \/ pc[c] \in {"send", "reqbody", "reshdr", "resbody"} /\ \E items : WriteSucceeds(clientfd[c], items)
  BY DEF Exchange, RequestLine, RequestHeader, SendRequest, RequestBody, ResponseHeader, ResponseBody,
        RelayByte, WriteFails, At
<1>4. \A d \in Client \ {c} :
        /\ pc'[d] = pc[d] /\ i'[d] = i[d] /\ buf'[d] = buf[d] /\ req_bodysize'[d] = req_bodysize[d]
        /\ res_headsize'[d] = res_headsize[d] /\ res_bodysize'[d] = res_bodysize[d]
  <2>1. \A d \in Client \ {c} : pc'[d] = pc[d]
    BY DEF Exchange, RequestLine, RequestHeader, SendRequest, RequestBody, ResponseHeader, ResponseBody,
        RelayByte, Goto, ControlInv, ControlTypeOK
  <2>2. \A d \in Client \ {c} : i'[d] = i[d] /\ buf'[d] = buf[d]
    BY DEF Exchange, RequestLine, RequestHeader, SendRequest, RequestBody, ResponseHeader, ResponseBody,
        RelayByte, locals, TypeInv, TypeOK
  <2>3. \A d \in Client \ {c} :
          /\ req_bodysize'[d] = req_bodysize[d]
          /\ res_headsize'[d] = res_headsize[d] /\ res_bodysize'[d] = res_bodysize[d]
    BY DEF Exchange, RequestLine, RequestHeader, SendRequest, RequestBody, ResponseHeader, ResponseBody,
        locals, sizes, TypeInv, TypeOK
  <2> QED BY <2>1, <2>2, <2>3
<1>5. ASSUME NEW e \in Peer, e \notin {Cl(c), Sv(c)} PROVE taken'[e] = taken[e] /\ got'[e] = got[e]
  <2>1. taken'[e] = taken[e]
    BY <1>1, <1>2, <1>5 DEF Take, TypeInv, TypeOK
  <2>2. got'[e] = got[e]
    BY <1>1, <1>3, <1>5, SendItems
  <2> QED BY <2>1, <2>2
<1>6. ASSUME NEW d \in Client \ {c} PROVE Words(d)' = Words(d)
  <2>1. Cl(d) \in Peer /\ Sv(d) \in Peer /\ Cl(d) \notin {Cl(c), Sv(c)} /\ Sv(d) \notin {Cl(c), Sv(c)}
    BY Peers
  <2>2. /\ taken'[Cl(d)] = taken[Cl(d)] /\ taken'[Sv(d)] = taken[Sv(d)]
        /\ got'[Cl(d)] = got[Cl(d)] /\ got'[Sv(d)] = got[Sv(d)]
    BY <1>5, <2>1
  <2> QED BY <1>1, <1>4, <2>2 DEF Words, Cl, Sv
<1> QED BY <1>1, <1>4, <1>6

LEMMA ExchangeRelays ==
  ASSUME NEW c \in Client, Talking(c), Exchange(c)
  PROVE  Conversation(c)'
BY RequestLineRelays, RequestHeaderRelays, SendRequestRelays, RequestBodyRelays, ResponseHeaderRelays,
   ResponseBodyRelays DEF Exchange

\* No other step reads or sends.
LEMMA OtherSteps ==
  ASSUME TypeInv, ControlInv, NEW d \in Client,
         \/ \E c \in Client : Accept(c) \/ Proceed(c)
         \/ Pthread_create \/ MainFails \/ (\E e \in Peer : Hangup(e)) \/ UNCHANGED vars
  PROVE  /\ Words(d)' = Words(d) /\ hung \subseteq hung' /\ UNCHANGED message
         /\ \/ pc'[d] = pc[d]
            \/ pc'[d] \in {"abandon", "close", "done"}
            \/ <<pc[d], pc'[d]>> \in {<<"none", "start">>, <<"start", "reqline">>, <<"connect", "send">>,
                                      <<"finish", "P">>, <<"P", "print">>, <<"print", "V">>}
         /\ pc[d] \in {"V", "close", "done"} => pc'[d] \in {"V", "close", "done"}
<1>1. UNCHANGED <<message, taken, got, sizes, i, buf>> /\ hung \subseteq hung'
  BY DEF Accept, Proceed, Start, Connect, Abandon, Finish, P, PrintLog, V, CloseConnection,
         Pthread_create, MainFails, Hangup, vars, network, locals
<1>2. Words(d)' = Words(d)
  BY <1>1 DEF Words, sizes, Cl, Sv
<1>3. CASE \E c \in Client : Proceed(c)
  <2>1. PICK c \in Client : Proceed(c)
    BY <1>3
  <2>2. pc'[d] = pc[d] \/ c = d
    BY <2>1 DEF Proceed, Start, Connect, Abandon, Finish, P, PrintLog, V, CloseConnection, Goto,
                ControlInv, ControlTypeOK
  <2>3. \/ pc'[c] \in {"abandon", "close"} /\ pc[c] \notin {"close", "done"}
        \/ pc'[c] = "done" /\ pc[c] = "close"
        \/ <<pc[c], pc'[c]>> \in {<<"start", "reqline">>, <<"connect", "send">>,
                                  <<"finish", "P">>, <<"P", "print">>, <<"print", "V">>}
    BY <2>1 DEF Proceed, Start, Connect, Abandon, Finish, P, PrintLog, V, CloseConnection, Goto, At,
                ControlInv, ControlTypeOK
  <2>4. pc'[c] = "abandon" => FALSE
    BY <2>1 DEF Proceed, Start, Connect, Abandon, Finish, P, PrintLog, V, CloseConnection, Goto, At,
                ControlInv, ControlTypeOK
  <2> QED BY <1>1, <1>2, <2>2, <2>3, <2>4
<1>4. CASE Pthread_create
  <2>1. PICK c \in Client : pc[c] = "none" /\ pc' = [pc EXCEPT ![c] = "start"]
    BY <1>4 DEF Pthread_create, Goto, ControlInv, ControlTypeOK, Handed
  <2> QED BY <1>1, <1>2, <2>1 DEF ControlInv, ControlTypeOK
<1>5. CASE (\E c \in Client : Accept(c)) \/ MainFails \/ (\E e \in Peer : Hangup(e)) \/ UNCHANGED vars
  BY <1>1, <1>2, <1>5 DEF Accept, MainFails, Hangup, vars
<1> QED BY <1>3, <1>4, <1>5

LEMMA EntryClient ==
  ASSUME NEW q \in Seq([client : Client, size : Int]), NEW k \in DOMAIN q
  PROVE  q[k].client \in Client
<1> DEFINE R == [client : Client, size : Int]
<1>1. q[k] \in R
  <2> HIDE DEF R
  <2>1. q \in Seq(R)
    BY DEF R
  <2> QED BY <2>1
<1> QED BY <1>1

LEMMA Appended ==
  ASSUME NEW T, NEW q \in Seq(T), NEW e \in T
  PROVE  /\ DOMAIN q = 1 .. Len(q) /\ Len(q) \in Nat
         /\ DOMAIN Append(q, e) = 1 .. (Len(q) + 1)
         /\ \A k \in 1 .. Len(q) : Append(q, e)[k] = q[k]
         /\ Append(q, e)[Len(q) + 1] = e
  OBVIOUS

\* PrintLog adds one entry, for a response that is complete.
LEMMA PrintLogged ==
  ASSUME TypeInv, ControlInv, NEW c \in Client, Conversation(c), Logged, PrintLog(c)
  PROVE  Logged'
<1> DEFINE entry == [client |-> c, size |-> res_bodysize[c] + res_headsize[c]]
           seen == got[Cl(c)]
<1>1. pc[c] = "print" /\ pc' = [pc EXCEPT ![c] = "V"] /\ log' = Append(log, entry) /\ UNCHANGED got
  BY DEF PrintLog, At, Goto, network
<1>2. /\ log \in Seq([client : Client, size : Int]) /\ entry \in [client : Client, size : Int]
      /\ seen \in Seq(Item) /\ Len(seen) \in Nat
      /\ i[c] \in Nat /\ res_bodysize[c] \in Int /\ res_headsize[c] \in Nat
  BY Peers, HeardSeq DEF TypeInv, TypeOK
<1>3. /\ Split(seen, res_headsize[c]) /\ Ended(seen) /\ res_bodysize[c] = Announced(seen)
      /\ Len(seen) = res_headsize[c] + i[c]
      /\ i[c] = 0 \/ i[c] <= res_bodysize[c]
      /\ i[c] >= res_bodysize[c]
  BY <1>1 DEF Conversation, Delivering
<1>4. Announced(seen) >= 0 => entry.size = Len(seen) /\ NumBytes(seen) = Announced(seen)
  <2>1. NumBytes(seen) = Len(seen) - res_headsize[c]
    BY <1>2, <1>3, SplitBytes
  <2> HIDE DEF seen
  <2> QED BY <1>2, <1>3, <2>1
<1> HIDE DEF entry
<1>5. /\ DOMAIN log = 1 .. Len(log) /\ DOMAIN log' = 1 .. (Len(log) + 1) /\ Len(log) \in Nat
      /\ \A k \in 1 .. Len(log) : log'[k] = log[k] /\ log[k].client \in Client
      /\ log'[Len(log) + 1] = entry
  <2> DEFINE R == [client : Client, size : Int]
  <2>1. \A k \in DOMAIN log : log[k].client \in Client
    BY <1>2, EntryClient
  <2>2. log \in Seq(R) /\ entry \in R
    BY <1>2
  <2> HIDE DEF R
  <2> QED BY <1>1, <2>1, <2>2, Appended
<1>6. entry.client = c
  BY DEF entry
<1>7. \A k \in 1 .. Len(log) : pc[log[k].client] \in {"V", "close", "done"} /\ log[k].client # c
  BY <1>1, <1>5 DEF Logged
<1>8. ASSUME NEW k \in DOMAIN log'
      PROVE  /\ pc'[log'[k].client] \in {"V", "close", "done"}
             /\ Ended(got'[Cl(log'[k].client)])
             /\ Announced(got'[Cl(log'[k].client)]) >= 0 =>
                  /\ log'[k].size = Len(got'[Cl(log'[k].client)])
                  /\ NumBytes(got'[Cl(log'[k].client)]) = Announced(got'[Cl(log'[k].client)])
  <2>1. CASE k \in DOMAIN log
    <3>1. log'[k] = log[k] /\ log[k].client \in Client /\ log[k].client # c
      BY <1>5, <1>7, <2>1
    <3> QED BY <1>1, <2>1, <3>1 DEF Logged, ControlInv, ControlTypeOK
  <2>2. CASE k = Len(log) + 1
    <3>1. log'[k] = entry /\ pc'[c] = "V"
      BY <1>1, <1>5, <2>2 DEF ControlInv, ControlTypeOK
    <3> QED BY <1>1, <1>3, <1>4, <1>6, <3>1
  <2> QED BY <1>5, <2>1, <2>2
<1>9. ASSUME NEW j \in DOMAIN log', NEW k \in DOMAIN log', log'[j].client = log'[k].client PROVE j = k
  BY <1>5, <1>6, <1>7, <1>9 DEF Logged
<1> QED BY <1>8, <1>9 DEF Logged

LEMMA RelayInit == Init => RelayInv
<1> SUFFICES ASSUME Init PROVE RelayInv
  OBVIOUS
<1>1. Spoken
  <2>1. PICK rq \in [Client -> Requests], rs \in [Client -> Responses] :
          message = [e \in Peer |-> IF e[2] = "client" THEN rq[e[1]] ELSE rs[e[1]]]
    BY DEF Init
  <2>2. ASSUME NEW e \in Peer PROVE LinesThenBytes(message[e])
    <3>1. e[1] \in Client
      BY DEF Peer
    <3>2. rq[e[1]] \in Requests /\ rs[e[1]] \in Responses
      BY <3>1
    <3>3. LinesThenBytes(rq[e[1]]) /\ LinesThenBytes(rs[e[1]])
      BY <3>2, MessageAssumption
    <3> QED BY <2>1, <3>3
  <2> QED BY <2>2 DEF Spoken
<1>2. ASSUME NEW c \in Client PROVE Conversation(c)
  <2>1. /\ pc[c] = "none" /\ got[Cl(c)] = <<>> /\ got[Sv(c)] = <<>> /\ taken[Cl(c)] = 0 /\ taken[Sv(c)] = 0
        /\ req_bodysize[c] = 0 /\ res_headsize[c] = 0 /\ res_bodysize[c] = 0
        /\ i[c] = 0 /\ buf[c] = Byte(0)
    BY Peers DEF Init
  <2>2. Heard(Cl(c)) = <<>> /\ Heard(Sv(c)) = <<>>
    BY <2>1, NothingHeard DEF Heard
  <2>3. Len(<<>>) = 0 /\ IsPrefix(<<>>, <<>>)
    BY DEF IsPrefix
  <2> QED BY <2>1, <2>2, <2>3, NothingHeard
          DEF Conversation, NoForged, InOrder, Asking, Asked, Answering, Delivering, Unsent
<1>3. Logged
  BY DEF Init, Logged
<1> QED BY <1>1, <1>2, <1>3 DEF RelayInv

LEMMA RelayStep == RelayInv /\ TypeInv /\ ControlInv /\ [Next]_vars => RelayInv'
<1> SUFFICES ASSUME RelayInv, TypeInv, ControlInv, [Next]_vars PROVE RelayInv'
  OBVIOUS
<1>1. ASSUME NEW k \in DOMAIN log PROVE log[k].client \in Client
  <2>1. log \in Seq([client : Client, size : Int])
    BY DEF TypeInv, TypeOK
  <2> QED BY <1>1, <2>1, EntryClient
<1>2. ASSUME UNCHANGED log,
             \A d \in Client : pc[d] \in {"V", "close", "done"} =>
               pc'[d] \in {"V", "close", "done"} /\ got'[Cl(d)] = got[Cl(d)]
      PROVE  Logged'
  BY <1>1, <1>2 DEF RelayInv, Logged
<1>3. ASSUME NEW c \in Client, Exchange(c) PROVE RelayInv'
  <2>1. /\ \A d \in Client \ {c} : Words(d)' = Words(d) /\ pc'[d] = pc[d]
        /\ UNCHANGED <<message, hung, log>>
        /\ pc[c] \notin {"V", "close", "done"}
    BY <1>3, ExchangeOwn
  <2>2. Conversation(c)'
    BY <1>3, ExchangeRelays DEF RelayInv, Talking
  <2>3. ASSUME NEW d \in Client \ {c} PROVE Conversation(d)'
    BY <2>1, <2>3, QuietStep DEF RelayInv
  <2>4. Logged'
    BY <1>2, <2>1 DEF Words, Cl
  <2> QED BY <2>1, <2>2, <2>3, <2>4 DEF RelayInv, Spoken
<1>4. ASSUME \/ \E c \in Client : Accept(c) \/ Proceed(c)
             \/ Pthread_create \/ MainFails \/ (\E e \in Peer : Hangup(e)) \/ UNCHANGED vars
      PROVE  RelayInv'
  <2>1. ASSUME NEW d \in Client PROVE Conversation(d)'
    BY <1>4, <2>1, OtherSteps, QuietStep DEF RelayInv
  <2>2. Spoken'
    <3>1. UNCHANGED message
      BY <1>4 DEF Accept, Proceed, Start, Connect, Abandon, Finish, P, PrintLog, V, CloseConnection,
         Pthread_create, MainFails, Hangup, vars, network
    <3> QED BY <3>1 DEF RelayInv, Spoken
  <2>3. CASE \E c \in Client : PrintLog(c)
    BY <2>1, <2>2, <2>3, PrintLogged DEF RelayInv
  <2>4. CASE ~\E c \in Client : PrintLog(c)
    <3>1. UNCHANGED log
      BY <1>4, <2>4 DEF Accept, Proceed, Start, Connect, Abandon, Finish, P, V, CloseConnection,
         Pthread_create, MainFails, Hangup, vars, logging
    <3>2. UNCHANGED got
      BY <1>4 DEF Accept, Proceed, Start, Connect, Abandon, Finish, P, PrintLog, V, CloseConnection,
         Pthread_create, MainFails, Hangup, vars, network
    <3>3. \A d \in Client : pc[d] \in {"V", "close", "done"} => pc'[d] \in {"V", "close", "done"}
      BY <1>4, OtherSteps
    <3> QED BY <1>2, <2>1, <2>2, <3>1, <3>2, <3>3 DEF RelayInv
  <2> QED BY <2>3, <2>4
<1> QED BY <1>3, <1>4 DEF Next

(***************************************************************************)
(* At every line of doit, the buffers, the sizes and the two descriptors   *)
(* account for all that was read and written so far.                       *)
(***************************************************************************)
THEOREM RelayKept == Spec => []RelayInv
<1>1. Spec => []TypeInv
  BY TypeInit, TypeStep, ControlKept, PTL DEF Spec
<1> QED BY <1>1, RelayInit, RelayStep, ControlKept, PTL DEF Spec

(***************************************************************************)
(* Whatever the client sends and whenever it hangs up, its server is never *)
(* shown a whole request that the client did not send.                     *)
(***************************************************************************)
THEOREM RequestsAreGenuine == Spec => []NoForgedRequest
<1>1. RelayInv => NoForgedRequest
  BY DEF RelayInv, Conversation, NoForged, NoForgedRequest, Cl, Sv
<1> QED BY <1>1, RelayKept, PTL

(***************************************************************************)
(* Whatever the servers send and whenever they hang up, a client gets what *)
(* its own server sent, in order, and no more than one byte else.          *)
(***************************************************************************)
THEOREM ResponsesInOrder == Spec => []ResponseInOrder
<1>1. RelayInv => ResponseInOrder
  BY DEF RelayInv, Conversation, InOrder, ResponseInOrder, Cl, Sv
<1> QED BY <1>1, RelayKept, PTL

(***************************************************************************)
(* doit logs a connection once, when its response is complete, and counts  *)
(* what the client was sent.                                               *)
(***************************************************************************)
THEOREM LogIsTrue == Spec => []LoggedWhenDelivered
<1>1. RelayInv => LoggedWhenDelivered
  BY DEF RelayInv, Logged, Ended, LoggedWhenDelivered, Cl
<1> QED BY <1>1, RelayKept, PTL
=============================================================================
