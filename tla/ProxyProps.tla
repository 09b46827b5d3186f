------------------------------ MODULE ProxyProps ------------------------------
(* The properties of the web proxy lab10/proxy.c. *)
EXTENDS Proxy, SequencesExt

Serving == ThreadPC \ {"none", "start", "done"}
Connected == {"send", "reqbody", "reshdr", "resbody", "abandon", "finish"}

(***************************************************************************)
(* A thread reads, writes and closes its own descriptors only, whatever    *)
(* the other threads accept, open and close in the meantime: they are open *)
(* and lead to its peers.  Nothing else is open, so that a descriptor is   *)
(* closed, once, on every path out of doit.                                *)
(***************************************************************************)
DescriptorsOwned ==
  /\ \A c \in Client :
       /\ pc[c] \in Serving => fds[connfd[c]] = <<c, "client">>
       /\ pc[c] \in Connected => fds[clientfd[c]] = <<c, "server">>
  /\ \A f \in FD : fds[f] # Closed =>
       LET c == fds[f][1]
       IN  \/ fds[f][2] = "client" /\ pc[c] \in Serving /\ connfd[c] = f
           \/ fds[f][2] = "client" /\ pc[c] = "start" /\ block[p[c]] = f
           \/ fds[f][2] = "client" /\ main \in {"create", "died"} /\ arrived # Closed
                /\ arrived[1] = c /\ block[arrived[2]] = f
           \/ fds[f][2] = "server" /\ pc[c] \in Connected /\ clientfd[c] = f

Heard(e) == SubSeq(message[e], 1, taken[e])
Places(m, kind) == {k \in DOMAIN m : m[k].kind = kind}
NumBytes(m) == Cardinality(Places(m, "byte"))
Announced(m) ==
  LET lengths == Places(m, "length")
  IN  IF lengths = {} THEN 0 ELSE m[Max(lengths)].val

(***************************************************************************)
(* A server never takes for complete a request that its client did not     *)
(* complete: doit fills up the body with old bytes when the client is      *)
(* gone, but gives up before the last one.                                 *)
(***************************************************************************)
NoForgedRequest ==
  \A c \in Client :
    LET seen == got[<<c, "server">>]
    IN  NumBytes(seen) >= Announced(seen) => IsPrefix(seen, Heard(<<c, "client">>))

(***************************************************************************)
(* A client gets, in order and without a gap, what its own server sent,    *)
(* and at most one byte more; and that only at the very end, where the     *)
(* server hung up one byte before what it had announced.                   *)
(***************************************************************************)
ResponseInOrder ==
  \A c \in Client :
    LET sent == Heard(<<c, "server">>)
        seen == got[<<c, "client">>]
    IN  \/ IsPrefix(seen, sent)
        \/ /\ IsPrefix(sent, seen) /\ Len(seen) = Len(sent) + 1
           /\ <<c, "server">> \in hung
           /\ res_bodysize[c] = NumBytes(sent) + 1

(***************************************************************************)
(* The log has at most one entry for a connection, made when the client    *)
(* has been sent all the headers and as many bytes as were announced, and  *)
(* its size is what the client was sent (atoi may find a negative number   *)
(* of bytes announced; then the size is wrong).                            *)
(***************************************************************************)
LoggedWhenDelivered ==
  /\ \A k \in DOMAIN log :
       LET seen == got[<<log[k].client, "client">>]
       IN  /\ Places(seen, "end") # {}
           /\ Announced(seen) >= 0 =>
                log[k].size = Len(seen) /\ NumBytes(seen) = Announced(seen)
  /\ \A j, k \in DOMAIN log : log[j].client = log[k].client => j = k

(***************************************************************************)
(* A connection whose peers answer or hang up is served to its end, even   *)
(* when the peers of another one never do either: the threads meet only at *)
(* the semaphore around the log, which nobody keeps while it waits.        *)
(***************************************************************************)
PatientAreServed ==
  \A c \in Patient : pc[c] = "start" ~> pc[c] = "done" \/ main = "died"

-----------------------------------------------------------------------------
(***************************************************************************)
(* format_log_entry: "the number of bytes from the server (size)".  A log  *)
(* entry counts what the server sent.                                      *)
(***************************************************************************)
LogCountsServerBytes ==
  \A k \in DOMAIN log : log[k].size = taken[<<log[k].client, "server">>]
=============================================================================
