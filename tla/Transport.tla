------------------------------- MODULE Transport -------------------------------
(***************************************************************************)
(* The TCP transport of one connection: VT01 frames that any number of     *)
(* goroutines write under a mutex and one goroutine reads, and the channel *)
(* encryption handshake that Connect performs on them before it publishes  *)
(* the connection.  The server is external.                                *)
(* Abstraction: a frame is two header cells (length, magic) and `size`     *)
(* payload cells, the stream is a sequence of cells; a payload is what it  *)
(* says and how it is sealed, never its bytes.                             *)
(***************************************************************************)
EXTENDS Integers, Sequences, SequencesExt

CONSTANTS
  Writers,    \* goroutines that send one packet each on the new connection
  Leaver,     \* the one of them that is Disconnect: it closes after its LogOff
  Connector,  \* the goroutine inside Connect, which sends the handshake's response
  NoOne,      \* nobody holds the mutex
  Scripts     \* what the server may send once encryption is on: sequences of messages

ASSUME WritersAssumption ==
  /\ Leaver \in Writers
  /\ Connector \notin Writers /\ NoOne \notin Writers \cup {Connector}

Senders == Writers \cup {Connector}
Modes == {"clear", "iv", "hmac"}
BodyLengths == {4, 8, 24}   \* of a ChannelEncryptRequest: cut short, plain, with challenge

VARIABLES
  link,      \* "up", "stalled" (the peer takes nothing), "broken" or "closed"
  hs,        \* where Connect is
  cipher,    \* t.cipher, "clear" for nil
  useHMAC,   \* whether the request had a challenge, as the client read it
  conn,      \* c.conn is this connection and its read loop runs
  mu,        \* who holds t.mu
  pc,        \* where each sender's Write is
  out,       \* the frame it writes
  put,       \* how many cells of it are written
  toServer, toClient,   \* the cells written, and those written to the client and not read
  begun,     \* observed: the frames in the order their writing began
  got,       \* the cells of the frame that is being read
  readErr,   \* why the last Read failed, "no" before
  srv,       \* where the server is
  challenge, \* whether the server's request had a challenge
  script,    \* what the server has still to send
  said       \* observed: what it has sent

link_vars == <<link, hs, cipher, useHMAC, conn>>
write_vars == <<mu, pc, out, put, toServer, begun>>
read_vars == <<toClient, got, readErr>>
srv_vars == <<srv, challenge, script, said>>

Frame(what, mode, size, body) == [what |-> what, mode |-> mode, size |-> size, body |-> body]
NoFrame == Frame("none", "clear", 0, <<>>)
Cells(f) == [i \in 1..(2 + f.size) |-> <<f, i>>]

TransportInit ==
  /\ link = "up" /\ hs = "request" /\ cipher = "clear" /\ useHMAC = FALSE /\ conn = FALSE
  /\ mu = NoOne
  /\ pc = [p \in Senders |-> "idle"]
  /\ out = [p \in Senders |-> NoFrame]
  /\ put = [p \in Senders |-> 0]
  /\ toServer = <<>> /\ toClient = <<>> /\ begun = <<>> /\ got = <<>> /\ readErr = "no"
  /\ srv = "start" /\ challenge = FALSE
  /\ script \in Scripts /\ said = <<>>

-----------------------------------------------------------------------------
(* Write: encrypt, lock, two writes, unlock.                               *)

\* Outside the mutex: the payload is sealed with the cipher there is.
Sealed(f) == [f EXCEPT !.mode = cipher]

Encrypt(p, f) ==
  /\ pc[p] = "idle"
  /\ out' = [out EXCEPT ![p] = Sealed(f)]
  /\ pc' = [pc EXCEPT ![p] = "lock"]
  /\ UNCHANGED <<mu, put, toServer, begun, link_vars, read_vars, srv_vars>>

FreeBug_Always == TRUE
Free == mu = NoOne

Lock(p) ==
  /\ pc[p] = "lock" /\ Free
  /\ mu' = p
  /\ pc' = [pc EXCEPT ![p] = "write"]
  /\ begun' = Append(begun, out[p])
  /\ UNCHANGED <<out, put, toServer, link_vars, read_vars, srv_vars>>

\* The two calls of conn.Write; the network takes the bytes bit by bit.
WriteCell(p) ==
  /\ pc[p] = "write" /\ link = "up" /\ put[p] < 2 + out[p].size
  /\ put' = [put EXCEPT ![p] = @ + 1]
  /\ toServer' = Append(toServer, Cells(out[p])[put'[p]])
  /\ UNCHANGED <<mu, pc, out, begun, link_vars, read_vars, srv_vars>>

\* The deferred Unlock.
UnlockedBug_NotOnError(p, how) == IF how = "err" THEN mu ELSE NoOne
Unlocked(p, how) == NoOne

Written(p) ==
  /\ pc[p] = "write" /\ put[p] = 2 + out[p].size
  /\ mu' = Unlocked(p, "ok")
  /\ pc' = [pc EXCEPT ![p] = "ok"]
  /\ UNCHANGED <<out, put, toServer, begun, link_vars, read_vars, srv_vars>>

\* Read and Write on a connection that has broken or was closed here return an error.
Gone == link \in {"broken", "closed"}

\* There are no deadlines: a Write fails when the connection is gone, for good.
WriteFails(p) ==
  /\ pc[p] = "write" /\ Gone /\ put[p] < 2 + out[p].size
  /\ mu' = Unlocked(p, "err")
  /\ pc' = [pc EXCEPT ![p] = "err"]
  /\ UNCHANGED <<out, put, toServer, begun, link_vars, read_vars, srv_vars>>

\* sendPacket of a goroutine that has the connection: it stops at encode or here.
SendPacket(w) == conn /\ Encrypt(w, Frame("packet", "clear", 2, <<>>))

\* Disconnect closes the connection once its LogOff has been written or has failed.
Leave ==
  /\ pc[Leaver] \in {"ok", "err"} /\ link # "closed"
  /\ link' = "closed"
  /\ UNCHANGED <<hs, cipher, useHMAC, conn, write_vars, read_vars, srv_vars>>

-----------------------------------------------------------------------------
(* Read: header, length, payload, decryption.                              *)

\* performEncryptionHandshake fails: Connect closes the connection.
Fails == hs' = "failed" /\ link' = "closed" /\ UNCHANGED <<cipher, useHMAC, conn>>

ValidMagic == got[1][2] = 1 /\ got[2][2] = 2

\* io.ReadFull: how many cells the frame that is being read still lacks.
Lacks == IF Len(got) < 2 THEN 2 - Len(got) ELSE 2 + got[1][1].size - Len(got)

Incoming == got[1][1]
FrameRead == Len(got) >= 2 /\ ValidMagic /\ Lacks = 0

\* With a cipher the payload is decrypted and must have been sealed alike.
Opens(f) == f.mode = cipher

Reading == readErr = "no" /\ hs \in {"request", "result", "connected"}

\* What had arrived before the connection broke can still be read; closed, nothing can.
ReadCell ==
  /\ Reading /\ link # "closed" /\ toClient # <<>> /\ Lacks > 0
  /\ Len(got) = 2 => ValidMagic
  /\ got' = Append(got, Head(toClient))
  /\ toClient' = Tail(toClient)
  /\ UNCHANGED <<readErr, link_vars, write_vars, srv_vars>>

Spoilt(why) ==
  \/ why = "closed" /\ Lacks > 0 /\ Gone
  \/ why = "magic" /\ Len(got) = 2 /\ ~ValidMagic
  \/ why = "decrypt" /\ FrameRead /\ ~Opens(Incoming)

\* A failed Read ends the handshake, which closes the connection, or the read loop.
ReadFails ==
  /\ Reading
  /\ \E why \in {"closed", "magic", "decrypt"} : Spoilt(why) /\ readErr' = why
  /\ IF hs = "connected" THEN UNCHANGED link_vars ELSE Fails
  /\ UNCHANGED <<toClient, got, write_vars, srv_vars>>

\* Read returns this frame's payload.
Receive(what) ==
  /\ Reading /\ FrameRead /\ Opens(Incoming)
  /\ what = Incoming.what
  /\ got' = <<>>
  /\ UNCHANGED <<toClient, readErr>>

-----------------------------------------------------------------------------
(* performEncryptionHandshake, and what Connect does around it.            *)

HasChallenge(n) == n >= 24

GetRequest ==
  /\ hs = "request"
  /\ \/ /\ Receive("request") /\ Incoming.body >= 8
        /\ hs' = "respond" /\ useHMAC' = HasChallenge(Incoming.body)
        /\ UNCHANGED <<link, cipher, conn>>
     \/ Receive("request") /\ Incoming.body < 8 /\ Fails
     \/ Receive("result") /\ Fails   \* some other message
  /\ UNCHANGED <<write_vars, srv_vars>>

Respond == hs = "respond" /\ Encrypt(Connector, Frame("response", "clear", 1, <<>>))

ResponseSent ==
  /\ hs = "respond" /\ pc[Connector] \in {"ok", "err"}
  /\ IF pc[Connector] = "ok" THEN hs' = "result" /\ UNCHANGED <<link, cipher, useHMAC, conn>> ELSE Fails
  /\ UNCHANGED <<write_vars, read_vars, srv_vars>>

CipherFor(h) == IF h THEN "hmac" ELSE "iv"

GetResult ==
  /\ hs = "result"
  /\ \/ /\ Receive("result") /\ Incoming.body = 1
        /\ hs' = "secured" /\ cipher' = CipherFor(useHMAC) /\ UNCHANGED <<link, useHMAC, conn>>
     \/ Receive("result") /\ Incoming.body # 1 /\ Fails
     \/ Receive("request") /\ Fails
  /\ UNCHANGED <<write_vars, srv_vars>>

\* c.conn = tcp; go c.readLoop(): not before the handshake is over.
PublishableBug_Early == hs = "result"
Publishable == hs = "secured"

Publish ==
  /\ ~conn /\ Publishable
  /\ conn' = TRUE
  /\ hs' = IF hs = "secured" THEN "connected" ELSE hs
  /\ UNCHANGED <<link, cipher, useHMAC, write_vars, read_vars, srv_vars>>

-----------------------------------------------------------------------------
(* The network and the server.                                             *)

ServerWrites(f) == toClient' = toClient \o Cells(f) /\ UNCHANGED <<got, readErr>>

\* A request, sometimes not the one that the client expects or cut short.
ServerRequests ==
  /\ srv = "start" /\ link = "up"
  /\ \E n \in BodyLengths, what \in {"request", "result"} :
        /\ ServerWrites(Frame(what, "clear", 1, n))
        /\ challenge' = (n >= 24)
  /\ srv' = "asked"
  /\ UNCHANGED <<script, said, link_vars, write_vars>>

\* Having the whole response it accepts or refuses it, or says something else.
ServerResults ==
  /\ srv = "asked" /\ link = "up"
  /\ begun # <<>> /\ begun[1].what = "response" /\ Len(toServer) >= 2 + begun[1].size
  /\ \E n \in {1, 2}, what \in {"request", "result"} :
        /\ ServerWrites(Frame(what, "clear", 1, n))
        /\ srv' = IF n = 1 /\ what = "result" THEN "open" ELSE "over"
  /\ UNCHANGED <<script, said, challenge, link_vars, write_vars>>

ServerSends ==
  /\ srv = "open" /\ link = "up" /\ script # <<>>
  /\ ServerWrites(Frame("message", CipherFor(challenge), 2, Head(script)))
  /\ script' = Tail(script) /\ said' = Append(said, Head(script))
  /\ UNCHANGED <<srv, challenge, link_vars, write_vars>>

Stall == link = "up" /\ link' = "stalled" /\ UNCHANGED <<hs, cipher, useHMAC, conn, write_vars, read_vars, srv_vars>>

\* The connection breaks; one that has stalled is given up by the system at last.
Break == link \in {"up", "stalled"} /\ link' = "broken" /\ UNCHANGED <<hs, cipher, useHMAC, conn, write_vars, read_vars, srv_vars>>
=============================================================================
