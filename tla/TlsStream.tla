------------------------------ MODULE TlsStream ------------------------------
(***************************************************************************)
(* The TLS sockets of a workload                                           *)
(* (src/crates/exec-wasmtime/src/loader/compiled/tls.rs): a TCP socket, a  *)
(* rustls connection on top of it and the calls the workload makes on the  *)
(* pair.  Every call runs complete_io_async, a loop of system calls, each  *)
(* of which is a step here: on a blocking socket a step that cannot go on  *)
(* is simply not enabled.                                                  *)
(*                                                                         *)
(* A TLS record is one element of a wire: a handshake message, a ticket,   *)
(* the closing alert, a damaged record, or a unit of data, which is the    *)
(* number of the unit in its sender's stream.  The peer, the network and   *)
(* rustls 0.20 are external and modelled by how the code uses them.        *)
(***************************************************************************)
EXTENDS Naturals, Sequences, FiniteSetsExt, SequencesExt

CONSTANTS SockBuf,   \* records a socket holds, in each direction
          Limit,     \* records rustls keeps to be sent
          MaxOut,    \* bound on the units the workload writes
          MaxIn      \* bound on the units the peer sends

ASSUME TlsAssumption == SockBuf \in Nat \ {0} /\ Limit \in Nat \ {0} /\ MaxOut \in Nat /\ MaxIn \in Nat

VARIABLES conn,   \* rustls' Connection
          wire,   \* records on their way to the peer, and from it
          peer,   \* the other end
          call,   \* the call the workload is in
          flow    \* what the workload was told: units written, units read, the end

tlsvars == <<conn, wire, peer, call, flow>>

NoConn == [side |-> "none", traffic |-> FALSE, out |-> <<>>, plain |-> <<>>, notify |-> FALSE, eof |-> FALSE]
NoCall == [op |-> "none", at |-> "write", phase |-> 1, until |-> FALSE, wrote |-> FALSE, units |-> 0, nonblock |-> FALSE]

TlsInit ==
    /\ conn = NoConn /\ call = NoCall
    /\ wire = [out |-> <<>>, inn |-> <<>>]
    /\ peer = [state |-> "idle", traffic |-> FALSE, sent |-> 0, got |-> <<>>, notify |-> FALSE]
    /\ flow = [told |-> <<>>, handed |-> <<>>, end |-> "no", broken |-> FALSE, nonblock |-> FALSE]

\* The units among records.
Units(records) ==
    LET units[i \in 0..Len(records)] ==
            IF i = 0 THEN <<>>
            ELSE IF records[i].kind = "data" THEN Append(units[i - 1], records[i].unit)
            ELSE units[i - 1]
    IN units[Len(records)]
Record(kind) == [kind |-> kind, unit |-> 0]
Unit(n) == [kind |-> "data", unit |-> n]
UpTo(from, n) == [i \in 1..n |-> Unit(from + i)]

-----------------------------------------------------------------------------
(* rustls *)

WantsWrite(c) == c.out # <<>>
WantsRead(c) == c.plain = <<>> /\ ~c.notify /\ (c.traffic \/ c.out = <<>>)

\* process_new_packets, one record.
Processed(c, r) ==
    CASE r.kind = "data" -> [c EXCEPT !.plain = Append(@, r.unit)]
      [] r.kind = "hello" -> [c EXCEPT !.out = Append(@, Record("flight"))]
      [] r.kind = "fin" -> [c EXCEPT !.traffic = TRUE, !.out = Append(@, Record("ticket"))]
      [] r.kind = "flight" -> [c EXCEPT !.traffic = TRUE, !.out = Append(@, Record("fin"))]
      [] r.kind = "notify" -> [c EXCEPT !.notify = TRUE]
      [] OTHER -> c
ProcessedAll(c, records) ==
    LET after[i \in 0..Len(records)] == IF i = 0 THEN c ELSE Processed(after[i - 1], records[i])
    IN after[Len(records)]
Damaged(records) == \E i \in DOMAIN records : records[i].kind = "bad"

-----------------------------------------------------------------------------
(* The end of a call *)

Ends == call' = NoCall
Within(k) == call' = [call EXCEPT !.at = "write", !.phase = 2, !.until = FALSE, !.wrote = FALSE, !.units = k]

\* reader().read_vectored: what is there, up to the buffer's size; else the reason why nothing is.
ReadDone(c) ==
    LET n == Min({call.units, Len(c.plain)}) IN
    /\ conn' = [c EXCEPT !.plain = SubSeq(@, n + 1, Len(@))]
    /\ flow' = [flow EXCEPT !.handed = @ \o SubSeq(c.plain, 1, n),
                            !.end = IF n = 0 /\ c.notify THEN "clean" ELSE @,
                            !.broken = @ \/ (n = 0 /\ ~c.notify /\ c.eof)]
    /\ Ends

\* writer().write_vectored takes what fits in rustls' buffer, and then complete_io runs again.
WriteTaken(c) ==
    LET k == Min({call.units, Limit - Min({Limit, Len(c.out)})}) IN
    /\ conn' = [c EXCEPT !.out = @ \o UpTo(Len(flow.told), k)]
    /\ Within(k) /\ UNCHANGED flow

\* A slip to catch: a write that left nothing on the socket is reported as not done.
WrittenTold(c) ==
    /\ conn' = c /\ Ends
    /\ flow' = IF c.out # <<>> THEN flow
               ELSE [flow EXCEPT !.told = @ \o [i \in 1..call.units |-> Len(@) + i]]

Written(c) ==
    /\ conn' = c /\ Ends
    /\ flow' = [flow EXCEPT !.told = @ \o [i \in 1..call.units |-> Len(@) + i]]

\* set_fdflags of an accepted stream; a connected one stays as it is.
Opened(c) ==
    /\ conn' = c /\ Ends
    /\ flow' = [flow EXCEPT !.nonblock = call.nonblock]

Completed(c) ==
    CASE call.op = "read" -> ReadDone(c)
      [] call.op = "write" /\ call.phase = 1 -> WriteTaken(c)
      [] call.op = "write" /\ call.phase = 2 -> Written(c)
      [] OTHER -> Opened(c)

\* An error: a stream that was being opened is dropped, another one is of no more use.
Errs ==
    /\ Ends /\ flow' = [flow EXCEPT !.broken = TRUE]
    /\ conn' = IF call.op \in {"connect", "accept"} THEN NoConn ELSE conn

-----------------------------------------------------------------------------
(* complete_io_async *)

InIo(where) == call.op # "none" /\ call.at = where
Room == SockBuf - Len(wire.out)
Blocking == call.op \in {"connect", "accept"} \/ ~flow.nonblock

\* write_tls, while there is something to write.
IoWrite ==
    /\ InIo("write") /\ WantsWrite(conn) /\ peer.state = "open"
    /\ \E n \in 1..Min({Len(conn.out), Room}) :
          /\ wire' = [wire EXCEPT !.out = @ \o SubSeq(conn.out, 1, n)]
          /\ conn' = [conn EXCEPT !.out = SubSeq(@, n + 1, Len(@))]
    /\ call' = [call EXCEPT !.wrote = TRUE]
    /\ UNCHANGED <<peer, flow>>

\* write_tls or read_tls after the peer has gone.
IoFails ==
    /\ peer.state = "closed"
    /\ (InIo("write") /\ WantsWrite(conn)) \/ (InIo("read") /\ WantsRead(conn))
    /\ Errs /\ UNCHANGED <<wire, peer>>

\* The loop ends with nothing left, or with WouldBlock; what was written ends the call.
IoWritten ==
    /\ InIo("write")
    /\ ~WantsWrite(conn) \/ (~Blocking /\ Room = 0 /\ peer.state = "open")
    /\ IF ~call.until /\ call.wrote THEN Completed(conn)
       ELSE call' = [call EXCEPT !.at = "read"] /\ UNCHANGED <<conn, flow>>
    /\ UNCHANGED <<wire, peer>>

\* The match after process_new_packets.
Matched(c) ==
    IF ~call.until \/ c.traffic THEN Completed(c)
    ELSE IF c.eof THEN Errs
    ELSE /\ conn' = c /\ call' = [call EXCEPT !.at = "write"] /\ UNCHANGED flow

\* read_tls and process_new_packets.
IoRead ==
    /\ InIo("read") /\ WantsRead(conn) /\ wire.inn # <<>>
    /\ \E n \in 1..Len(wire.inn) :
          LET records == SubSeq(wire.inn, 1, n) IN
          /\ wire' = [wire EXCEPT !.inn = SubSeq(@, n + 1, Len(@))]
          /\ IF Damaged(records) THEN Errs ELSE Matched(ProcessedAll(conn, records))
    /\ UNCHANGED peer

IoReadEof ==
    /\ InIo("read") /\ WantsRead(conn) /\ wire.inn = <<>> /\ peer.state = "closed"
    /\ Matched([conn EXCEPT !.eof = TRUE])
    /\ UNCHANGED <<wire, peer>>

\* WouldBlock: whatever was wanted, the call is over.
IoReadBlocks ==
    /\ InIo("read") /\ WantsRead(conn) /\ wire.inn = <<>> /\ peer.state = "open" /\ ~Blocking
    /\ Completed(conn)
    /\ UNCHANGED <<wire, peer>>

IoReadNothing ==
    /\ InIo("read") /\ ~WantsRead(conn)
    /\ Matched(conn)
    /\ UNCHANGED <<wire, peer>>

IoStep == \/ IoWrite \/ IoFails \/ IoWritten
          \/ IoRead \/ IoReadEof \/ IoReadBlocks \/ IoReadNothing

-----------------------------------------------------------------------------
(* The workload's calls *)

Calls(op, units, nonblock) ==
    /\ call = NoCall
    /\ call' = [NoCall EXCEPT !.op = op, !.units = units, !.nonblock = nonblock, !.until = ~conn'.traffic]

\* Stream::connect
ConnectTls ==
    /\ conn.side = "none" /\ ~flow.broken
    /\ conn' = [NoConn EXCEPT !.side = "client", !.out = <<Record("hello")>>]
    /\ Calls("connect", 0, FALSE)
    /\ peer' = [peer EXCEPT !.state = "open"] /\ UNCHANGED <<wire, flow>>

\* Listener::sock_accept, once there is a connection; the stream blocks until it is open.
AcceptTls(nonblock) ==
    /\ conn.side = "none" /\ peer.state = "open" /\ ~flow.broken
    /\ conn' = [NoConn EXCEPT !.side = "server"]
    /\ Calls("accept", 0, nonblock) /\ UNCHANGED <<wire, peer, flow>>

Usable == conn.traffic /\ ~flow.broken

Read(n) ==
    /\ Usable /\ UNCHANGED conn /\ Calls("read", n, FALSE)
    /\ UNCHANGED <<wire, peer, flow>>

Write(n) ==
    /\ Usable /\ Len(flow.told) + n <= MaxOut
    /\ UNCHANGED conn /\ Calls("write", n, FALSE)
    /\ UNCHANGED <<wire, peer, flow>>

SetFdflags(nonblock) ==
    /\ Usable /\ call = NoCall /\ flow.nonblock # nonblock
    /\ flow' = [flow EXCEPT !.nonblock = nonblock] /\ UNCHANGED <<conn, wire, peer, call>>

UseTls == \/ \E n \in {1, 2} : Read(n) \/ Write(n)
          \/ \E b \in BOOLEAN : AcceptTls(b) \/ SetFdflags(b)

-----------------------------------------------------------------------------
(* The peer *)

PeerConnects ==
    /\ peer.state = "idle" /\ conn.side = "none"
    /\ peer' = [peer EXCEPT !.state = "open"]
    /\ wire' = [wire EXCEPT !.inn = <<Record("hello")>>]
    /\ UNCHANGED <<conn, call, flow>>

Reply(r) == CASE r.kind = "hello" -> <<Record("flight")>>
              [] r.kind = "flight" -> <<Record("fin")>>
              [] r.kind = "fin" -> <<Record("ticket")>>
              [] OTHER -> <<>>

PeerTakes ==
    /\ peer.state = "open" /\ wire.out # <<>>
    /\ Len(wire.inn) + Len(Reply(Head(wire.out))) <= SockBuf
    /\ LET r == Head(wire.out) IN
       /\ wire' = [out |-> Tail(wire.out), inn |-> wire.inn \o Reply(r)]
       /\ peer' = [peer EXCEPT !.traffic = @ \/ r.kind \in {"flight", "fin"},
                               !.got = IF r.kind = "data" THEN Append(@, r.unit) ELSE @]
    /\ UNCHANGED <<conn, call, flow>>

PeerSays ==
    /\ peer.state = "open" /\ peer.traffic /\ ~peer.notify /\ peer.sent < MaxIn /\ Len(wire.inn) < SockBuf
    /\ peer' = [peer EXCEPT !.sent = @ + 1]
    /\ wire' = [wire EXCEPT !.inn = Append(@, Unit(peer.sent + 1))]
    /\ UNCHANGED <<conn, call, flow>>

\* The closing alert; a record the network damaged.
PeerSends(kind) ==
    /\ peer.state = "open" /\ peer.traffic /\ ~peer.notify /\ Len(wire.inn) < SockBuf
    /\ wire' = [wire EXCEPT !.inn = Append(@, Record(kind))]
    /\ peer' = [peer EXCEPT !.notify = (kind = "notify"), !.traffic = (kind # "bad")]
    /\ UNCHANGED <<conn, call, flow>>

PeerCloses ==
    /\ peer.state = "open"
    /\ peer' = [peer EXCEPT !.state = "closed"]
    /\ UNCHANGED <<conn, wire, call, flow>>

PeerAnswers == PeerTakes \/ PeerSays
PeerStep == PeerAnswers \/ PeerSends("notify") \/ PeerSends("bad") \/ PeerCloses

-----------------------------------------------------------------------------
Count(n) == [i \in 1..n |-> i]
Pending(k) == IF k.op = "write" /\ k.phase = 2 THEN k.units ELSE 0

(* A stream that has not failed loses, repeats and reorders nothing: the    *)
(* units the workload was told it wrote are with the peer, on the wire or   *)
(* in rustls' buffer, and no others are; the units the peer sent are with   *)
(* the workload, in rustls or on the wire; and the workload sees the end of *)
(* the stream only when the peer announced it and all its units were read.  *)
StreamSound ==
    /\ ~flow.broken =>
         /\ peer.got \o Units(wire.out) \o Units(conn.out) = Count(Len(flow.told) + Pending(call))
         /\ flow.handed \o conn.plain \o Units(wire.inn) = Count(peer.sent)
    /\ flow.end = "clean" => peer.notify /\ flow.handed = Count(peer.sent)

-----------------------------------------------------------------------------
(* The inductive invariant behind it.                                       *)

Records == [kind : {"hello", "flight", "fin", "ticket", "data", "notify", "bad"}, unit : Nat]
Conns == [side : {"none", "client", "server"}, traffic : BOOLEAN, out : Seq(Records),
          plain : Seq(Nat), notify : BOOLEAN, eof : BOOLEAN]
Wires == [out : Seq(Records), inn : Seq(Records)]
Peers == [state : {"idle", "open", "closed"}, traffic : BOOLEAN, sent : Nat, got : Seq(Nat), notify : BOOLEAN]
InCalls == [op : {"none", "connect", "accept", "read", "write"}, at : {"write", "read"}, phase : {1, 2},
            until : BOOLEAN, wrote : BOOLEAN, units : Nat, nonblock : BOOLEAN]
Flows == [told : Seq(Nat), handed : Seq(Nat), end : {"no", "clean"}, broken : BOOLEAN, nonblock : BOOLEAN]

\* A closing alert is the last thing its sender says.
AlertsLast(c, w, p) ==
    /\ \A i \in 1..Len(w.inn) : w.inn[i].kind = "notify" =>
          p.notify = TRUE /\ \A j \in i + 1..Len(w.inn) : w.inn[j].kind # "data"
    /\ c.notify = TRUE => p.notify = TRUE /\ Units(w.inn) = <<>>

\* A connection, its wire, its peer, a call and what the workload was told fit together.
Consistent(c, w, p, k, f) ==
    /\ c \in Conns /\ w \in Wires /\ p \in Peers /\ k \in InCalls /\ f \in Flows
    /\ AlertsLast(c, w, p)
    /\ c.side = "none" => c = NoConn
    /\ p.state = "idle" => w.inn = <<>>
    /\ k.op # "none" => f.broken = FALSE /\ c.side # "none"
    /\ k.op = "read" => k.units > 0
    /\ f.broken = FALSE =>
         /\ p.got \o Units(w.out) \o Units(c.out) = Count(Len(f.told) + Pending(k))
         /\ f.handed \o c.plain \o Units(w.inn) = Count(p.sent)
    /\ f.end = "clean" => p.notify = TRUE /\ f.handed = Count(p.sent)

StreamInv == Consistent(conn, wire, peer, call, flow)
=============================================================================
