------------------------------ MODULE Workload ------------------------------
(***************************************************************************)
(* A workload with a TLS socket: the loader opens a connection for it, or  *)
(* it accepts one from a peer, and uses the stream until it ends.          *)
(***************************************************************************)
EXTENDS WorkloadLoader, TlsStream

workload == <<loader, tlsvars>>

WorkloadInit == LoaderInit /\ TlsInit

\* A TLS connection among the configured files: TcpStream::connect, then the handshake.
OpenTls ==
    /\ MoreFiles /\ Alive /\ NextFile.kind = "connect" /\ Tls(NextFile)
    /\ \/ ConnectTls /\ UNCHANGED loader
       \/ /\ conn.side = "none" /\ ~flow.broken
          /\ Goes("failed") /\ InKeep /\ UNCHANGED <<pkg, table>> /\ UNCHANGED tlsvars

TlsOpened ==
    /\ MoreFiles /\ NextFile.kind = "connect" /\ Tls(NextFile)
    /\ call = NoCall /\ (conn.traffic \/ flow.broken)
    /\ IF flow.broken THEN Goes("failed") /\ UNCHANGED table ELSE Opens(NextFile) /\ UNCHANGED stage
    /\ InKeep /\ UNCHANGED pkg /\ UNCHANGED tlsvars

Listens == \E i \in DOMAIN table.fds : table.fds[i].kind = "listen" /\ Tls(table.fds[i])
Connects == \E i \in DOMAIN table.fds : table.fds[i].kind = "connect" /\ Tls(table.fds[i])

\* The workload ends between its calls; streams live while the keep does.
WorkloadNext ==
    \/ LoaderStep /\ UNCHANGED tlsvars
    \/ call = NoCall /\ Finish /\ UNCHANGED tlsvars
    \/ OpenTls \/ TlsOpened
    \/ Alive /\ IoStep /\ UNCHANGED loader
    \/ Alive /\ stage = "connected" /\ (Listens \/ Connects) /\ UseTls /\ UNCHANGED loader
    \/ Alive /\ stage = "connected" /\ Listens /\ PeerConnects /\ UNCHANGED loader
    \/ Alive /\ PeerStep /\ UNCHANGED loader

WorkloadSpec == WorkloadInit /\ [][WorkloadNext]_workload

\* The thread that is in a call goes on, and the peer reads what reaches it and
\* says what it has to say.
FairSpec ==
    /\ WorkloadSpec
    /\ WF_workload(Alive /\ IoStep /\ UNCHANGED loader)
    /\ WF_workload(Alive /\ PeerTakes /\ UNCHANGED loader)
    /\ WF_workload(Alive /\ PeerSays /\ UNCHANGED loader)

(* A write on a stream returns while the keep is there: it never waits for  *)
(* the peer to say something.                                               *)
WriteReturns == call.op = "write" ~> (call.op # "write" \/ ~Alive)
=============================================================================
