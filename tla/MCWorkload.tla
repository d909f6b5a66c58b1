----------------------------- MODULE MCWorkload -----------------------------
(***************************************************************************)
(* Small workloads for TLC: every kind of package, arguments that do and   *)
(* do not fit the socket pair, a repository that publishes a new           *)
(* configuration and then a new module, configurations with and without a  *)
(* steward, with a TLS listener and with a TLS connection.                 *)
(***************************************************************************)
EXTENDS Workload

CONSTANTS MCSockRoom, MCSockBuf, MCLimit, MCMaxOut, MCMaxIn

File(kind, name, host, prot) == [kind |-> kind, name |-> name, host |-> host, prot |-> prot]
Conf(parses, steward, files) == [parses |-> parses, steward |-> steward, files |-> files]

\* The host of the third connection is an IPv6 address.
MCConfigs ==
    [plain  |-> Conf(TRUE, "none", <<Std("stdin"), Std("null"), File("connect", <<>>, <<"example">>, "tcp")>>),
     listen |-> Conf(TRUE, "https", <<Std("stdout"), File("listen", <<"in">>, <<>>, "tls")>>),
     tls    |-> Conf(TRUE, "none", <<File("connect", <<"up">>, <<"example">>, "tls"), Std("stderr")>>),
     six    |-> Conf(TRUE, "none", <<File("connect", <<>>, <<"", "", "1">>, "tcp")>>),
     http   |-> Conf(TRUE, "http", <<>>),
     colon  |-> Conf(TRUE, "none", <<File("null", <<"a", "b">>, <<>>, "none")>>),
     broken |-> Conf(FALSE, "none", <<>>)]

State(d, w, c) == [dir |-> d, wasm |-> w, conf |-> c]
Moves == <<State("d1", "w1", "plain"), State("d2", "w1", "six"), State("d3", "w2", "six")>>
Still == <<State("d1", "w1", "none")>>
Order(fd, kind, pieces, size, wasm, conf, repo) ==
    [firstfd |-> fd, kind |-> kind, pieces |-> pieces, size |-> size, wasm |-> wasm, conf |-> conf, repo |-> repo]

Local(conf) == Order(3, "local", 1, "right", "w1", conf, Still)
Remote(kind, repo) == Order(3, kind, 2, "right", "none", "none", repo)
MCOrders ==
    {Local(c) : c \in {"none", "listen", "tls", "six", "http", "colon", "broken"}}
        \cup {Remote(kind, repo) : kind \in {"wasm", "dir", "tagdir", "tagwasm"}, repo \in {Moves, Still}}
        \cup {Order(4, "local", 1, "right", "w1", "none", Still),
              Order(3, "local", MCSockRoom + 2, "right", "w1", "none", Still),
              Order(3, "wasm", 1, "wrong", "none", "none", Still),
              Remote("other", Still)}

\* One workload that connects, for the run about its writes.
MCWriter == {Local("tls")}
=============================================================================
