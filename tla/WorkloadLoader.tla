--------------------------- MODULE WorkloadLoader ---------------------------
(***************************************************************************)
(* From the command to the running workload.  On the host, run_package     *)
(* (src/src/exec/mod.rs) makes a socket pair, opens the package, starts a  *)
(* thread that writes the encoded arguments into the pair and enters the   *)
(* keep.  In the keep, exec-wasmtime reads the arguments to their end and  *)
(* steps through the loader's states (src/crates/exec-wasmtime): request,  *)
(* attest, compile, connect, run.                                          *)
(*                                                                         *)
(* A remote package is fetched in several requests, between which its      *)
(* repository may move on.  A repository state names the directory, the    *)
(* module and the configuration it holds; metadata is that name, since a   *)
(* digest is part of it.                                                   *)
(***************************************************************************)
EXTENDS Naturals, Sequences, SequencesExt

CONSTANTS Orders,    \* what a command is asked to run, and where
          Configs,   \* the configurations a name stands for
          SockRoom   \* pieces of the arguments the socket pair holds

ASSUME LoaderAssumption ==
    /\ SockRoom \in Nat \ {0}
    /\ \A o \in Orders : o.pieces \in Nat /\ Len(o.repo) >= 1 /\ DOMAIN o.repo = 1..Len(o.repo)

\* Configurations are known by name; a name and a host are sequences of parts
\* between colons, and a host has one part at least.
IsSeq(s) == s \in Seq(ToSet(s))
ASSUME ConfigsAssumption ==
    /\ \A o \in Orders : {o.conf} \cup {r.conf : r \in ToSet(o.repo)} \subseteq {"none"} \cup DOMAIN Configs
    /\ \A c \in DOMAIN Configs :
          /\ IsSeq(Configs[c].files)
          /\ \A f \in ToSet(Configs[c].files) :
                IsSeq(f.name) /\ IsSeq(f.host) /\ (f.kind = "connect" => f.host # <<>>)

VARIABLES order,    \* the command's inputs
          main,     \* where the command's main thread is
          report,   \* what the command reports
          writer,   \* the thread that writes the arguments: its state, pieces left
          sock,     \* pieces in the socket
          stage,    \* the loader's state in the keep
          args,     \* pieces of the arguments read
          now,      \* the state the repository is in
          pkg,      \* what has been fetched: tag, directory, module, configuration
          table     \* the workload's file descriptors, FD_COUNT and FD_NAMES

loader == <<order, main, report, writer, sock, stage, args, now, pkg, table>>
hostside == <<main, report, writer>>

NoPkg == [tag |-> "none", dir |-> "none", wasm |-> "none", conf |-> "none"]
NoTable == [fds |-> <<>>, count |-> 0, names |-> <<>>]

LoaderInit ==
    /\ order \in Orders /\ now = 1
    /\ main = "pair" /\ report = "none" /\ writer = [at |-> "none", left |-> order.pieces] /\ sock = 0
    /\ stage = "off" /\ args = 0 /\ pkg = NoPkg /\ table = NoTable

-----------------------------------------------------------------------------
(* run_package *)

Reports(what) == main' = "done" /\ report' = what

\* The pair must be the first descriptors opened; then the package's files are opened.
Pair ==
    /\ main = "pair"
    /\ \/ order.firstfd # 3 /\ Reports("panic") /\ UNCHANGED writer
       \/ order.firstfd = 3 /\ order.kind = "local" /\ Reports("open") /\ UNCHANGED writer
       \/ order.firstfd = 3 /\ main' = "keep" /\ writer' = [writer EXCEPT !.at = "write"] /\ UNCHANGED report
    /\ UNCHANGED <<order, sock, stage, args, now, pkg, table>>

\* write_all on the non-blocking socket: with no room it fails and drops the socket.
WriteArgs ==
    /\ writer.at = "write" /\ writer.left > 0
    /\ IF sock < SockRoom
       THEN \E n \in 1..writer.left :
               /\ sock + n <= SockRoom
               /\ sock' = sock + n /\ writer' = [writer EXCEPT !.left = @ - n]
       ELSE writer' = [writer EXCEPT !.at = "failed"] /\ UNCHANGED sock
    /\ UNCHANGED <<order, main, report, stage, args, now, pkg, table>>

\* Both halves are shut down; the keep reads the end of the arguments after this.
Shutdown ==
    /\ writer.at = "write" /\ writer.left = 0
    /\ writer' = [writer EXCEPT !.at = "done"]
    /\ UNCHANGED <<order, main, report, sock, stage, args, now, pkg, table>>

\* keep_exec: building or entering the keep fails, without a look at the writer.
KeepFails ==
    /\ main = "keep" /\ stage \notin {"completed", "failed"}
    /\ Reports("keep") /\ stage' = "gone"
    /\ UNCHANGED <<order, writer, sock, args, now, pkg, table>>

KeepStarts ==
    /\ main = "keep" /\ stage = "off"
    /\ stage' = "args"
    /\ UNCHANGED <<order, hostside, sock, args, now, pkg, table>>

\* A slip to catch: the keep's exit code is returned whatever became of the writer.
JoinIgnoring ==
    /\ main = "keep" /\ stage \in {"completed", "failed"} /\ writer.at \in {"done", "failed"}
    /\ Reports(IF stage = "completed" THEN "exit0" ELSE "exit1")
    /\ UNCHANGED <<order, writer, sock, stage, args, now, pkg, table>>

\* The keep has exited; the writer's error comes before the exit code.
Join ==
    /\ main = "keep" /\ stage \in {"completed", "failed"} /\ writer.at \in {"done", "failed"}
    /\ Reports(IF writer.at = "failed" THEN "args" ELSE IF stage = "completed" THEN "exit0" ELSE "exit1")
    /\ UNCHANGED <<order, writer, sock, stage, args, now, pkg, table>>

-----------------------------------------------------------------------------
(* exec-wasmtime: the arguments *)

Goes(to) == stage' = to
Alive == main = "keep"
InKeep == Alive /\ UNCHANGED <<order, hostside, sock, args, now>>

ReadArgs ==
    /\ Alive /\ stage = "args" /\ sock > 0
    /\ \E n \in 1..sock : sock' = sock - n /\ args' = args + n
    /\ UNCHANGED <<order, hostside, stage, now, pkg, table>>

\* The end of the stream; arguments cut short do not decode.
DecodeArgs ==
    /\ stage = "args" /\ sock = 0 /\ writer.at \in {"done", "failed"}
    /\ Goes(IF args = order.pieces THEN "configured" ELSE "failed")
    /\ InKeep /\ UNCHANGED <<pkg, table>>

\* Platform::get, key pair, attestation, certificate request.
Request ==
    /\ stage = "configured"
    /\ \/ Goes("failed")
       \/ Goes(IF order.kind = "local" THEN "files" ELSE "top")
    /\ InKeep /\ UNCHANGED <<pkg, table>>

-----------------------------------------------------------------------------
(* Loader<Requested>: the package *)

Repo == order.repo[now]
Fetched(p, to) == pkg' = p /\ Goes(to)
Refused == UNCHANGED pkg /\ Goes("failed")

\* Two files the host opened.
ReadFiles ==
    /\ stage = "files"
    /\ Refused \/ Fetched([pkg EXCEPT !.wasm = order.wasm, !.conf = order.conf], "config")
    /\ InKeep /\ UNCHANGED table

\* The top-level URL, by its media type: a module of the right size, a directory, a tag.
FetchTop ==
    /\ stage = "top"
    /\ \/ Refused
       \/ order.kind = "wasm" /\ order.size = "right" /\ Fetched([pkg EXCEPT !.wasm = Repo.wasm], "config")
       \/ order.kind = "dir" /\ Fetched([pkg EXCEPT !.dir = Repo.dir], "module")
       \/ order.kind = "tagdir" /\ Fetched([pkg EXCEPT !.tag = Repo.dir], "root")
       \/ order.kind = "tagwasm" /\ Fetched([pkg EXCEPT !.tag = Repo.wasm], "module")
    /\ InKeep /\ UNCHANGED table

\* The root directory of a tag must be the one the tag names.
FetchRoot ==
    /\ stage = "root"
    /\ \/ Refused
       \/ Repo.dir = pkg.tag /\ Fetched([pkg EXCEPT !.dir = Repo.dir], "module")
    /\ InKeep /\ UNCHANGED table

\* What the directory says of its two entries.
Listing == CHOOSE r \in ToSet(order.repo) : r.dir = pkg.dir
Entry == IF pkg.dir = "none" THEN pkg.tag ELSE Listing.wasm

\* get_wasm: the module's metadata must be its entry's.
GetWasm ==
    /\ stage = "module"
    /\ \/ Refused
       \/ Entry # "none" /\ Repo.wasm = Entry
          /\ Fetched([pkg EXCEPT !.wasm = Repo.wasm], IF pkg.dir = "none" THEN "config" ELSE "conf")
    /\ InKeep /\ UNCHANGED table

\* A slip to catch: the configuration's metadata is not compared with its entry's.
GetConfLoose ==
    /\ stage = "conf"
    /\ \/ Refused
       \/ Listing.conf = "none" /\ Fetched(pkg, "config")
       \/ Listing.conf # "none" /\ Fetched([pkg EXCEPT !.conf = Repo.conf], "config")
    /\ InKeep /\ UNCHANGED table

\* get_package: a directory without a configuration is a package without one.
GetConf ==
    /\ stage = "conf"
    /\ \/ Refused
       \/ Listing.conf = "none" /\ Fetched(pkg, "config")
       \/ Listing.conf # "none" /\ Repo.conf = Listing.conf /\ Fetched([pkg EXCEPT !.conf = Repo.conf], "config")
    /\ InKeep /\ UNCHANGED table

\* The repository moves on between two requests.
Publish ==
    /\ Alive /\ stage \in {"top", "root", "module", "conf"} /\ now < Len(order.repo)
    /\ now' = now + 1
    /\ UNCHANGED <<order, hostside, sock, stage, args, pkg, table>>

-----------------------------------------------------------------------------
(* The configuration, certificates, compilation *)

Std(k) == [kind |-> k, name |-> <<>>, host |-> <<>>, prot |-> "none"]
DefaultConfig == [parses |-> TRUE, steward |-> "none", files |-> <<Std("stdin"), Std("stdout"), Std("stderr")>>]
Config == IF pkg.conf = "none" THEN DefaultConfig ELSE Configs[pkg.conf]

\* A name is the sequence of its parts between colons: one with a colon is refused,
\* and only a listening socket needs one.
Named(f) == Len(f.name) <= 1 /\ (f.kind = "listen" => f.name # <<>>)
ConfigOk == Config.parses /\ \A i \in DOMAIN Config.files : Named(Config.files[i])

\* A steward is only asked over https; without one the certificate is self-signed.
Steward == Config.steward # "http"

Certify ==
    /\ stage = "config"
    /\ \/ Goes("failed")
       \/ ConfigOk /\ Steward /\ Goes("attested")
    /\ InKeep /\ UNCHANGED <<pkg, table>>

\* Loader<Attested>
Compile ==
    /\ stage = "attested"
    /\ Goes("failed") \/ Goes("compiled")
    /\ InKeep /\ UNCHANGED <<pkg, table>>

-----------------------------------------------------------------------------
(* Loader<Compiled>: environment and file descriptors *)

\* File::name; FD_NAMES joins the names with colons, so that it is the sequence of all their parts.
FileName(f) == IF f.name # <<>> THEN f.name ELSE IF f.kind = "connect" THEN f.host ELSE <<f.kind>>

Names(files) == FlattenSeq([i \in DOMAIN files |-> FileName(files[i])])

SetEnv ==
    /\ stage = "compiled"
    /\ \/ Goes("failed") /\ UNCHANGED table
       \/ /\ table' = [NoTable EXCEPT !.count = Len(Config.files), !.names = Names(Config.files)]
          /\ Goes("files2")
    /\ InKeep /\ UNCHANGED pkg

NextFile == Config.files[Len(table.fds) + 1]
MoreFiles == stage = "files2" /\ Len(table.fds) < Len(Config.files)
Opens(f) == table' = [table EXCEPT !.fds = Append(@, f)]
Tls(f) == f.kind \in {"listen", "connect"} /\ f.prot = "tls"

\* Files that need no handshake; sockets may be refused, which ends the loader.
OpenFile ==
    /\ MoreFiles /\ ~(NextFile.kind = "connect" /\ Tls(NextFile))
    /\ \/ Opens(NextFile) /\ UNCHANGED stage
       \/ NextFile.kind \in {"listen", "connect"} /\ Goes("failed") /\ UNCHANGED table
    /\ InKeep /\ UNCHANGED pkg

FilesOpen ==
    /\ stage = "files2" /\ Len(table.fds) = Len(Config.files)
    /\ Goes("connected")
    /\ InKeep /\ UNCHANGED <<pkg, table>>

\* Loader<Connected>: exit status 0 is success, any other end is not.
Finish ==
    /\ stage = "connected"
    /\ Goes("completed") \/ Goes("failed")
    /\ InKeep /\ UNCHANGED <<pkg, table>>

LoaderStep ==
    \/ Pair \/ WriteArgs \/ Shutdown \/ KeepFails \/ KeepStarts \/ Join
    \/ ReadArgs \/ DecodeArgs \/ Request
    \/ ReadFiles \/ FetchTop \/ FetchRoot \/ GetWasm \/ GetConf \/ Publish
    \/ Certify \/ Compile \/ SetEnv \/ OpenFile \/ FilesOpen

-----------------------------------------------------------------------------
Ran == stage \in {"connected", "completed"}

(* The package that runs is the one asked for, whole: its arguments arrived  *)
(* complete, and a remote module and configuration are both of the one       *)
(* directory fetched, and of the one its tag named, though the repository    *)
(* moved on in between (get_package, get_wasm).                              *)
PackageSound ==
    Ran =>
        /\ args = order.pieces
        /\ order.kind = "local" => pkg.wasm = order.wasm /\ pkg.conf = order.conf
        /\ pkg.dir # "none" => \E r \in ToSet(order.repo) :
                                  r.dir = pkg.dir /\ r.wasm = pkg.wasm /\ r.conf = pkg.conf
        /\ pkg.tag # "none" => pkg.tag = IF pkg.dir = "none" THEN pkg.wasm ELSE pkg.dir

(* Its descriptors are the configured files in their order, and FD_NAMES     *)
(* names each of them, unless a connection goes by a host with colons in it. *)
TableSound ==
    Ran =>
        /\ table.fds = Config.files
        /\ \/ table.count = Len(table.names)
           \/ \E i \in DOMAIN Config.files :
                 Config.files[i].kind = "connect" /\ Config.files[i].name = <<>> /\ Len(Config.files[i].host) > 1

(* Both together: the workload that runs is the one asked for.               *)
RunsWhatWasAsked == PackageSound /\ TableSound

(* The command reports success only for a workload that ended well, an exit  *)
(* code only when the arguments had arrived, and a failed hand-over only     *)
(* when the workload never started.                                          *)
ReportedTruthfully ==
    /\ report = "exit0" => stage = "completed"
    /\ report \in {"exit0", "exit1"} => args = order.pieces /\ writer.at = "done"
    /\ report = "args" => ~Ran /\ args < order.pieces

-----------------------------------------------------------------------------
(* The inductive invariant behind these properties.                         *)

\* The pieces of the arguments are read, in the socket or still to be written;
\* the loader goes past them only when the writer has ended and all is read.
HandOverInv ==
    /\ order \in Orders /\ order.pieces \in Nat /\ sock \in Nat /\ args \in Nat
    /\ writer = [at |-> writer.at, left |-> writer.left] /\ writer.left \in Nat
    /\ writer.at \in {"none", "write", "done", "failed"}
    /\ args + sock + writer.left = order.pieces
    /\ writer.at = "done" => writer.left = 0
    /\ writer.at = "failed" => writer.left > 0
    /\ stage \notin {"off", "args", "gone"} => sock = 0 /\ writer.at \in {"done", "failed"}
    /\ stage \notin {"off", "args", "gone", "failed"} => args = order.pieces
    /\ main # "done" => report = "none"
    /\ main = "pair" => stage = "off"

\* What has been fetched at each of the loader's states; the listing of the
\* directory is that of a state the repository was in.
Listed == pkg.dir # "none" => \E r \in ToSet(order.repo) : r.dir = pkg.dir
TagNamesDir == pkg.tag # "none" /\ pkg.dir # "none" => pkg.tag = pkg.dir
PackageInv ==
    /\ now \in 1..Len(order.repo) /\ DOMAIN order.repo = 1..Len(order.repo) /\ Len(order.repo) \in Nat
    /\ pkg = [tag |-> pkg.tag, dir |-> pkg.dir, wasm |-> pkg.wasm, conf |-> pkg.conf]
    /\ stage = "files" => order.kind = "local"
    /\ stage \in {"top", "root", "module", "conf"} => order.kind # "local"
    /\ stage \in {"off", "args", "configured", "files", "top"} => pkg = NoPkg
    /\ stage = "root" => pkg.dir = "none" /\ pkg.wasm = "none" /\ pkg.conf = "none"
    /\ stage = "module" => pkg.wasm = "none" /\ pkg.conf = "none" /\ Listed /\ TagNamesDir
    /\ stage = "conf" =>
          pkg.dir # "none" /\ pkg.wasm = Listing.wasm /\ pkg.conf = "none" /\ Listed /\ TagNamesDir
    /\ stage \in {"config", "attested", "compiled", "files2", "connected", "completed"} =>
          /\ order.kind = "local" =>
                pkg.wasm = order.wasm /\ pkg.conf = order.conf /\ pkg.dir = "none" /\ pkg.tag = "none"
          /\ pkg.dir # "none" => Listed /\ pkg.wasm = Listing.wasm /\ pkg.conf = Listing.conf
          /\ pkg.tag # "none" => pkg.tag = IF pkg.dir = "none" THEN pkg.wasm ELSE pkg.dir

\* The configuration was checked before the first descriptor was opened, the
\* descriptors opened so far are its first files, and FD_NAMES is theirs all.
TableInv ==
    /\ pkg.conf \in {"none"} \cup DOMAIN Configs
    /\ stage \in {"attested", "compiled", "files2", "connected", "completed"} => ConfigOk
    /\ stage \in {"files2", "connected", "completed"} =>
          /\ table = [fds |-> table.fds, count |-> Len(Config.files), names |-> Names(Config.files)]
          /\ table.fds \in Seq(ToSet(Config.files)) /\ Len(table.fds) <= Len(Config.files)
          /\ \A i \in 1..Len(table.fds) : table.fds[i] = Config.files[i]
    /\ stage \in {"connected", "completed"} => Len(table.fds) = Len(Config.files)

LoaderInv == HandOverInv /\ PackageInv /\ ReportedTruthfully
=============================================================================
