-------------------------- MODULE Workload_proofs --------------------------
(***************************************************************************)
(* What a command reports, which package runs, with which descriptors, and *)
(* what its TLS streams carry, for every order, every history of the       *)
(* repository, every configuration and every size of the buffers.          *)
(***************************************************************************)
EXTENDS Workload, SequenceTheorems, FiniteSetTheorems, TLAPS

\* A repository state is one of the repository's states.
LEMMA RepoListed ==
    ASSUME NEW s, DOMAIN s = 1..Len(s), NEW n \in 1..Len(s)
    PROVE  s[n] \in ToSet(s)
BY DEF ToSet

-----------------------------------------------------------------------------
(* The hand-over of the arguments.                                         *)

LEMMA HandOverInit == LoaderInit => HandOverInv /\ ReportedTruthfully
BY LoaderAssumption DEF LoaderAssumption, LoaderInit, HandOverInv, ReportedTruthfully

\* The host's side: run_package and the thread that writes.
LEMMA HostKeepsHandOver ==
    ASSUME HandOverInv, ReportedTruthfully, Pair \/ WriteArgs \/ Shutdown \/ KeepFails \/ KeepStarts \/ Join
    PROVE  HandOverInv' /\ ReportedTruthfully'
<1>1. CASE Pair
  <2>1. stage' = stage /\ sock' = sock /\ args' = args /\ order' = order /\ main = "pair"
    BY <1>1 DEF Pair
  <2>2. CASE report' \in {"panic", "open"} /\ main' = "done" /\ writer' = writer
    BY <2>1, <2>2 DEF HandOverInv, ReportedTruthfully, Ran
  <2>3. CASE report' = report /\ main' = "keep" /\ writer' = [writer EXCEPT !.at = "write"]
    <3>1. report = "none" /\ stage = "off"
      BY <2>1 DEF HandOverInv
    <3>2. writer' = [at |-> "write", left |-> writer.left] /\ writer'.at = "write" /\ writer'.left = writer.left
      BY <2>3 DEF HandOverInv
    <3> QED  BY <2>1, <2>3, <3>1, <3>2 DEF HandOverInv, ReportedTruthfully, Ran
  <2> QED  BY <1>1, <2>2, <2>3 DEF Pair, Reports
<1>2. CASE WriteArgs
  <2>1. /\ stage' = stage /\ args' = args /\ order' = order /\ main' = main /\ report' = report
        /\ writer.at = "write" /\ writer.left > 0
    BY <1>2 DEF WriteArgs
  <2>2. CASE sock < SockRoom
    <3>1. PICK n \in 1..writer.left : sock' = sock + n /\ writer' = [writer EXCEPT !.left = @ - n]
      BY <1>2, <2>2 DEF WriteArgs
    <3>2. writer' = [at |-> "write", left |-> writer.left - n] /\ writer'.at = "write" /\ writer'.left = writer.left - n
      BY <2>1, <3>1 DEF HandOverInv
    <3> QED  BY <2>1, <3>1, <3>2 DEF HandOverInv, ReportedTruthfully, Ran
  <2>3. CASE ~(sock < SockRoom)
    <3>1. sock' = sock /\ writer' = [at |-> "failed", left |-> writer.left]
          /\ writer'.at = "failed" /\ writer'.left = writer.left
      BY <1>2, <2>3 DEF WriteArgs, HandOverInv
    <3> QED  BY <2>1, <3>1 DEF HandOverInv, ReportedTruthfully, Ran
  <2> QED  BY <2>2, <2>3
<1>3. CASE Shutdown
  <2>1. writer' = [at |-> "done", left |-> writer.left] /\ writer'.at = "done" /\ writer'.left = writer.left
    BY <1>3 DEF Shutdown, HandOverInv
  <2> QED  BY <1>3, <2>1 DEF Shutdown, HandOverInv, ReportedTruthfully, Ran
<1>4. CASE KeepFails
  BY <1>4 DEF KeepFails, Reports, HandOverInv, ReportedTruthfully, Ran
<1>5. CASE KeepStarts
  BY <1>5 DEF KeepStarts, hostside, HandOverInv, ReportedTruthfully, Ran
<1>6. CASE Join
  <2>1. stage' = stage /\ sock' = sock /\ args' = args /\ order' = order /\ writer' = writer /\ main' = "done"
    BY <1>6 DEF Join, Reports
  <2>2. CASE writer.at = "failed"
    <3>1. report' = "args" /\ stage \in {"completed", "failed"}
      BY <1>6, <2>2 DEF Join, Reports
    <3>2. args # order.pieces /\ args < order.pieces
      BY <2>2 DEF HandOverInv
    <3> QED  BY <2>1, <3>1, <3>2 DEF HandOverInv, ReportedTruthfully, Ran
  <2>3. CASE writer.at = "done"
    <3>1. report' = (IF stage = "completed" THEN "exit0" ELSE "exit1") /\ stage \in {"completed", "failed"}
      BY <1>6, <2>3 DEF Join, Reports
    <3>2. args = order.pieces
      BY <2>3, <3>1 DEF HandOverInv
    <3> QED  BY <2>1, <2>3, <3>1, <3>2 DEF HandOverInv, ReportedTruthfully, Ran
  <2> QED  BY <1>6, <2>2, <2>3 DEF Join
<1> QED  BY <1>1, <1>2, <1>3, <1>4, <1>5, <1>6

\* The keep's side up to the arguments' end.
LEMMA ArgsKeepHandOver ==
    ASSUME HandOverInv, ReportedTruthfully, ReadArgs \/ DecodeArgs
    PROVE  HandOverInv' /\ ReportedTruthfully'
<1> USE DEF HandOverInv, ReportedTruthfully, Ran, Alive, hostside
<1>1. CASE ReadArgs
  BY <1>1 DEF ReadArgs
<1>2. CASE DecodeArgs
  BY <1>2 DEF DecodeArgs, InKeep, Goes
<1> QED  BY <1>1, <1>2

\* A step of the loader behind the arguments: it leaves the hand-over alone.
LoaderMoves ==
    /\ Alive /\ stage \notin {"off", "args", "gone", "failed"}
    /\ stage' \notin {"off", "args", "gone"}
    /\ UNCHANGED <<order, hostside, sock, args>>

LEMMA MoveKeepsHandOver ==
    ASSUME HandOverInv, ReportedTruthfully, LoaderMoves
    PROVE  HandOverInv' /\ ReportedTruthfully'
BY DEF LoaderMoves, HandOverInv, ReportedTruthfully, Ran, Alive, hostside

LEMMA StepsMove ==
    ASSUME \/ Request \/ ReadFiles \/ FetchTop \/ FetchRoot \/ GetWasm \/ GetConf \/ Publish
           \/ Certify \/ Compile \/ SetEnv \/ OpenFile \/ FilesOpen \/ Finish \/ TlsOpened
           \/ (OpenTls /\ ~UNCHANGED loader)
    PROVE  LoaderMoves
<1> USE DEF LoaderMoves, InKeep, Goes, Fetched, Refused, hostside
<1>1. CASE Request  BY <1>1 DEF Request
<1>2. CASE ReadFiles  BY <1>2 DEF ReadFiles
<1>3. CASE FetchTop  BY <1>3 DEF FetchTop
<1>4. CASE FetchRoot  BY <1>4 DEF FetchRoot
<1>5. CASE GetWasm  BY <1>5 DEF GetWasm
<1>6. CASE GetConf  BY <1>6 DEF GetConf
<1>7. CASE Publish  BY <1>7 DEF Publish
<1>8. CASE Certify  BY <1>8 DEF Certify
<1>9. CASE Compile  BY <1>9 DEF Compile
<1>10. CASE SetEnv  BY <1>10 DEF SetEnv
<1>11. CASE OpenFile  BY <1>11 DEF OpenFile, MoreFiles
<1>12. CASE FilesOpen  BY <1>12 DEF FilesOpen
<1>13. CASE Finish  BY <1>13 DEF Finish
<1>14. CASE TlsOpened  BY <1>14 DEF TlsOpened, MoreFiles
<1>15. CASE OpenTls /\ ~UNCHANGED loader  BY <1>15 DEF OpenTls, MoreFiles
<1> QED  BY <1>1, <1>2, <1>3, <1>4, <1>5, <1>6, <1>7, <1>8, <1>9, <1>10, <1>11, <1>12, <1>13, <1>14, <1>15

-----------------------------------------------------------------------------
(* The package.                                                            *)

\* The loader's states behind the fetching.
Loaded == {"config", "attested", "compiled", "files2", "connected", "completed"}

LEMMA PackageInit == LoaderInit => PackageInv
BY LoaderAssumption DEF LoaderAssumption, LoaderInit, PackageInv, NoPkg, Listed, TagNamesDir

\* A repository state whose directory was fetched is found again in the listing.
LEMMA RepoIsListed ==
    ASSUME PackageInv
    PROVE  Repo \in ToSet(order.repo)
BY RepoListed DEF PackageInv, Repo

LEMMA ListingFound ==
    ASSUME Listed, pkg.dir # "none"
    PROVE  Listing \in ToSet(order.repo) /\ Listing.dir = pkg.dir
BY DEF Listed, Listing

\* A step that leaves the package alone and goes on past the fetching.
LEMMA StaysLoaded ==
    ASSUME PackageInv, UNCHANGED <<order, now, pkg>>,
           stage \in Loaded => stage' \in Loaded \cup {"failed", "gone"},
           stage \notin Loaded => stage' \in {stage, "failed", "gone"}
    PROVE  PackageInv'
<1>1. Listing' = Listing /\ Listed' = Listed /\ TagNamesDir' = TagNamesDir
  BY DEF Listing, Listed, TagNamesDir
<1> QED  BY <1>1 DEF PackageInv, Loaded

\* The requests themselves.
LEMMA FetchKeepsPackage ==
    ASSUME PackageInv, ReadFiles \/ FetchTop \/ FetchRoot \/ GetWasm \/ GetConf
    PROVE  PackageInv'
<1>1. UNCHANGED <<order, now>>
  BY DEF ReadFiles, FetchTop, FetchRoot, GetWasm, GetConf, InKeep
<1>2. CASE Refused
  BY <1>1, <1>2, StaysLoaded DEF Refused, Goes, Loaded
<1>3. CASE ReadFiles /\ ~Refused
  <2>1. order.kind = "local" /\ pkg = NoPkg
    BY <1>3 DEF ReadFiles, PackageInv
  <2>2. pkg' = [tag |-> "none", dir |-> "none", wasm |-> order.wasm, conf |-> order.conf] /\ stage' = "config"
    BY <1>3, <2>1 DEF ReadFiles, Fetched, Goes, NoPkg
  <2> QED  BY <1>1, <2>1, <2>2 DEF PackageInv
<1>4. CASE FetchTop /\ ~Refused
  <2>1. pkg = NoPkg /\ order.kind # "local"
    BY <1>4 DEF FetchTop, PackageInv
  <2>2. CASE Fetched([pkg EXCEPT !.wasm = Repo.wasm], "config")
    <3>1. pkg' = [tag |-> "none", dir |-> "none", wasm |-> Repo.wasm, conf |-> "none"] /\ stage' = "config"
      BY <2>1, <2>2 DEF Fetched, Goes, NoPkg
    <3> QED  BY <1>1, <2>1, <3>1 DEF PackageInv
  <2>3. CASE Fetched([pkg EXCEPT !.dir = Repo.dir], "module")
    <3>1. pkg' = [tag |-> "none", dir |-> Repo.dir, wasm |-> "none", conf |-> "none"] /\ stage' = "module"
      BY <2>1, <2>3 DEF Fetched, Goes, NoPkg
    <3>2. Listed' /\ TagNamesDir'
      BY <1>1, <3>1, RepoIsListed DEF Listed, TagNamesDir
    <3> QED  BY <1>1, <2>1, <3>1, <3>2 DEF PackageInv
  <2>4. CASE Fetched([pkg EXCEPT !.tag = Repo.dir], "root")
    <3>1. pkg' = [tag |-> Repo.dir, dir |-> "none", wasm |-> "none", conf |-> "none"] /\ stage' = "root"
      BY <2>1, <2>4 DEF Fetched, Goes, NoPkg
    <3> QED  BY <1>1, <2>1, <3>1 DEF PackageInv
  <2>5. CASE Fetched([pkg EXCEPT !.tag = Repo.wasm], "module")
    <3>1. pkg' = [tag |-> Repo.wasm, dir |-> "none", wasm |-> "none", conf |-> "none"] /\ stage' = "module"
      BY <2>1, <2>5 DEF Fetched, Goes, NoPkg
    <3>2. Listed' /\ TagNamesDir'
      BY <3>1 DEF Listed, TagNamesDir
    <3> QED  BY <1>1, <2>1, <3>1, <3>2 DEF PackageInv
  <2> QED  BY <1>4, <2>2, <2>3, <2>4, <2>5 DEF FetchTop
<1>5. CASE FetchRoot /\ ~Refused
  <2>1. stage = "root" /\ order.kind # "local" /\ Repo.dir = pkg.tag
        /\ Fetched([pkg EXCEPT !.dir = Repo.dir], "module")
    BY <1>5 DEF FetchRoot, PackageInv
  <2>2. pkg' = [tag |-> pkg.tag, dir |-> Repo.dir, wasm |-> "none", conf |-> "none"] /\ stage' = "module"
    BY <2>1 DEF Fetched, Goes, PackageInv
  <2>3. Listed' /\ TagNamesDir'
    BY <1>1, <2>1, <2>2, RepoIsListed DEF Listed, TagNamesDir
  <2> QED  BY <1>1, <2>1, <2>2, <2>3 DEF PackageInv
<1>6. CASE GetWasm /\ ~Refused
  <2>1. /\ stage = "module" /\ order.kind # "local" /\ Repo.wasm = Entry /\ Listed /\ TagNamesDir
        /\ Fetched([pkg EXCEPT !.wasm = Repo.wasm], IF pkg.dir = "none" THEN "config" ELSE "conf")
    BY <1>6 DEF GetWasm, PackageInv
  <2>2. pkg' = [tag |-> pkg.tag, dir |-> pkg.dir, wasm |-> Repo.wasm, conf |-> "none"]
    BY <2>1 DEF Fetched, PackageInv
  <2>3. Listing' = Listing /\ Listed' /\ TagNamesDir'
    BY <1>1, <2>1, <2>2 DEF Listing, Listed, TagNamesDir
  <2>4. CASE pkg.dir = "none"
    <3>1. stage' = "config" /\ Repo.wasm = pkg.tag
      BY <2>1, <2>4 DEF Fetched, Goes, Entry
    <3> QED  BY <1>1, <2>1, <2>2, <2>4, <3>1 DEF PackageInv
  <2>5. CASE pkg.dir # "none"
    <3>1. stage' = "conf" /\ Repo.wasm = Listing.wasm
      BY <2>1, <2>5 DEF Fetched, Goes, Entry
    <3> QED  BY <1>1, <2>1, <2>2, <2>3, <2>5, <3>1 DEF PackageInv
  <2> QED  BY <2>4, <2>5
<1>7. CASE GetConf /\ ~Refused
  <2>1. /\ stage = "conf" /\ order.kind # "local" /\ Listed /\ TagNamesDir
        /\ pkg.dir # "none" /\ pkg.wasm = Listing.wasm /\ pkg.conf = "none"
    BY <1>7 DEF GetConf, PackageInv
  <2>2. pkg' = [tag |-> pkg.tag, dir |-> pkg.dir, wasm |-> pkg.wasm, conf |-> Listing.conf] /\ stage' = "config"
    BY <1>7, <2>1 DEF GetConf, Fetched, Goes, PackageInv
  <2>3. Listing' = Listing /\ Listed'
    BY <1>1, <2>1, <2>2 DEF Listing, Listed
  <2>4. pkg.tag # "none" => pkg.tag = pkg.dir
    BY <2>1 DEF TagNamesDir
  <2> QED  BY <1>1, <2>1, <2>2, <2>3, <2>4 DEF PackageInv
<1> QED  BY <1>2, <1>3, <1>4, <1>5, <1>6, <1>7

\* Every other step: it keeps the package, before, during or after the fetching.
LEMMA RestKeepsPackage ==
    ASSUME PackageInv, HandOverInv,
           \/ Pair \/ WriteArgs \/ Shutdown \/ KeepFails \/ KeepStarts \/ Join \/ ReadArgs \/ DecodeArgs
           \/ Request \/ Publish \/ Certify \/ Compile \/ SetEnv \/ OpenFile \/ FilesOpen \/ Finish
           \/ OpenTls \/ TlsOpened
    PROVE  PackageInv'
<1>1. CASE Pair \/ WriteArgs \/ Shutdown \/ Join \/ ReadArgs
  <2>1. UNCHANGED <<order, now, pkg, stage>>
    BY <1>1 DEF Pair, WriteArgs, Shutdown, Join, ReadArgs
  <2> QED  BY <2>1, StaysLoaded DEF Loaded
<1>2. CASE KeepFails
  BY <1>2, StaysLoaded DEF KeepFails, Loaded
<1>3. CASE KeepStarts
  BY <1>3 DEF KeepStarts, PackageInv
<1>4. CASE DecodeArgs
  BY <1>4 DEF DecodeArgs, Goes, InKeep, PackageInv
<1>5. CASE Request
  BY <1>5 DEF Request, Goes, InKeep, PackageInv
<1>6. CASE Publish
  <2>1. Listing' = Listing /\ Listed' = Listed /\ TagNamesDir' = TagNamesDir
    BY <1>6 DEF Publish, Listing, Listed, TagNamesDir
  <2>2. now' \in 1..Len(order.repo)
    BY <1>6 DEF Publish, PackageInv
  <2> QED  BY <1>6, <2>1, <2>2 DEF Publish, PackageInv
<1>7. CASE Certify \/ Compile \/ SetEnv \/ OpenFile \/ FilesOpen \/ Finish \/ OpenTls \/ TlsOpened
  <2>1. UNCHANGED <<order, now, pkg>> /\ stage \in Loaded
    BY <1>7 DEF Certify, Compile, SetEnv, OpenFile, FilesOpen, Finish, OpenTls, TlsOpened, MoreFiles, InKeep, loader, Loaded
  <2>2. stage' \in Loaded \cup {"failed", "gone"}
    BY <1>7, <2>1 DEF Certify, Compile, SetEnv, OpenFile, FilesOpen, Finish, OpenTls, TlsOpened, Goes, loader, Loaded
  <2> QED  BY <2>1, <2>2, StaysLoaded
<1> QED  BY <1>1, <1>2, <1>3, <1>4, <1>5, <1>6, <1>7

-----------------------------------------------------------------------------
(* Together.                                                               *)

LEMMA LoaderStutters ==
    ASSUME LoaderInv, UNCHANGED loader
    PROVE  LoaderInv'
BY DEF LoaderInv, HandOverInv, PackageInv, ReportedTruthfully, Ran, Listed, Listing, TagNamesDir, loader

\* No step of the workload, of the keep or of the host breaks the invariant.
LEMMA LoaderInductive ==
    ASSUME LoaderInv, [WorkloadNext]_workload
    PROVE  LoaderInv'
<1> USE DEF LoaderInv
<1>1. CASE UNCHANGED loader
  BY <1>1, LoaderStutters
<1>2. CASE Pair \/ WriteArgs \/ Shutdown \/ KeepFails \/ KeepStarts \/ Join
  BY <1>2, HostKeepsHandOver, RestKeepsPackage
<1>3. CASE ReadArgs \/ DecodeArgs
  BY <1>3, ArgsKeepHandOver, RestKeepsPackage
<1>4. CASE Request \/ Publish \/ Certify \/ Compile \/ SetEnv \/ OpenFile \/ FilesOpen \/ Finish \/ TlsOpened
           \/ (OpenTls /\ ~UNCHANGED loader)
  BY <1>4, StepsMove, MoveKeepsHandOver, RestKeepsPackage
<1>5. CASE ReadFiles \/ FetchTop \/ FetchRoot \/ GetWasm \/ GetConf
  BY <1>5, StepsMove, MoveKeepsHandOver, FetchKeepsPackage
<1> QED
  BY <1>1, <1>2, <1>3, <1>4, <1>5 DEF WorkloadNext, LoaderStep, workload

LEMMA LoaderAlways == WorkloadSpec => []LoaderInv
<1>1. WorkloadInit => LoaderInv
  BY HandOverInit, PackageInit DEF WorkloadInit, LoaderInv
<1>2. LoaderInv /\ [WorkloadNext]_workload => LoaderInv'
  BY LoaderInductive
<1> QED  BY <1>1, <1>2, PTL DEF WorkloadSpec

(* run_package reports success only for a workload that ended well, an exit *)
(* code only when the arguments had arrived, and a failed hand-over only    *)
(* when the workload never started, whatever the socket pair holds.         *)
THEOREM ReportAlwaysTruthful == WorkloadSpec => []ReportedTruthfully
<1>1. LoaderInv => ReportedTruthfully
  BY DEF LoaderInv
<1> QED  BY <1>1, LoaderAlways, PTL

LEMMA LoaderPackage == LoaderInv => PackageSound
<1> SUFFICES ASSUME LoaderInv, Ran
             PROVE  /\ args = order.pieces
                    /\ order.kind = "local" => pkg.wasm = order.wasm /\ pkg.conf = order.conf
                    /\ pkg.dir # "none" => \E r \in ToSet(order.repo) :
                                  r.dir = pkg.dir /\ r.wasm = pkg.wasm /\ r.conf = pkg.conf
                    /\ pkg.tag # "none" => pkg.tag = IF pkg.dir = "none" THEN pkg.wasm ELSE pkg.dir
  BY DEF PackageSound
<1>1. args = order.pieces
  BY DEF LoaderInv, HandOverInv, Ran
<1>2. pkg.dir # "none" => Listed /\ pkg.wasm = Listing.wasm /\ pkg.conf = Listing.conf
  BY DEF LoaderInv, PackageInv, Ran
<1> QED  BY <1>1, <1>2, ListingFound DEF LoaderInv, PackageInv, Ran

(* The package that runs is the one asked for, whole, though its repository *)
(* moved on between the requests of get_package, however often.             *)
THEOREM PackageAlwaysSound == WorkloadSpec => []PackageSound
BY LoaderPackage, LoaderAlways, PTL

-----------------------------------------------------------------------------
(* Induction over the naturals.                                            *)

\* A non-empty set of naturals has a least element.
LEMMA LeastNumber ==
    ASSUME NEW S, S \subseteq Nat, S # {}
    PROVE  \E n \in S : \A m \in S : n <= m
<1> DEFINE T == {0 .. n - 1 : n \in S}
<1>1. T \subseteq FiniteSubsetsOf(Nat) /\ T # {}
  <2>1. \A n \in S : IsFiniteSet(0 .. n - 1) /\ 0 .. n - 1 \subseteq Nat
    BY FS_Interval
  <2> QED
    BY <2>1 DEF FiniteSubsetsOf
<1>2. PICK x \in T : \A y \in T : ~(<<y, x>> \in StrictSubsetOrdering(Nat))
  BY <1>1, FS_StrictSubsetOrderingWellFounded, WFMin
<1>3. PICK n \in S : x = 0 .. n - 1
  BY <1>2
<1>4. ASSUME NEW m \in S, m < n PROVE FALSE
  <2>1. 0 .. m - 1 \in T
    OBVIOUS
  <2>2. 0 .. m - 1 \subseteq 0 .. n - 1 /\ m \in 0 .. n - 1 /\ m \notin 0 .. m - 1
    BY <1>4
  <2>3. <<0 .. m - 1, 0 .. n - 1>> \in StrictSubsetOrdering(Nat)
    BY <2>2 DEF StrictSubsetOrdering
  <2> QED
    BY <1>2, <1>3, <2>1, <2>3
<1> QED
  BY <1>4

\* Induction over the naturals, for a set rather than for a predicate.
LEMMA InductiveSet ==
    ASSUME NEW T, 0 \in T, \A n \in Nat : n \in T => n + 1 \in T
    PROVE  Nat \subseteq T
<1> SUFFICES ASSUME Nat \ T # {} PROVE FALSE
  OBVIOUS
<1>1. PICK n \in Nat \ T : \A m \in Nat \ T : n <= m
  BY LeastNumber
<1>2. n - 1 \in Nat /\ n - 1 \notin Nat \ T
  BY <1>1
<1>3. (n - 1) + 1 \in T
  BY <1>2
<1> QED
  BY <1>1, <1>3

-----------------------------------------------------------------------------
(* The descriptors and their names.                                        *)

\* Names of one part each make up one part for each.
LEMMA FlattenSingles ==
    ASSUME NEW S, NEW q \in Seq(Seq(S)), \A i \in 1..Len(q) : Len(q[i]) = 1
    PROVE  Len(FlattenSeq(q)) = Len(q)
<1>1. CASE Len(q) = 0
  BY <1>1 DEF FlattenSeq
<1>2. CASE Len(q) # 0
  <2> DEFINE n == Len(q)
             Def(f) == [i \in 1..n |-> IF i = 1 THEN q[i] ELSE f[i - 1] \o q[i]]
             flat == CHOOSE f : f = Def(f)
             w == [i \in 1..n |-> [j \in 1..i |-> q[j][1]]]
  <2>1. n \in Nat /\ 1 \in 1..n
    BY <1>2
  <2>2. \A i \in 1..n : q[i] \in Seq(S) /\ q[i] = <<q[i][1]>> /\ q[i][1] \in S
    <3>1. ASSUME NEW i \in 1..n PROVE q[i] \in Seq(S) /\ q[i] = <<q[i][1]>> /\ q[i][1] \in S
      <4>1. q[i] \in Seq(S) /\ Len(q[i]) = 1
        OBVIOUS
      <4> QED
        BY <4>1
    <3> QED
      BY <3>1
  <2>3. w = Def(w)
    <3>1. ASSUME NEW i \in 1..n PROVE w[i] = IF i = 1 THEN q[i] ELSE w[i - 1] \o q[i]
      <4>0. \A k \in 1..n : [j \in 1..k |-> q[j][1]] \in Seq(S) /\ Len([j \in 1..k |-> q[j][1]]) = k
        <5>1. ASSUME NEW k \in 1..n PROVE [j \in 1..k |-> q[j][1]] \in [1..k -> S]
          BY <2>2
        <5>2. \A k \in 1..n : k \in Nat
          OBVIOUS
        <5> QED
          BY <5>1, <5>2
      <4>1. CASE i = 1
        <5>1. w[1] = [j \in 1..1 |-> q[j][1]]
          BY <2>1
        <5>2. [j \in 1..1 |-> q[j][1]] = <<q[1][1]>>
          OBVIOUS
        <5> QED
          BY <2>1, <2>2, <4>1, <5>1, <5>2
      <4>2. CASE i # 1
        <5> DEFINE a == [j \in 1..(i - 1) |-> q[j][1]]
                   b == [j \in 1..i |-> q[j][1]]
        <5>1. i - 1 \in 1..n /\ w[i - 1] = a /\ w[i] = b
          BY <4>2
        <5>2. a \in Seq(S) /\ Len(a) = i - 1 /\ b \in Seq(S) /\ Len(b) = i
          BY <4>0, <5>1
        <5>3. q[i] \in Seq(S) /\ Len(q[i]) = 1
          BY <2>2
        <5>4. \A j \in 1..(i - 1) : a[j] = q[j][1]
          OBVIOUS
        <5>5. \A j \in 1..i : b[j] = q[j][1]
          OBVIOUS
        <5> HIDE DEF a, b
        <5>6. a \o q[i] \in Seq(S) /\ Len(a \o q[i]) = i
          <6>1. a \o q[i] \in Seq(S) /\ Len(a \o q[i]) = Len(a) + Len(q[i])
            BY <5>2, <5>3, ConcatProperties
          <6> QED
            BY <2>1, <5>2, <5>3, <6>1
        <5>7. ASSUME NEW j \in 1..i PROVE (a \o q[i])[j] = b[j]
          <6>1. CASE j <= i - 1
            <7>1. j \in 1..(i - 1)
              BY <6>1
            <7>2. (a \o q[i])[j] = a[j]
              BY <5>2, <5>3, <6>1, <7>1, ConcatProperties
            <7> QED
              BY <5>4, <5>5, <7>1, <7>2
          <6>2. CASE j > i - 1
            <7>1. j = i
              BY <6>2
            <7>2. (a \o q[i])[i] = q[i][i - (i - 1)]
              BY <5>2, <5>3, ConcatProperties
            <7>3. i - (i - 1) = 1
              OBVIOUS
            <7> QED
              BY <5>5, <7>1, <7>2, <7>3
          <6> QED
            <7>0. i \in Nat /\ j \in Nat
              BY <2>1
            <7>1. j <= i - 1 \/ j > i - 1
              BY <7>0
            <7> QED
              BY <6>1, <6>2, <7>1
        <5>8. a \o q[i] = b
          BY <5>2, <5>6, <5>7, SeqEqual
        <5> QED
          BY <4>2, <5>1, <5>8
      <4> QED
        BY <4>1, <4>2
    <3> QED
      BY <3>1
  <2>4. flat = Def(flat)
    <3> HIDE DEF w
    <3>1. \E f : f = Def(f)
      BY <2>3
    <3> QED
      BY <3>1
  <2>5. FlattenSeq(q) = flat[n]
    BY <1>2 DEF FlattenSeq
  <2> HIDE DEF flat, w
  <2> DEFINE T == {k \in Nat : k + 1 \in 1..n => flat[k + 1] \in Seq(S) /\ Len(flat[k + 1]) = k + 1}
  <2>6. 0 \in T
    BY <2>1, <2>2, <2>4
  <2>7. ASSUME NEW k \in Nat, k \in T PROVE k + 1 \in T
    <3>1. SUFFICES ASSUME (k + 1) + 1 \in 1..n
                   PROVE  flat[(k + 1) + 1] \in Seq(S) /\ Len(flat[(k + 1) + 1]) = (k + 1) + 1
      OBVIOUS
    <3>2. k + 1 \in 1..n /\ flat[k + 1] \in Seq(S) /\ Len(flat[k + 1]) = k + 1
      BY <2>7, <3>1
    <3>3. (k + 1) + 1 # 1 /\ ((k + 1) + 1) - 1 = k + 1
      OBVIOUS
    <3>4. flat[(k + 1) + 1] = flat[k + 1] \o q[(k + 1) + 1]
      BY <2>4, <3>1, <3>3
    <3>5. q[(k + 1) + 1] \in Seq(S) /\ Len(q[(k + 1) + 1]) = 1
      BY <2>2, <3>1
    <3> QED
      <4>1. flat[k + 1] \o q[(k + 1) + 1] \in Seq(S)
            /\ Len(flat[k + 1] \o q[(k + 1) + 1]) = Len(flat[k + 1]) + Len(q[(k + 1) + 1])
        BY <3>2, <3>5, ConcatProperties
      <4> QED
        BY <3>2, <3>4, <3>5, <4>1
  <2>8. Nat \subseteq T
    <3> HIDE DEF T
    <3> QED  BY <2>6, <2>7, InductiveSet
  <2>9. n - 1 \in Nat /\ (n - 1) + 1 = n /\ n \in 1..n
    BY <2>1
  <2>10. Len(flat[n]) = n
    BY <2>8, <2>9
  <2> QED
    BY <2>5, <2>10
<1> QED
  BY <1>1, <1>2

Known == {"none"} \cup DOMAIN Configs

\* The files of every configuration, the default one included.
LEMMA ConfigFiles ==
    ASSUME pkg.conf \in Known
    PROVE  /\ Config.files \in Seq(ToSet(Config.files))
           /\ \A f \in ToSet(Config.files) :
                 IsSeq(f.name) /\ IsSeq(f.host) /\ (f.kind = "connect" => f.host # <<>>)
<1>1. CASE pkg.conf = "none"
  <2> DEFINE a == Std("stdin")
             b == Std("stdout")
             c == Std("stderr")
  <2>1. Config.files = <<a, b, c>>
    BY <1>1 DEF Config, DefaultConfig
  <2>2. ToSet(Config.files) = {a, b, c}
    BY <2>1 DEF ToSet
  <2>3. \A f \in {a, b, c} : f.name = <<>> /\ f.host = <<>> /\ f.kind # "connect"
    BY DEF Std
  <2>4. IsSeq(<<>>)
    BY DEF IsSeq, ToSet
  <2> HIDE DEF a, b, c
  <2>5. <<a, b, c>> \in Seq({a, b, c})
    OBVIOUS
  <2> QED
    BY <2>1, <2>2, <2>3, <2>4, <2>5
<1>2. CASE pkg.conf # "none"
  <2>1. Config = Configs[pkg.conf] /\ pkg.conf \in DOMAIN Configs
    BY <1>2 DEF Config, Known
  <2> QED
    BY <2>1, ConfigsAssumption DEF ConfigsAssumption, IsSeq
<1> QED
  BY <1>1, <1>2

\* A checked configuration has one name for each of its files, unless it is a
\* host's.
LEMMA OneNameEach ==
    ASSUME pkg.conf \in Known, ConfigOk,
           \A i \in DOMAIN Config.files :
              Config.files[i].kind = "connect" /\ Config.files[i].name = <<>> => Len(Config.files[i].host) <= 1
    PROVE  Len(Names(Config.files)) = Len(Config.files)
<1> DEFINE files == Config.files
           n == Len(files)
           q == [i \in DOMAIN files |-> FileName(files[i])]
           S == UNION {ToSet(q[i]) : i \in 1..n}
<1>1. files \in Seq(ToSet(files)) /\ n \in Nat /\ DOMAIN files = 1..n
  BY ConfigFiles
<1>2. ASSUME NEW i \in 1..n PROVE q[i] \in Seq(ToSet(q[i])) /\ Len(q[i]) = 1
  <2> DEFINE f == files[i]
  <2>1. f \in ToSet(files)
    BY <1>1 DEF ToSet
  <2>2. /\ f.name \in Seq(ToSet(f.name)) /\ f.host \in Seq(ToSet(f.host))
        /\ f.kind = "connect" => f.host # <<>>
    BY <2>1, ConfigFiles DEF IsSeq
  <2>3. Len(f.name) <= 1 /\ (f.kind = "connect" /\ f.name = <<>> => Len(f.host) <= 1)
    BY <1>1 DEF ConfigOk, Named
  <2>4. q[i] = FileName(f)
    BY <1>1
  <2> HIDE DEF f, q
  <2>5. CASE f.name # <<>>
    <3>1. q[i] = f.name
      BY <2>4, <2>5 DEF FileName
    <3>2. Len(f.name) # 0 /\ Len(f.name) \in Nat
      BY <2>2, <2>5, EmptySeq, LenProperties
    <3>3. Len(f.name) = 1
      <4>1. \A l \in Nat : l <= 1 /\ l # 0 => l = 1
        OBVIOUS
      <4> QED
        BY <2>3, <3>2, <4>1
    <3> QED
      BY <2>2, <3>1, <3>3
  <2>6. CASE f.name = <<>> /\ f.kind = "connect"
    <3>1. q[i] = f.host
      BY <2>4, <2>6 DEF FileName
    <3>2. Len(f.host) # 0 /\ Len(f.host) \in Nat
      BY <2>2, <2>6, EmptySeq, LenProperties
    <3>3. Len(f.host) = 1
      <4>1. \A l \in Nat : l <= 1 /\ l # 0 => l = 1
        OBVIOUS
      <4> QED
        BY <2>3, <2>6, <3>2, <4>1
    <3> QED
      BY <2>2, <3>1, <3>3
  <2>7. CASE f.name = <<>> /\ f.kind # "connect"
    <3>1. q[i] = <<f.kind>>
      BY <2>4, <2>7 DEF FileName
    <3>2. ToSet(<<f.kind>>) = {f.kind}
      BY DEF ToSet
    <3> QED
      BY <3>1, <3>2
  <2> QED
    BY <2>5, <2>6, <2>7
<1>3. ASSUME NEW i \in 1..n PROVE q[i] \in Seq(S)
  <2>1. q[i] \in Seq(ToSet(q[i])) /\ ToSet(q[i]) \subseteq S
    BY <1>2
  <2> HIDE DEF q, S
  <2> QED
    BY <2>1
<1>4. q \in Seq(Seq(S)) /\ Len(q) = n
  <2>1. q = [i \in 1..n |-> q[i]]
    BY <1>1
  <2> HIDE DEF q, S, n
  <2>2. q \in [1..n -> Seq(S)]
    BY <1>3, <2>1
  <2> QED
    BY <1>1, <2>2
<1> HIDE DEF q, S, n
<1>5. Len(FlattenSeq(q)) = n
  BY <1>2, <1>4, FlattenSingles
<1> QED
  BY <1>5 DEF q, n, Names

LEMMA TableInit == LoaderInit => TableInv
BY DEF LoaderInit, TableInv, NoPkg

\* The stages from which the table is not looked at.
Early == {"off", "args", "configured", "files", "top", "root", "module", "conf", "config", "failed", "gone"}

\* The configuration a step fetches is one that is known.
LEMMA FetchesKnown ==
    ASSUME LoaderInv, TableInv, ReadFiles \/ FetchTop \/ FetchRoot \/ GetWasm \/ GetConf
    PROVE  TableInv'
<1>0. order \in Orders /\ pkg.conf \in Known
      /\ pkg = [tag |-> pkg.tag, dir |-> pkg.dir, wasm |-> pkg.wasm, conf |-> pkg.conf]
  BY DEF LoaderInv, HandOverInv, PackageInv, TableInv, Known
<1>1. order.conf \in Known /\ \A r \in ToSet(order.repo) : r.conf \in Known
  BY <1>0, ConfigsAssumption DEF ConfigsAssumption, Known
<1>2. Repo \in ToSet(order.repo)
  BY RepoIsListed DEF LoaderInv
<1>3. stage' \in Early
  BY DEF ReadFiles, FetchTop, FetchRoot, GetWasm, GetConf, Fetched, Refused, Goes, Early
<1>4. \/ pkg' = pkg
      \/ pkg' = [pkg EXCEPT !.wasm = order.wasm, !.conf = order.conf]
      \/ pkg' = [pkg EXCEPT !.wasm = Repo.wasm]
      \/ pkg' = [pkg EXCEPT !.dir = Repo.dir]
      \/ pkg' = [pkg EXCEPT !.tag = Repo.dir]
      \/ pkg' = [pkg EXCEPT !.tag = Repo.wasm]
      \/ pkg' = [pkg EXCEPT !.conf = Repo.conf]
  BY DEF ReadFiles, FetchTop, FetchRoot, GetWasm, GetConf, Fetched, Refused
<1>5. pkg'.conf \in {pkg.conf, order.conf, Repo.conf}
  BY <1>0, <1>4
<1>6. pkg'.conf \in Known
  BY <1>0, <1>1, <1>2, <1>5
<1> QED
  BY <1>3, <1>6 DEF TableInv, Early, Known

\* Steps that keep the package and the table, up to the check of the configuration.
LEMMA KeepsTable ==
    ASSUME TableInv, UNCHANGED <<pkg, table>>,
           stage' \in Early \/ stage' = stage
               \/ (stage' \in {"attested", "compiled"} /\ ConfigOk)
    PROVE  TableInv'
<1>1. Config' = Config /\ (ConfigOk' <=> ConfigOk)
  BY DEF Config, ConfigOk
<1>2. CASE stage' \in Early
  BY <1>2 DEF TableInv, Early
<1>3. CASE stage' = stage
  BY <1>1, <1>3 DEF TableInv
<1>4. CASE stage' \in {"attested", "compiled"} /\ ConfigOk
  <2>1. pkg'.conf \in Known
    BY DEF TableInv, Known
  <2> QED
    BY <1>1, <1>4, <2>1 DEF TableInv, Early, Known
<1> QED
  BY <1>2, <1>3, <1>4

\* set_env, and the descriptors one by one.
LEMMA OpensNext ==
    ASSUME TableInv, MoreFiles, pkg' = pkg, stage' = stage, Opens(NextFile)
    PROVE  TableInv'
<1> DEFINE files == Config.files
           S == ToSet(files)
           k == Len(table.fds)
<1>1. stage = "files2" /\ k < Len(files)
  BY DEF MoreFiles
<1>2. /\ pkg.conf \in Known /\ ConfigOk
      /\ table = [fds |-> table.fds, count |-> Len(files), names |-> Names(files)]
      /\ table.fds \in Seq(S) /\ \A i \in 1..k : table.fds[i] = files[i]
  BY <1>1 DEF TableInv, Known
<1>3. files \in Seq(S)
  BY <1>2, ConfigFiles
<1>4. Config' = Config /\ (ConfigOk' <=> ConfigOk)
  BY DEF Config, ConfigOk
<1>5. table' = [fds |-> Append(table.fds, files[k + 1]), count |-> Len(files), names |-> Names(files)]
  <2> DEFINE next == Append(table.fds, files[k + 1])
  <2>1. table' = [table EXCEPT !.fds = next]
    BY DEF Opens, NextFile
  <2> HIDE DEF next, files
  <2>2. [table EXCEPT !.fds = next] = [fds |-> next, count |-> Len(files), names |-> Names(files)]
    BY <1>2
  <2> QED
    BY <2>1, <2>2 DEF next
<1>6. table'.fds = Append(table.fds, files[k + 1]) /\ table'.count = Len(files) /\ table'.names = Names(files)
  BY <1>5
<1> HIDE DEF files, S
<1>7. k \in Nat /\ Len(files) \in Nat /\ k + 1 \in 1..Len(files) /\ k + 1 <= Len(files) /\ files[k + 1] \in S
  BY <1>1, <1>2, <1>3, ElementOfSeq, LenProperties
<1>8. /\ table'.fds \in Seq(S) /\ Len(table'.fds) = k + 1
      /\ \A i \in 1..(k + 1) : table'.fds[i] = IF i = k + 1 THEN files[k + 1] ELSE table.fds[i]
  BY <1>2, <1>6, <1>7, AppendProperties
<1>9. ASSUME NEW i \in 1..(k + 1) PROVE table'.fds[i] = files[i]
  <2>1. i = k + 1 \/ i \in 1..k
    BY <1>7
  <2> QED
    BY <1>2, <1>8, <2>1
<1>10. /\ table' = [fds |-> table'.fds, count |-> Len(files), names |-> Names(files)]
       /\ table'.fds \in Seq(S) /\ Len(table'.fds) <= Len(files)
       /\ \A i \in 1..Len(table'.fds) : table'.fds[i] = files[i]
  BY <1>5, <1>6, <1>7, <1>8, <1>9
<1> QED
  BY <1>1, <1>2, <1>4, <1>10 DEF TableInv, files, S, Known

LEMMA SetEnvTable ==
    ASSUME TableInv, SetEnv
    PROVE  TableInv'
<1> USE DEF Goes
<1>1. stage = "compiled" /\ pkg' = pkg
  BY DEF SetEnv
<1>2. CASE stage' = "failed" /\ UNCHANGED table
  BY <1>1, <1>2, KeepsTable DEF Early
<1>3. CASE stage' = "files2" /\ table' = [NoTable EXCEPT !.count = Len(Config.files), !.names = Names(Config.files)]
  <2>1. table' = [fds |-> <<>>, count |-> Len(Config.files), names |-> Names(Config.files)]
    BY <1>3 DEF NoTable
  <2>2. table'.fds = <<>>
    BY <2>1
  <2>3. pkg.conf \in Known /\ ConfigOk
    BY <1>1 DEF TableInv, Known
  <2>4. Config.files \in Seq(ToSet(Config.files)) /\ Len(Config.files) \in Nat
    BY <2>3, ConfigFiles, LenProperties
  <2>5. /\ table' = [fds |-> table'.fds, count |-> Len(Config.files), names |-> Names(Config.files)]
        /\ table'.fds \in Seq(ToSet(Config.files)) /\ Len(table'.fds) <= Len(Config.files)
        /\ \A i \in 1..Len(table'.fds) : table'.fds[i] = Config.files[i]
    <3>1. Len(<<>>) = 0 /\ <<>> \in Seq(ToSet(Config.files)) /\ 1..0 = {}
      OBVIOUS
    <3> QED
      BY <2>1, <2>2, <2>4, <3>1
  <2>6. Config' = Config /\ (ConfigOk' <=> ConfigOk)
    BY <1>1 DEF Config, ConfigOk
  <2> QED
    BY <1>1, <1>3, <2>3, <2>5, <2>6 DEF TableInv, Known
<1> QED
  BY <1>2, <1>3 DEF SetEnv

LEMMA LoaderTable ==
    ASSUME LoaderInv, TableInv,
           \/ Pair \/ WriteArgs \/ Shutdown \/ KeepFails \/ KeepStarts \/ Join \/ ReadArgs \/ DecodeArgs
           \/ Request \/ Publish \/ Certify \/ Compile \/ OpenFile \/ FilesOpen \/ Finish \/ TlsOpened
           \/ OpenTls
    PROVE  TableInv'
<1> USE DEF Goes
<1>1. CASE Pair \/ WriteArgs \/ Shutdown \/ Join \/ ReadArgs \/ Publish
  <2>1. UNCHANGED <<pkg, table, stage>>
    BY <1>1 DEF Pair, WriteArgs, Shutdown, Join, ReadArgs, Publish
  <2> QED
    BY <2>1, KeepsTable
<1>2. CASE KeepFails \/ KeepStarts \/ DecodeArgs \/ Request
  <2>1. UNCHANGED <<pkg, table>> /\ stage' \in Early
    BY <1>2 DEF KeepFails, KeepStarts, DecodeArgs, Request, Early
  <2> QED
    BY <2>1, KeepsTable
<1>3. CASE Certify \/ Compile
  <2>1. UNCHANGED <<pkg, table>> /\ (stage' = "failed" \/ (stage' \in {"attested", "compiled"} /\ ConfigOk))
    BY <1>3 DEF Certify, Compile, TableInv
  <2> QED
    BY <2>1, KeepsTable DEF Early
<1>4. CASE OpenFile
  <2>1. MoreFiles /\ pkg' = pkg
    BY <1>4 DEF OpenFile
  <2>2. (Opens(NextFile) /\ stage' = stage) \/ (stage' = "failed" /\ table' = table)
    BY <1>4 DEF OpenFile
  <2> QED
    BY <2>1, <2>2, OpensNext, KeepsTable DEF Early
<1>5. CASE TlsOpened
  <2>1. MoreFiles /\ pkg' = pkg
    BY <1>5 DEF TlsOpened
  <2>2. (Opens(NextFile) /\ stage' = stage) \/ (stage' = "failed" /\ table' = table)
    BY <1>5 DEF TlsOpened
  <2> QED
    BY <2>1, <2>2, OpensNext, KeepsTable DEF Early
<1>6. CASE OpenTls
  <2>1. UNCHANGED <<pkg, table>> /\ (stage' = stage \/ stage' = "failed")
    BY <1>6 DEF OpenTls, loader
  <2> QED
    BY <2>1, KeepsTable DEF Early
<1>7. CASE FilesOpen
  <2>1. stage = "files2" /\ Len(table.fds) = Len(Config.files) /\ stage' = "connected" /\ UNCHANGED <<pkg, table>>
    BY <1>7 DEF FilesOpen
  <2>2. Config' = Config /\ (ConfigOk' <=> ConfigOk)
    BY <2>1 DEF Config, ConfigOk
  <2> QED
    BY <2>1, <2>2 DEF TableInv
<1>8. CASE Finish
  <2>1. stage = "connected" /\ stage' \in {"completed", "failed"} /\ UNCHANGED <<pkg, table>>
    BY <1>8 DEF Finish
  <2>2. Config' = Config /\ (ConfigOk' <=> ConfigOk)
    BY <2>1 DEF Config, ConfigOk
  <2> QED
    BY <2>1, <2>2 DEF TableInv
<1> QED
  BY <1>1, <1>2, <1>3, <1>4, <1>5, <1>6, <1>7, <1>8

LEMMA TableAlways == WorkloadSpec => []TableInv
<1>1. WorkloadInit => TableInv
  BY TableInit DEF WorkloadInit
<1>2. LoaderInv /\ TableInv /\ [WorkloadNext]_workload => TableInv'
  <2> SUFFICES ASSUME LoaderInv, TableInv, [WorkloadNext]_workload PROVE TableInv'
    OBVIOUS
  <2>1. CASE UNCHANGED loader
    <3>1. UNCHANGED <<pkg, table, stage>>
      BY <2>1 DEF loader
    <3> QED
      BY <3>1, KeepsTable
  <2> QED
    BY <2>1, FetchesKnown, SetEnvTable, LoaderTable DEF WorkloadNext, LoaderStep, workload
<1> QED  BY <1>1, <1>2, LoaderAlways, PTL DEF WorkloadSpec

(* The workload that runs is the one asked for: its package (PackageSound), *)
(* the configured files as its descriptors, in their order, and FD_NAMES    *)
(* with a name for each of them, for every configuration (Loader<Compiled>, *)
(* File::name).                                                             *)
THEOREM AlwaysRunsWhatWasAsked == WorkloadSpec => []RunsWhatWasAsked
<1>1. TableInv => TableSound
  <2> SUFFICES ASSUME TableInv, Ran
               PROVE  /\ table.fds = Config.files
                      /\ \/ table.count = Len(table.names)
                         \/ \E i \in DOMAIN Config.files :
                               /\ Config.files[i].kind = "connect" /\ Config.files[i].name = <<>>
                               /\ Len(Config.files[i].host) > 1
    BY DEF TableSound
  <2>1. /\ pkg.conf \in Known /\ ConfigOk
        /\ table = [fds |-> table.fds, count |-> Len(Config.files), names |-> Names(Config.files)]
        /\ table.fds \in Seq(ToSet(Config.files)) /\ Len(table.fds) = Len(Config.files)
        /\ \A i \in 1..Len(table.fds) : table.fds[i] = Config.files[i]
    BY DEF TableInv, Ran, Known
  <2>2. table.count = Len(Config.files) /\ table.names = Names(Config.files)
    BY <2>1
  <2>3. Config.files \in Seq(ToSet(Config.files))
    BY <2>1, ConfigFiles
  <2>4. table.fds = Config.files
    BY <2>1, <2>3, SeqEqual
  <2>5. ASSUME ~\E i \in DOMAIN Config.files :
                   /\ Config.files[i].kind = "connect" /\ Config.files[i].name = <<>>
                   /\ Len(Config.files[i].host) > 1
        PROVE  table.count = Len(table.names)
    <3>1. ASSUME NEW i \in DOMAIN Config.files, Config.files[i].kind = "connect", Config.files[i].name = <<>>
          PROVE  Len(Config.files[i].host) <= 1
      <4>1. Config.files[i] \in ToSet(Config.files)
        BY DEF ToSet
      <4>2. Config.files[i].host \in Seq(ToSet(Config.files[i].host))
        BY <2>1, <4>1, ConfigFiles DEF IsSeq
      <4>3. Len(Config.files[i].host) \in Nat /\ ~(Len(Config.files[i].host) > 1)
        BY <2>5, <3>1, <4>2, LenProperties
      <4> QED
        BY <4>3
    <3> QED
      BY <2>1, <2>2, <3>1, OneNameEach
  <2> QED
    BY <2>4, <2>5
<1>2. LoaderInv /\ TableInv => RunsWhatWasAsked
  BY <1>1, LoaderPackage DEF RunsWhatWasAsked
<1> QED  BY <1>2, LoaderAlways, TableAlways, PTL

-----------------------------------------------------------------------------
(* TLS streams *)

\* A function defined by its first value and a step from each to the next.
Iterations(S, F, s0, a, n) ==
    {g \in [a .. a + n -> S] : g[a] = s0 /\ \A i \in a + 1 .. a + n : g[i] = F[i][g[i - 1]]}

LEMMA Iteration ==
    ASSUME NEW S, NEW F \in [Nat -> [S -> S]], NEW s0 \in S, NEW a \in Nat
    PROVE  \A n \in Nat : Iterations(S, F, s0, a, n) # {}
<1> DEFINE Upto(n, g) == g[a] = s0 /\ \A i \in a + 1 .. a + n : g[i] = F[i][g[i - 1]]
           T == {n \in Nat : \E g \in [a .. a + n -> S] : Upto(n, g)}
<1>1. 0 \in T
  <2> DEFINE g == [i \in a .. a + 0 |-> s0]
  <2>1. g \in [a .. a + 0 -> S] /\ g[a] = s0
    OBVIOUS
  <2>2. a + 1 .. a + 0 = {}
    OBVIOUS
  <2>3. Upto(0, g)
    BY <2>1, <2>2
  <2> QED
    BY <2>1, <2>3
<1>2. ASSUME NEW n \in Nat, n \in T PROVE n + 1 \in T
  <2>1. PICK g \in [a .. a + n -> S] : Upto(n, g)
    BY <1>2
  <2> DEFINE next == F[a + n + 1][g[a + n]]
             h == [i \in a .. a + (n + 1) |-> IF i = a + n + 1 THEN next ELSE g[i]]
  <2>2. next \in S
    <3>1. g[a + n] \in S /\ a + n + 1 \in Nat
      OBVIOUS
    <3>2. F[a + n + 1] \in [S -> S]
      BY <3>1
    <3> QED
      BY <3>1, <3>2
  <2> HIDE DEF next
  <2>3. h \in [a .. a + (n + 1) -> S]
    <3>1. ASSUME NEW i \in a .. a + (n + 1), i # a + n + 1 PROVE g[i] \in S
      <4>1. i \in a .. a + n
        BY <3>1
      <4> QED BY <4>1
    <3> QED
      BY <2>2, <3>1
  <2>4. h[a] = s0
    BY <2>1
  <2>5. ASSUME NEW i \in a + 1 .. a + (n + 1) PROVE h[i] = F[i][h[i - 1]]
    <3>1. CASE i = a + n + 1
      <4>1. h[i] = next /\ h[i - 1] = g[a + n]
        BY <3>1
      <4> QED
        BY <3>1, <4>1 DEF next
    <3>2. CASE i # a + n + 1
      <4>1. i \in a + 1 .. a + n /\ i - 1 \in a .. a + n /\ i \in a .. a + (n + 1) /\ i - 1 \in a .. a + (n + 1)
        BY <3>2
      <4>2. h[i] = g[i] /\ h[i - 1] = g[i - 1]
        BY <3>2, <4>1
      <4> QED
        BY <2>1, <4>1, <4>2
    <3> QED
      BY <3>1, <3>2
  <2> HIDE DEF h
  <2>6. Upto(n + 1, h)
    BY <2>4, <2>5
  <2> QED
    BY <2>3, <2>6
<1>3. Nat \subseteq T
  <2> HIDE DEF T
  <2> QED BY <1>1, <1>2, InductiveSet
<1> QED
  BY <1>3 DEF Iterations

\* Such a function stays where its steps stay.
LEMMA IterationStays ==
    ASSUME NEW S, NEW a \in Nat, NEW n \in Nat, NEW f, f[a] \in S,
           \A i \in a + 1 .. a + n : f[i - 1] \in S => f[i] \in S
    PROVE  \A i \in a .. a + n : f[i] \in S
<1> DEFINE T == {m \in Nat : m <= n => f[a + m] \in S}
<1>1. 0 \in T
  OBVIOUS
<1>2. ASSUME NEW m \in Nat, m \in T PROVE m + 1 \in T
  <2>1. CASE m + 1 <= n
    <3>1. a + m + 1 \in a + 1 .. a + n /\ (a + m + 1) - 1 = a + m /\ m <= n
      BY <2>1
    <3>2. f[a + m] \in S
      BY <1>2, <3>1
    <3>3. f[a + m + 1] \in S
      BY <3>1, <3>2
    <3>4. a + (m + 1) = a + m + 1
      OBVIOUS
    <3> QED BY <3>3, <3>4
  <2> QED BY <2>1
<1>3. Nat \subseteq T
  <2> HIDE DEF T
  <2> QED BY <1>1, <1>2, InductiveSet
<1> QED
  <2> SUFFICES ASSUME NEW i \in a .. a + n PROVE f[i] \in S
    OBVIOUS
  <2>1. i - a \in Nat /\ i - a <= n /\ a + (i - a) = i
    OBVIOUS
  <2> QED
    BY <1>3, <2>1

\* Induction over sequences.
LEMMA InductiveSeq ==
    ASSUME NEW S, NEW T, <<>> \in T, \A s \in Seq(S) : \A e \in S : s \in T => Append(s, e) \in T
    PROVE  Seq(S) \subseteq T
<1> DEFINE N == {n \in Nat : \A s \in Seq(S) : Len(s) = n => s \in T}
<1>1. 0 \in N
  <2>1. ASSUME NEW s \in Seq(S), Len(s) = 0 PROVE s \in T
    BY <2>1, EmptySeq
  <2> QED
    BY <2>1
<1>2. ASSUME NEW n \in Nat, n \in N PROVE n + 1 \in N
  <2>1. ASSUME NEW s \in Seq(S), Len(s) = n + 1 PROVE s \in T
    <3>1. s # <<>>
      BY <2>1
    <3>2. PICK t \in Seq(S), e \in S : s = Append(t, e)
      BY <3>1, SequenceEmptyOrAppend
    <3>3. Len(t) \in Nat /\ Len(s) = Len(t) + 1
      BY <3>2, AppendProperties, LenProperties
    <3>4. Len(t) = n
      BY <2>1, <3>3
    <3> QED
      BY <1>2, <3>2, <3>4
  <2> QED
    BY <2>1
<1>3. Nat \subseteq N
  <2> HIDE DEF N
  <2> QED  BY <1>1, <1>2, InductiveSet
<1> QED
  BY <1>3, LenProperties

\* One more at the end of two sequences is one more at the end of the second.
LEMMA AppendToNumbers ==
    ASSUME NEW s \in Seq(Nat), NEW t \in Seq(Nat), NEW e \in Nat
    PROVE  Append(s \o t, e) = s \o Append(t, e)
<1> DEFINE u == s \o t
<1>1. u \in Seq(Nat) /\ <<e>> \in Seq(Nat)
  BY ConcatProperties
<1>2. u \o <<e>> = s \o (t \o <<e>>)
  BY <1>1, ConcatAssociative
<1>3. Append(t, e) = t \o <<e>>
  BY AppendIsConcat
<1> HIDE DEF u
<1>4. Append(u, e) = u \o <<e>>
  BY <1>1, AppendIsConcat
<1> QED
  BY <1>2, <1>3, <1>4 DEF u

LEMMA AppendToRecords ==
    ASSUME NEW s \in Seq(Records), NEW t \in Seq(Records), NEW e \in Records
    PROVE  Append(s \o t, e) = s \o Append(t, e)
<1> DEFINE u == s \o t
<1>1. u \in Seq(Records) /\ <<e>> \in Seq(Records)
  BY ConcatProperties
<1>2. u \o <<e>> = s \o (t \o <<e>>)
  BY <1>1, ConcatAssociative
<1>3. Append(t, e) = t \o <<e>>
  BY AppendIsConcat
<1> HIDE DEF u
<1>4. Append(u, e) = u \o <<e>>
  BY <1>1, AppendIsConcat
<1> QED
  BY <1>2, <1>3, <1>4 DEF u

\* What Units computes, record by record.
Collects(u, s) ==
    /\ u[0] = <<>>
    /\ \A i \in 1..Len(s) : u[i] = IF s[i].kind = "data" THEN Append(u[i - 1], s[i].unit) ELSE u[i - 1]

LEMMA UnitsUnfold ==
    ASSUME NEW s \in Seq(Records)
    PROVE  \E u \in [0..Len(s) -> Seq(Nat)] : Collects(u, s) /\ Units(s) = u[Len(s)]
<1> DEFINE n == Len(s)
           Step(u, i) == IF s[i].kind = "data" THEN Append(u, s[i].unit) ELSE u
           Def(f) == [i \in 0..n |-> IF i = 0 THEN <<>>
                                     ELSE IF s[i].kind = "data" THEN Append(f[i - 1], s[i].unit) ELSE f[i - 1]]
           units == CHOOSE f : f = Def(f)
<1>1. n \in Nat
  BY LenProperties
<1>2. ASSUME NEW i \in 1..n, NEW u \in Seq(Nat) PROVE Step(u, i) \in Seq(Nat)
  <2>1. s[i] \in Records
    BY ElementOfSeq
  <2>2. s[i].unit \in Nat
    BY <2>1 DEF Records
  <2> QED
    BY <2>2, AppendProperties
<1>3. Units(s) = units[n]
  BY DEF Units
<1> HIDE DEF n
<1>4. \E f : f = Def(f)
  <2> DEFINE F == [i \in Nat |-> [u \in Seq(Nat) |-> IF i \in 1..n THEN Step(u, i) ELSE u]]
  <2>1. F \in [Nat -> [Seq(Nat) -> Seq(Nat)]]
    <3> HIDE DEF Step
    <3> QED  BY <1>2
  <2>2. PICK g \in [0..0 + n -> Seq(Nat)] :
            g[0] = <<>> /\ \A i \in 0 + 1..0 + n : g[i] = F[i][g[i - 1]]
    <3> HIDE DEF F
    <3>1. Iterations(Seq(Nat), F, <<>>, 0, n) # {}
      BY <1>1, <2>1, EmptySeq, Iteration
    <3> QED
      BY <3>1 DEF Iterations
  <2>3. ASSUME NEW i \in 0..n PROVE g[i] = IF i = 0 THEN <<>> ELSE Step(g[i - 1], i)
    <3> HIDE DEF Step
    <3>1. CASE i # 0
      <4>1. i \in 1..n /\ i \in Nat /\ i - 1 \in 0..0 + n /\ i \in 0 + 1..0 + n
        BY <1>1, <3>1
      <4>2. g[i - 1] \in Seq(Nat)
        BY <4>1
      <4>3. F[i][g[i - 1]] = Step(g[i - 1], i)
        BY <4>1, <4>2
      <4> QED
        BY <2>2, <3>1, <4>1, <4>3
    <3> QED
      BY <2>2, <3>1
  <2>4. g = [i \in 0..n |-> g[i]]
    BY <1>1
  <2>5. g = Def(g)
    BY <2>3, <2>4
  <2> QED
    BY <2>5
<1>5. units = Def(units)
  <2> HIDE DEF Def
  <2>1. PICK f : f = Def(f)
    BY <1>4
  <2>2. (CHOOSE g : g = Def(g)) = Def(CHOOSE g : g = Def(g))
    BY <2>1
  <2> QED
    BY <2>2
<1> HIDE DEF units
<1>6. units[0] = <<>> /\ \A i \in 1..n : units[i] = Step(units[i - 1], i)
  <2>1. 0 \in 0..n /\ \A i \in 1..n : i \in 0..n /\ i # 0
    BY <1>1
  <2> QED
    BY <1>5, <2>1
<1>7. \A i \in 0..0 + n : units[i] \in Seq(Nat)
  <2> HIDE DEF Step
  <2>1. ASSUME NEW i \in 0 + 1..0 + n, units[i - 1] \in Seq(Nat) PROVE units[i] \in Seq(Nat)
    <3>1. i \in 1..n
      BY <1>1
    <3> QED
      BY <1>2, <1>6, <2>1, <3>1
  <2>2. units[0] \in Seq(Nat)
    BY <1>6, EmptySeq
  <2> QED
    BY <1>1, <2>1, <2>2, IterationStays
<1>8. units \in [0..n -> Seq(Nat)]
  <2>1. units = [i \in 0..n |-> units[i]]
    BY <1>5
  <2> QED
    BY <1>1, <1>7, <2>1
<1> QED
  BY <1>3, <1>6, <1>8 DEF Collects, n

\* No record, and one more.
LEMMA UnitsOf ==
    /\ Units(<<>>) = <<>>
    /\ \A s \in Seq(Records) : Units(s) \in Seq(Nat)
    /\ \A s \in Seq(Records) : \A r \in Records :
          Units(Append(s, r)) = IF r.kind = "data" THEN Append(Units(s), r.unit) ELSE Units(s)
<1>1. Units(<<>>) = <<>>
  <2>1. <<>> \in Seq(Records) /\ Len(<<>>) = 0
    OBVIOUS
  <2> QED
    BY <2>1, UnitsUnfold DEF Collects
<1>2. \A s \in Seq(Records) : Units(s) \in Seq(Nat)
  <2> SUFFICES ASSUME NEW s \in Seq(Records) PROVE Units(s) \in Seq(Nat)
    OBVIOUS
  <2>1. PICK u \in [0..Len(s) -> Seq(Nat)] : Units(s) = u[Len(s)]
    BY UnitsUnfold
  <2> QED
    BY <2>1, LenProperties
<1>3. ASSUME NEW s \in Seq(Records), NEW r \in Records
      PROVE  Units(Append(s, r)) = IF r.kind = "data" THEN Append(Units(s), r.unit) ELSE Units(s)
  <2> DEFINE n == Len(s)
             t == Append(s, r)
  <2>1. n \in Nat /\ t \in Seq(Records) /\ Len(t) = n + 1 /\ (\A i \in 1..n : t[i] = s[i]) /\ t[n + 1] = r
    BY LenProperties, AppendProperties
  <2>2. PICK u \in [0..n -> Seq(Nat)] : Collects(u, s) /\ Units(s) = u[n]
    BY UnitsUnfold
  <2> HIDE DEF t, n
  <2>3. PICK v \in [0..Len(t) -> Seq(Nat)] : Collects(v, t) /\ Units(t) = v[Len(t)]
    BY <2>1, UnitsUnfold
  <2> DEFINE I == {i \in Nat : i <= n => v[i] = u[i]}
  <2>4. Nat \subseteq I
    <3>1. 0 \in I
      BY <2>2, <2>3 DEF Collects
    <3>2. ASSUME NEW k \in Nat, k \in I PROVE k + 1 \in I
      <4> SUFFICES ASSUME k + 1 <= n PROVE v[k + 1] = u[k + 1]
        BY DEF I
      <4> DEFINE i == k + 1
      <4>1. i \in 1..n /\ i - 1 = k /\ k <= n /\ i \in 1..Len(t)
        BY <2>1
      <4>2. v[i - 1] = u[i - 1] /\ t[i] = s[i]
        BY <2>1, <3>2, <4>1
      <4>3. v[i] = IF t[i].kind = "data" THEN Append(v[i - 1], t[i].unit) ELSE v[i - 1]
        BY <2>3, <4>1 DEF Collects
      <4>4. u[i] = IF s[i].kind = "data" THEN Append(u[i - 1], s[i].unit) ELSE u[i - 1]
        BY <2>2, <4>1 DEF Collects, n
      <4> QED
        BY <4>1, <4>2, <4>3, <4>4
    <3> HIDE DEF I
    <3> QED
      BY <3>1, <3>2, InductiveSet
  <2>5. v[n] = u[n]
    BY <2>1, <2>4
  <2>6. n + 1 \in 1..Len(t) /\ (n + 1) - 1 = n
    BY <2>1
  <2>7. v[n + 1] = IF r.kind = "data" THEN Append(v[n], r.unit) ELSE v[n]
    BY <2>1, <2>3, <2>6 DEF Collects
  <2> QED
    BY <2>1, <2>2, <2>3, <2>5, <2>7 DEF t
<1> QED
  BY <1>1, <1>2, <1>3

\* The units of two runs of records, one after the other.
LEMMA UnitsConcat ==
    ASSUME NEW s \in Seq(Records), NEW t \in Seq(Records)
    PROVE  Units(s \o t) = Units(s) \o Units(t)
<1> DEFINE T == {x \in Seq(Records) : Units(s \o x) = Units(s) \o Units(x)}
<1>0. Units(s) \in Seq(Nat)
  BY UnitsOf
<1>1. <<>> \in T
  <2>1. s \o <<>> = s /\ Units(s) \o <<>> = Units(s) /\ Units(<<>>) = <<>> /\ <<>> \in Seq(Records)
    BY <1>0, ConcatEmptySeq, UnitsOf, EmptySeq
  <2> QED
    BY <2>1
<1>2. ASSUME NEW x \in Seq(Records), NEW r \in Records, x \in T PROVE Append(x, r) \in T
  <2>0. s \o x \in Seq(Records) /\ Units(x) \in Seq(Nat) /\ r.unit \in Nat /\ Append(x, r) \in Seq(Records)
    BY ConcatProperties, AppendProperties, UnitsOf DEF Records
  <2>1. s \o Append(x, r) = Append(s \o x, r)
    BY AppendToRecords
  <2>2. CASE r.kind = "data"
    <3>1. Units(s \o Append(x, r)) = Append(Units(s) \o Units(x), r.unit)
      BY <1>2, <2>0, <2>1, <2>2, UnitsOf
    <3>2. Units(Append(x, r)) = Append(Units(x), r.unit)
      BY <2>2, UnitsOf
    <3>3. Append(Units(s) \o Units(x), r.unit) = Units(s) \o Append(Units(x), r.unit)
      BY <1>0, <2>0, AppendToNumbers
    <3> QED
      BY <2>0, <3>1, <3>2, <3>3
  <2>3. CASE r.kind # "data"
    <3>1. Units(s \o Append(x, r)) = Units(s) \o Units(x) /\ Units(Append(x, r)) = Units(x)
      BY <1>2, <2>0, <2>1, <2>3, UnitsOf
    <3> QED
      BY <2>0, <3>1
  <2> QED
    BY <2>2, <2>3
<1>3. Seq(Records) \subseteq T
  <2> HIDE DEF T
  <2> QED  BY <1>1, <1>2, InductiveSeq
<1> QED
  BY <1>3

\* What one record does to a connection.
LEMMA ProcessedOne ==
    ASSUME NEW c \in Conns, NEW r \in Records
    PROVE  /\ Processed(c, r) \in Conns
           /\ Processed(c, r).side = c.side /\ Processed(c, r).eof = c.eof
           /\ Processed(c, r).plain = IF r.kind = "data" THEN Append(c.plain, r.unit) ELSE c.plain
           /\ Processed(c, r).notify = IF r.kind = "notify" THEN TRUE ELSE c.notify
           /\ Units(Processed(c, r).out) = Units(c.out)
<1>0. r.unit \in Nat /\ r.kind \in {"hello", "flight", "fin", "ticket", "data", "notify", "bad"}
  BY DEF Records
<1>1. /\ c.side \in {"none", "client", "server"} /\ c.traffic \in BOOLEAN /\ c.out \in Seq(Records)
      /\ c.plain \in Seq(Nat) /\ c.notify \in BOOLEAN /\ c.eof \in BOOLEAN
  BY DEF Conns
<1>2. c = [side |-> c.side, traffic |-> c.traffic, out |-> c.out, plain |-> c.plain,
           notify |-> c.notify, eof |-> c.eof]
  BY DEF Conns
<1>3. ASSUME NEW k \in {"flight", "fin", "ticket"}
      PROVE  Append(c.out, Record(k)) \in Seq(Records) /\ Units(Append(c.out, Record(k))) = Units(c.out)
  <2>1. Record(k) \in Records /\ Record(k).kind # "data"
    BY DEF Record, Records
  <2> QED
    BY <1>1, <2>1, AppendProperties, UnitsOf
<1>4. Append(c.plain, r.unit) \in Seq(Nat)
  BY <1>0, <1>1, AppendProperties
<1> DEFINE d == Processed(c, r)
<1>5. CASE r.kind = "data"
  <2>1. d = [side |-> c.side, traffic |-> c.traffic, out |-> c.out, plain |-> Append(c.plain, r.unit),
             notify |-> c.notify, eof |-> c.eof]
    BY <1>2, <1>5 DEF Processed
  <2> HIDE DEF d
  <2> QED
    BY <1>1, <1>4, <1>5, <2>1 DEF Conns, d
<1>6. CASE r.kind = "hello"
  <2>1. d = [side |-> c.side, traffic |-> c.traffic, out |-> Append(c.out, Record("flight")), plain |-> c.plain,
             notify |-> c.notify, eof |-> c.eof]
    BY <1>2, <1>6 DEF Processed
  <2> HIDE DEF d
  <2> QED
    BY <1>1, <1>3, <1>6, <2>1 DEF Conns, d
<1>7. CASE r.kind = "fin"
  <2>1. d = [side |-> c.side, traffic |-> TRUE, out |-> Append(c.out, Record("ticket")), plain |-> c.plain,
             notify |-> c.notify, eof |-> c.eof]
    BY <1>2, <1>7 DEF Processed
  <2> HIDE DEF d
  <2> QED
    BY <1>1, <1>3, <1>7, <2>1 DEF Conns, d
<1>8. CASE r.kind = "flight"
  <2>1. d = [side |-> c.side, traffic |-> TRUE, out |-> Append(c.out, Record("fin")), plain |-> c.plain,
             notify |-> c.notify, eof |-> c.eof]
    BY <1>2, <1>8 DEF Processed
  <2> HIDE DEF d
  <2> QED
    BY <1>1, <1>3, <1>8, <2>1 DEF Conns, d
<1>9. CASE r.kind = "notify"
  <2>1. d = [side |-> c.side, traffic |-> c.traffic, out |-> c.out, plain |-> c.plain,
             notify |-> TRUE, eof |-> c.eof]
    BY <1>2, <1>9 DEF Processed
  <2> HIDE DEF d
  <2> QED
    BY <1>1, <1>9, <2>1 DEF Conns, d
<1>10. CASE r.kind \in {"ticket", "bad"}
  <2>1. Processed(c, r) = c
    BY <1>10 DEF Processed
  <2> QED
    BY <1>10, <2>1
<1> QED
  BY <1>0, <1>5, <1>6, <1>7, <1>8, <1>9, <1>10

\* What ProcessedAll computes, record by record.
Processes(a, c, s) ==
    /\ a[0] = c
    /\ \A i \in 1..Len(s) : a[i] = Processed(a[i - 1], s[i])

LEMMA ProcessedUnfold ==
    ASSUME NEW c \in Conns, NEW s \in Seq(Records)
    PROVE  \E a \in [0..Len(s) -> Conns] : Processes(a, c, s) /\ ProcessedAll(c, s) = a[Len(s)]
<1> DEFINE n == Len(s)
           Def(f) == [i \in 0..n |-> IF i = 0 THEN c ELSE Processed(f[i - 1], s[i])]
           after == CHOOSE f : f = Def(f)
<1>1. n \in Nat
  BY LenProperties
<1>2. ASSUME NEW i \in 1..n, NEW d \in Conns PROVE Processed(d, s[i]) \in Conns
  BY ElementOfSeq, ProcessedOne
<1>3. ProcessedAll(c, s) = after[n]
  BY DEF ProcessedAll
<1> HIDE DEF n
<1>4. \E f : f = Def(f)
  <2> DEFINE F == [i \in Nat |-> [d \in Conns |-> IF i \in 1..n THEN Processed(d, s[i]) ELSE d]]
  <2>1. F \in [Nat -> [Conns -> Conns]]
    BY <1>2
  <2>2. PICK g \in [0..0 + n -> Conns] :
            g[0] = c /\ \A i \in 0 + 1..0 + n : g[i] = F[i][g[i - 1]]
    <3> HIDE DEF F
    <3>1. Iterations(Conns, F, c, 0, n) # {}
      BY <1>1, <2>1, Iteration
    <3> QED
      BY <3>1 DEF Iterations
  <2>3. ASSUME NEW i \in 0..n PROVE g[i] = IF i = 0 THEN c ELSE Processed(g[i - 1], s[i])
    <3>1. CASE i # 0
      <4>1. i \in 1..n /\ i \in Nat /\ i - 1 \in 0..0 + n /\ i \in 0 + 1..0 + n
        BY <1>1, <3>1
      <4>2. g[i - 1] \in Conns
        BY <4>1
      <4>3. F[i][g[i - 1]] = Processed(g[i - 1], s[i])
        BY <4>1, <4>2
      <4> QED
        BY <2>2, <3>1, <4>1, <4>3
    <3> QED
      BY <2>2, <3>1
  <2>4. g = [i \in 0..n |-> g[i]]
    BY <1>1
  <2>5. g = Def(g)
    BY <2>3, <2>4
  <2> QED
    BY <2>5
<1>5. after = Def(after)
  <2> HIDE DEF Def
  <2>1. PICK f : f = Def(f)
    BY <1>4
  <2>2. (CHOOSE g : g = Def(g)) = Def(CHOOSE g : g = Def(g))
    BY <2>1
  <2> QED
    BY <2>2
<1> HIDE DEF after
<1>6. after[0] = c /\ \A i \in 1..n : after[i] = Processed(after[i - 1], s[i])
  <2>1. 0 \in 0..n /\ \A i \in 1..n : i \in 0..n /\ i # 0
    BY <1>1
  <2> QED
    BY <1>5, <2>1
<1>7. \A i \in 0..0 + n : after[i] \in Conns
  <2>1. ASSUME NEW i \in 0 + 1..0 + n, after[i - 1] \in Conns PROVE after[i] \in Conns
    <3>1. i \in 1..n
      BY <1>1
    <3> QED
      BY <1>2, <1>6, <2>1, <3>1
  <2> QED
    BY <1>1, <1>6, <2>1, IterationStays
<1>8. after \in [0..n -> Conns]
  <2>1. after = [i \in 0..n |-> after[i]]
    BY <1>5
  <2> QED
    BY <1>1, <1>7, <2>1
<1> QED
  BY <1>3, <1>6, <1>8 DEF Processes, n

LEMMA ProcessedOf ==
    ASSUME NEW c \in Conns
    PROVE  /\ ProcessedAll(c, <<>>) = c
           /\ \A s \in Seq(Records) : \A r \in Records :
                 ProcessedAll(c, Append(s, r)) = Processed(ProcessedAll(c, s), r)
<1>1. ProcessedAll(c, <<>>) = c
  <2>1. <<>> \in Seq(Records) /\ Len(<<>>) = 0
    OBVIOUS
  <2> QED
    <3>1. PICK a \in [0..Len(<<>>) -> Conns] : Processes(a, c, <<>>) /\ ProcessedAll(c, <<>>) = a[Len(<<>>)]
      BY <2>1, ProcessedUnfold
    <3>2. ProcessedAll(c, <<>>) = a[0]
      BY <2>1, <3>1
    <3> QED
      BY <3>1, <3>2 DEF Processes
<1>3. ASSUME NEW s \in Seq(Records), NEW r \in Records
      PROVE  ProcessedAll(c, Append(s, r)) = Processed(ProcessedAll(c, s), r)
  <2> DEFINE n == Len(s)
             t == Append(s, r)
  <2>1. n \in Nat /\ t \in Seq(Records) /\ Len(t) = n + 1 /\ (\A i \in 1..n : t[i] = s[i]) /\ t[n + 1] = r
    BY LenProperties, AppendProperties
  <2>2. PICK u \in [0..n -> Conns] : Processes(u, c, s) /\ ProcessedAll(c, s) = u[n]
    BY ProcessedUnfold
  <2> HIDE DEF t, n
  <2>3. PICK v \in [0..Len(t) -> Conns] : Processes(v, c, t) /\ ProcessedAll(c, t) = v[Len(t)]
    BY <2>1, ProcessedUnfold
  <2> DEFINE I == {i \in Nat : i <= n => v[i] = u[i]}
  <2>4. Nat \subseteq I
    <3>1. 0 \in I
      BY <2>2, <2>3 DEF Processes
    <3>2. ASSUME NEW k \in Nat, k \in I PROVE k + 1 \in I
      <4> SUFFICES ASSUME k + 1 <= n PROVE v[k + 1] = u[k + 1]
        BY DEF I
      <4> DEFINE i == k + 1
      <4>1. i \in 1..n /\ i - 1 = k /\ k <= n /\ i \in 1..Len(t)
        BY <2>1
      <4>2. v[i - 1] = u[i - 1] /\ t[i] = s[i]
        BY <2>1, <3>2, <4>1
      <4>3. v[i] = Processed(v[i - 1], t[i])
        BY <2>3, <4>1 DEF Processes
      <4>4. u[i] = Processed(u[i - 1], s[i])
        BY <2>2, <4>1 DEF Processes, n
      <4> QED
        BY <4>2, <4>3, <4>4
    <3> HIDE DEF I
    <3> QED
      BY <3>1, <3>2, InductiveSet
  <2>5. v[n] = u[n]
    BY <2>1, <2>4
  <2>6. n + 1 \in 1..Len(t) /\ (n + 1) - 1 = n
    BY <2>1
  <2>7. v[n + 1] = Processed(v[n], r)
    BY <2>1, <2>3, <2>6 DEF Processes
  <2> QED
    BY <2>1, <2>2, <2>3, <2>5, <2>7 DEF t
<1> QED
  BY <1>1, <1>3

\* A batch of records: their units reach the reader, in order, and nothing else does.
After(d, c, s) ==
    /\ d \in Conns /\ d.side = c.side /\ d.eof = c.eof
    /\ d.plain = c.plain \o Units(s)
    /\ Units(d.out) = Units(c.out)
    /\ d.notify = TRUE <=> c.notify = TRUE \/ \E i \in 1..Len(s) : s[i].kind = "notify"

LEMMA ProcessedBatch ==
    ASSUME NEW c \in Conns, NEW s \in Seq(Records)
    PROVE  After(ProcessedAll(c, s), c, s)
<1> DEFINE T == {x \in Seq(Records) : After(ProcessedAll(c, x), c, x)}
<1>0. c.plain \in Seq(Nat) /\ c.notify \in BOOLEAN
  BY DEF Conns
<1>1. <<>> \in T
  <2>1. <<>> \in Seq(Records) /\ Len(<<>>) = 0 /\ Units(<<>>) = <<>> /\ c.plain \o <<>> = c.plain
    BY <1>0, UnitsOf, ConcatEmptySeq
  <2>2. ~ \E i \in 1..Len(<<>>) : <<>>[i].kind = "notify"
    BY <2>1
  <2> QED
    BY <2>1, <2>2, ProcessedOf DEF After
<1>2. ASSUME NEW x \in Seq(Records), NEW r \in Records, x \in T PROVE Append(x, r) \in T
  <2> DEFINE d == ProcessedAll(c, x)
             e == Processed(d, r)
             y == Append(x, r)
  <2>1. After(d, c, x)
    BY <1>2
  <2>2. ProcessedAll(c, y) = e
    BY ProcessedOf
  <2>3. d \in Conns
    BY <2>1 DEF After
  <2>4. y \in Seq(Records) /\ Len(y) = Len(x) + 1 /\ Len(x) \in Nat /\ (\A i \in 1..Len(x) : y[i] = x[i]) /\ y[Len(x) + 1] = r
    BY AppendProperties, LenProperties
  <2>5. Units(x) \in Seq(Nat) /\ r.unit \in Nat
    BY UnitsOf DEF Records
  <2>6. Units(y) = IF r.kind = "data" THEN Append(Units(x), r.unit) ELSE Units(x)
    BY UnitsOf
  <2> HIDE DEF d, y
  <2>7. /\ e \in Conns /\ e.side = d.side /\ e.eof = d.eof
        /\ e.plain = IF r.kind = "data" THEN Append(d.plain, r.unit) ELSE d.plain
        /\ e.notify = IF r.kind = "notify" THEN TRUE ELSE d.notify
        /\ Units(e.out) = Units(d.out)
    BY <2>3, ProcessedOne
  <2> HIDE DEF e
  <2>8. e.plain = c.plain \o Units(y)
    <3>1. CASE r.kind = "data"
      <4>1. e.plain = Append(c.plain \o Units(x), r.unit)
        BY <2>1, <2>7, <3>1 DEF After
      <4>2. Append(c.plain \o Units(x), r.unit) = c.plain \o Append(Units(x), r.unit)
        BY <1>0, <2>5, AppendToNumbers
      <4> QED
        BY <2>6, <3>1, <4>1, <4>2
    <3>2. CASE r.kind # "data"
      BY <2>1, <2>6, <2>7, <3>2 DEF After
    <3> QED
      BY <3>1, <3>2
  <2>9. e.notify = TRUE <=> c.notify = TRUE \/ \E i \in 1..Len(y) : y[i].kind = "notify"
    <3>1. d.notify = TRUE <=> c.notify = TRUE \/ \E i \in 1..Len(x) : x[i].kind = "notify"
      BY <2>1 DEF After
    <3>2. (\E i \in 1..Len(y) : y[i].kind = "notify") <=> r.kind = "notify" \/ \E i \in 1..Len(x) : x[i].kind = "notify"
      <4>1. \A i \in 1..Len(y) : i \in 1..Len(x) \/ i = Len(x) + 1
        BY <2>4
      <4>2. Len(x) + 1 \in 1..Len(y) /\ \A i \in 1..Len(x) : i \in 1..Len(y)
        BY <2>4
      <4> QED
        BY <2>4, <4>1, <4>2
    <3> QED
      BY <2>7, <3>1, <3>2
  <2>10. After(e, c, y)
    BY <2>1, <2>7, <2>8, <2>9 DEF After
  <2> QED
    BY <2>2, <2>4, <2>10 DEF y
<1>3. Seq(Records) \subseteq T
  <2> HIDE DEF T
  <2> QED  BY <1>1, <1>2, InductiveSeq
<1> QED
  BY <1>3

\* The smaller of two numbers.
LEMMA MinOfTwo ==
    ASSUME NEW a \in Int, NEW b \in Int
    PROVE  Min({a, b}) = IF a <= b THEN a ELSE b
<1> DEFINE m == IF a <= b THEN a ELSE b
<1>1. m \in {a, b} /\ \A y \in {a, b} : m <= y
  OBVIOUS
<1>2. \A x \in {a, b} : (\A y \in {a, b} : x <= y) => x = m
  OBVIOUS
<1> HIDE DEF m
<1>3. Min({a, b}) = m
  BY <1>1, <1>2 DEF Min
<1> QED
  BY <1>3 DEF m

\* Counting, and counting on.
LEMMA Counting ==
    ASSUME NEW n \in Nat, NEW k \in Nat
    PROVE  /\ Count(n) \in Seq(Nat) /\ Len(Count(n)) = n /\ Count(0) = <<>>
           /\ [i \in 1..k |-> n + i] \in Seq(Nat) /\ Len([i \in 1..k |-> n + i]) = k
           /\ Count(n) \o [i \in 1..k |-> n + i] = Count(n + k)
           /\ Append(Count(n), n + 1) = Count(n + 1)
<1>1. \A m \in Nat : Count(m) \in Seq(Nat) /\ Len(Count(m)) = m /\ \A i \in 1..m : Count(m)[i] = i
  <2>1. \A m \in Nat : \A i \in 1..m : i \in Nat
    OBVIOUS
  <2>2. ASSUME NEW m \in Nat PROVE Count(m) \in [1..m -> Nat]
    BY <2>1 DEF Count
  <2>3. ASSUME NEW m \in Nat PROVE Count(m) \in Seq(Nat) /\ Len(Count(m)) = m
    <3> DEFINE q == Count(m)
    <3>1. q \in [1..m -> Nat]
      BY <2>2
    <3> HIDE DEF q
    <3>2. q \in Seq(Nat) /\ Len(q) = m
      BY <3>1, IsASeq, LenProperties
    <3> QED
      BY <3>2 DEF q
  <2> QED
    BY <2>3 DEF Count
<1> DEFINE e == [i \in 1..k |-> n + i]
<1>2. e \in [1..k -> Nat] /\ \A i \in 1..k : e[i] = n + i
  OBVIOUS
<1> HIDE DEF e
<1>3. e \in Seq(Nat) /\ Len(e) = k
  BY <1>2, IsASeq, LenProperties
<1>4. Count(0) = <<>>
  BY <1>1, EmptySeq
<1>5. Count(n) \o e = Count(n + k)
  <2> DEFINE a == Count(n)
             b == Count(n + k)
             d == a \o e
  <2>1. a \in Seq(Nat) /\ b \in Seq(Nat) /\ Len(a) = n /\ Len(b) = n + k
    BY <1>1
  <2>2. (\A i \in 1..n : a[i] = i) /\ (\A i \in 1..n + k : b[i] = i)
    BY <1>1
  <2> HIDE DEF a, b
  <2>3. d \in Seq(Nat) /\ Len(d) = n + k /\ \A i \in 1..n + k : d[i] = IF i <= n THEN a[i] ELSE e[i - n]
    BY <1>3, <2>1, ConcatProperties
  <2> HIDE DEF d
  <2>4. ASSUME NEW i \in 1..n + k PROVE d[i] = b[i]
    <3>1. CASE i <= n
      <4>1. i \in 1..n
        BY <3>1
      <4> QED
        BY <2>2, <2>3, <3>1, <4>1
    <3>2. CASE ~(i <= n)
      <4>1. i - n \in 1..k /\ n + (i - n) = i
        BY <3>2
      <4> QED
        BY <1>2, <2>2, <2>3, <3>2, <4>1
    <3> QED
      BY <3>1, <3>2
  <2>5. d = b
    BY <2>1, <2>3, <2>4, SeqEqual
  <2> QED
    BY <2>5 DEF a, b, d
<1>6. Append(Count(n), n + 1) = Count(n + 1)
  <2> DEFINE a == Count(n)
             b == Count(n + 1)
             d == Append(a, n + 1)
  <2>1. a \in Seq(Nat) /\ b \in Seq(Nat) /\ Len(a) = n /\ Len(b) = n + 1
    BY <1>1
  <2>2. (\A i \in 1..n : a[i] = i) /\ (\A i \in 1..n + 1 : b[i] = i)
    BY <1>1
  <2> HIDE DEF a, b
  <2>3. d \in Seq(Nat) /\ Len(d) = n + 1 /\ (\A i \in 1..n : d[i] = a[i]) /\ d[n + 1] = n + 1
    BY <2>1, AppendProperties
  <2> HIDE DEF d
  <2>4. ASSUME NEW i \in 1..n + 1 PROVE d[i] = b[i]
    <3>1. i \in 1..n \/ i = n + 1
      OBVIOUS
    <3> QED
      BY <2>2, <2>3, <3>1
  <2>5. d = b
    BY <2>1, <2>3, <2>4, SeqEqual
  <2> QED
    BY <2>5 DEF a, b, d
<1> QED
  BY <1>1, <1>3, <1>4, <1>5, <1>6 DEF e

\* The records rustls makes of what a write takes hold the next units, in order.
LEMMA UnitsUpTo ==
    ASSUME NEW t \in Nat, NEW k \in Nat
    PROVE  UpTo(t, k) \in Seq(Records) /\ Units(UpTo(t, k)) = [i \in 1..k |-> t + i]
<1> DEFINE T == {m \in Nat : Units(UpTo(t, m)) = [i \in 1..m |-> t + i]}
<1>1. ASSUME NEW m \in Nat
      PROVE  /\ UpTo(t, m) \in Seq(Records) /\ Len(UpTo(t, m)) = m
             /\ \A i \in 1..m : UpTo(t, m)[i] = Unit(t + i)
  <2>1. \A i \in 1..m : Unit(t + i) \in Records
    BY DEF Unit, Records
  <2> DEFINE q == UpTo(t, m)
  <2>2. q \in [1..m -> Records] /\ \A i \in 1..m : q[i] = Unit(t + i)
    BY <2>1 DEF UpTo
  <2> HIDE DEF q
  <2>3. q \in Seq(Records) /\ Len(q) = m
    BY <2>2, IsASeq, LenProperties
  <2> QED
    BY <2>2, <2>3 DEF q
<1>2. 0 \in T
  <2>1. UpTo(t, 0) = <<>>
    BY <1>1, EmptySeq
  <2>2. [i \in 1..0 |-> t + i] = <<>>
    BY Counting, EmptySeq
  <2> QED
    BY <2>1, <2>2, UnitsOf
<1>3. ASSUME NEW m \in Nat, m \in T PROVE m + 1 \in T
  <2> DEFINE a == UpTo(t, m)
             b == UpTo(t, m + 1)
             r == Unit(t + (m + 1))
             d == Append(a, r)
  <2>1. /\ a \in Seq(Records) /\ Len(a) = m /\ b \in Seq(Records) /\ Len(b) = m + 1
        /\ \A i \in 1..m : a[i] = Unit(t + i)
        /\ \A i \in 1..m + 1 : b[i] = Unit(t + i)
    BY <1>1
  <2>2. r \in Records /\ r.kind = "data" /\ r.unit = t + (m + 1)
    BY DEF Records, Unit
  <2> HIDE DEF a, b, r
  <2>3. d \in Seq(Records) /\ Len(d) = m + 1 /\ (\A i \in 1..m : d[i] = a[i]) /\ d[m + 1] = r
    BY <2>1, <2>2, AppendProperties
  <2>4. Units(d) = Append(Units(a), t + (m + 1))
    BY <2>1, <2>2, UnitsOf
  <2> HIDE DEF d
  <2>5. ASSUME NEW i \in 1..m + 1 PROVE d[i] = b[i]
    <3>1. i \in 1..m \/ i = m + 1
      OBVIOUS
    <3> QED
      BY <2>1, <2>3, <3>1 DEF r
  <2>6. d = b
    BY <2>1, <2>3, <2>5, SeqEqual
  <2> DEFINE x == [i \in 1..m |-> t + i]
             y == [i \in 1..m + 1 |-> t + i]
             z == Append(x, t + (m + 1))
  <2>7. x \in Seq(Nat) /\ Len(x) = m /\ y \in Seq(Nat) /\ Len(y) = m + 1
    BY Counting
  <2>8. (\A i \in 1..m : x[i] = t + i) /\ \A i \in 1..m + 1 : y[i] = t + i
    OBVIOUS
  <2>9. Units(a) = x
    BY <1>3 DEF a
  <2> HIDE DEF x, y
  <2>10. z \in Seq(Nat) /\ Len(z) = m + 1 /\ (\A i \in 1..m : z[i] = x[i]) /\ z[m + 1] = t + (m + 1)
    BY <2>7, AppendProperties
  <2> HIDE DEF z
  <2>11. ASSUME NEW i \in 1..m + 1 PROVE z[i] = y[i]
    <3>1. i \in 1..m \/ i = m + 1
      OBVIOUS
    <3> QED
      BY <2>8, <2>10, <3>1
  <2>12. z = y
    BY <2>7, <2>10, <2>11, SeqEqual
  <2>13. Units(b) = y
    BY <2>4, <2>6, <2>9, <2>12 DEF z
  <2> QED
    BY <2>13 DEF b, y
<1>4. Nat \subseteq T
  <2> HIDE DEF T
  <2> QED  BY <1>2, <1>3, InductiveSet
<1> QED
  BY <1>1, <1>4

\* A prefix of records and the rest.
LEMMA UnitsSplit ==
    ASSUME NEW s \in Seq(Records), NEW n \in 0..Len(s)
    PROVE  /\ SubSeq(s, 1, n) \in Seq(Records) /\ Len(SubSeq(s, 1, n)) = n
           /\ \A i \in 1..n : SubSeq(s, 1, n)[i] = s[i]
           /\ SubSeq(s, n + 1, Len(s)) \in Seq(Records) /\ Len(SubSeq(s, n + 1, Len(s))) = Len(s) - n
           /\ \A i \in 1..Len(s) - n : SubSeq(s, n + 1, Len(s))[i] = s[n + i]
           /\ SubSeq(s, 1, n) \o SubSeq(s, n + 1, Len(s)) = s
           /\ Units(s) = Units(SubSeq(s, 1, n)) \o Units(SubSeq(s, n + 1, Len(s)))
<1> DEFINE a == SubSeq(s, 1, n)
           b == SubSeq(s, n + 1, Len(s))
<1>0. Len(s) \in Nat /\ n \in Nat /\ n <= Len(s)
  BY LenProperties
<1>1. a \in Seq(Records) /\ Len(a) = n /\ \A i \in 1..n : a[i] = s[i]
  <2>1. /\ a \in Seq(Records)
        /\ Len(a) = IF 1 <= n THEN n - 1 + 1 ELSE 0
        /\ \A i \in 1..n - 1 + 1 : a[i] = s[1 + i - 1]
    <3>1. \A i \in 1..n : i \in 1..Len(s)
      BY <1>0
    <3> QED
      BY <1>0, <3>1, SubSeqProperties
  <2> QED
    BY <1>0, <2>1
<1>2. b \in Seq(Records) /\ Len(b) = Len(s) - n /\ \A i \in 1..Len(s) - n : b[i] = s[n + i]
  <2>0. \A i \in n + 1..Len(s) : i \in 1..Len(s)
    BY <1>0
  <2>1. /\ b \in Seq(Records)
        /\ Len(b) = IF n + 1 <= Len(s) THEN Len(s) - (n + 1) + 1 ELSE 0
        /\ \A i \in 1..Len(s) - (n + 1) + 1 : b[i] = s[n + 1 + i - 1]
    BY <1>0, <2>0, SubSeqProperties
  <2>2. \A l \in Nat : n <= l => /\ (IF n + 1 <= l THEN l - (n + 1) + 1 ELSE 0) = l - n
                                /\ l - (n + 1) + 1 = l - n
    BY <1>0
  <2>3. Len(b) = Len(s) - n /\ Len(s) - (n + 1) + 1 = Len(s) - n
    <3> HIDE DEF b
    <3> QED  BY <1>0, <2>1, <2>2
  <2>4. \A i \in 1..Len(s) - n : n + 1 + i - 1 = n + i
    BY <1>0
  <2> HIDE DEF b
  <2> QED
    BY <2>1, <2>3, <2>4
<1>3. a \o b = s
  <2> HIDE DEF a, b
  <2> DEFINE d == a \o b
  <2>1. d \in Seq(Records) /\ Len(d) = Len(a) + Len(b)
        /\ \A i \in 1..Len(a) + Len(b) : d[i] = IF i <= Len(a) THEN a[i] ELSE b[i - Len(a)]
    BY <1>1, <1>2, ConcatProperties
  <2> HIDE DEF d
  <2>2. Len(d) = Len(s)
    BY <1>0, <1>1, <1>2, <2>1
  <2>3. ASSUME NEW i \in 1..Len(s) PROVE d[i] = s[i]
    <3>1. i \in 1..Len(a) + Len(b)
      BY <1>0, <1>1, <1>2
    <3>2. CASE i <= n
      <4>1. i \in 1..n
        BY <1>0, <3>2
      <4> QED
        BY <1>1, <2>1, <3>1, <3>2, <4>1
    <3>3. CASE ~(i <= n)
      <4>1. i - n \in 1..Len(s) - n /\ n + (i - n) = i
        BY <1>0, <3>3
      <4> QED
        BY <1>1, <1>2, <2>1, <3>1, <3>3, <4>1
    <3> QED
      BY <3>2, <3>3
  <2>4. d = s
    BY <2>1, <2>2, <2>3, SeqEqual
  <2> QED
    BY <2>4 DEF d
<1>4. Units(s) = Units(a) \o Units(b)
  <2> HIDE DEF a, b
  <2>1. Units(a \o b) = Units(a) \o Units(b)
    BY <1>1, <1>2, UnitsConcat
  <2> QED
    BY <1>3, <2>1
<1> QED
  BY <1>1, <1>2, <1>3, <1>4

\* Records without data carry no units.
LEMMA NoUnits ==
    ASSUME NEW s \in Seq(Records), \A i \in 1..Len(s) : s[i].kind # "data"
    PROVE  Units(s) = <<>>
<1> DEFINE T == {x \in Seq(Records) : (\A i \in 1..Len(x) : x[i].kind # "data") => Units(x) = <<>>}
<1>1. <<>> \in T
  BY UnitsOf, EmptySeq
<1>2. ASSUME NEW x \in Seq(Records), NEW r \in Records, x \in T PROVE Append(x, r) \in T
  <2> DEFINE y == Append(x, r)
  <2>1. y \in Seq(Records) /\ Len(y) = Len(x) + 1 /\ Len(x) \in Nat /\ (\A i \in 1..Len(x) : y[i] = x[i]) /\ y[Len(x) + 1] = r
    BY AppendProperties, LenProperties
  <2>2. Units(y) = IF r.kind = "data" THEN Append(Units(x), r.unit) ELSE Units(x)
    BY UnitsOf
  <2> HIDE DEF y
  <2>3. ASSUME \A i \in 1..Len(y) : y[i].kind # "data" PROVE Units(y) = <<>>
    <3>1. Len(x) + 1 \in 1..Len(y) /\ \A i \in 1..Len(x) : i \in 1..Len(y)
      BY <2>1
    <3>2. r.kind # "data" /\ \A i \in 1..Len(x) : x[i].kind # "data"
      BY <2>1, <2>3, <3>1
    <3> QED
      BY <1>2, <2>2, <3>2
  <2>4. y \in T
    BY <2>1, <2>3
  <2> QED
    BY <2>4 DEF y
<1>3. Seq(Records) \subseteq T
  <2> HIDE DEF T
  <2> QED  BY <1>1, <1>2, InductiveSeq
<1> QED
  BY <1>3

\* Joining numbers is associative.
Joined(a, b) == a \o b

LEMMA Joins ==
    ASSUME NEW a \in Seq(Nat), NEW b \in Seq(Nat), NEW c \in Seq(Nat)
    PROVE  /\ Joined(Joined(a, b), c) = Joined(a, Joined(b, c)) /\ Joined(a, b) \in Seq(Nat)
           /\ Joined(a, <<>>) = a /\ Joined(<<>>, a) = a
<1>1. (a \o b) \o c = a \o (b \o c)
  BY ConcatAssociative
<1>2. a \o b \in Seq(Nat)
  BY ConcatProperties
<1>3. a \o <<>> = a /\ <<>> \o a = a
  BY ConcatEmptySeq
<1> QED
  BY <1>1, <1>2, <1>3 DEF Joined

LEMMA JoinsTwice ==
    ASSUME NEW a \in Seq(Nat), NEW b \in Seq(Nat), NEW c \in Seq(Nat), NEW d \in Seq(Nat)
    PROVE  /\ Joined(Joined(a, Joined(b, c)), d) = Joined(Joined(a, b), Joined(c, d))
           /\ Joined(Joined(Joined(a, b), c), d) = Joined(Joined(a, b), Joined(c, d))
  BY Joins

\* A prefix of numbers and the rest.
LEMMA NumbersSplit ==
    ASSUME NEW s \in Seq(Nat), NEW n \in 0..Len(s)
    PROVE  /\ SubSeq(s, 1, n) \in Seq(Nat) /\ SubSeq(s, n + 1, Len(s)) \in Seq(Nat)
           /\ SubSeq(s, 1, n) \o SubSeq(s, n + 1, Len(s)) = s
           /\ n = 0 => SubSeq(s, 1, n) = <<>>
<1>0. Len(s) \in Nat /\ n \in Nat /\ n <= Len(s)
  BY LenProperties
<1>1. SubSeq(s, 1, n) \in Seq(Nat)
  <2>1. \A i \in 1..n : i \in 1..Len(s)
    BY <1>0
  <2> QED
    BY <1>0, <2>1, SubSeqProperties
<1>2. SubSeq(s, n + 1, Len(s)) \in Seq(Nat)
  <2>1. \A i \in n + 1..Len(s) : i \in 1..Len(s)
    BY <1>0
  <2> QED
    BY <1>0, <2>1, SubSeqProperties
<1>3. SubSeq(s, 1, n) \o SubSeq(s, n + 1, Len(s)) = s
  <2>1. 1 \in 1..Len(s) + 1 /\ n \in 1 - 1..Len(s) /\ Len(s) \in n..Len(s)
    BY <1>0
  <2>2. SubSeq(s, 1, n) \o SubSeq(s, n + 1, Len(s)) = SubSeq(s, 1, Len(s))
    BY <2>1, ConcatAdjacentSubSeq
  <2>3. SubSeq(s, 1, Len(s)) = s
    BY SubSeqFull
  <2> QED
    BY <2>2, <2>3
<1>4. n = 0 => SubSeq(s, 1, n) = <<>>
  BY <1>0, SubSeqEmpty
<1> QED
  BY <1>1, <1>2, <1>3, <1>4

\* The parts of the stream are records with these fields.
LEMMA ConnFields ==
    ASSUME NEW c \in Conns
    PROVE  /\ c = [side |-> c.side, traffic |-> c.traffic, out |-> c.out, plain |-> c.plain,
                   notify |-> c.notify, eof |-> c.eof]
           /\ c.side \in {"none", "client", "server"} /\ c.traffic \in BOOLEAN /\ c.out \in Seq(Records)
           /\ c.plain \in Seq(Nat) /\ c.notify \in BOOLEAN /\ c.eof \in BOOLEAN
  BY DEF Conns

LEMMA WireFields ==
    ASSUME NEW w \in Wires
    PROVE  w = [out |-> w.out, inn |-> w.inn] /\ w.out \in Seq(Records) /\ w.inn \in Seq(Records)
  BY DEF Wires

LEMMA PeerFields ==
    ASSUME NEW p \in Peers
    PROVE  /\ p = [state |-> p.state, traffic |-> p.traffic, sent |-> p.sent, got |-> p.got, notify |-> p.notify]
           /\ p.state \in {"idle", "open", "closed"} /\ p.traffic \in BOOLEAN /\ p.sent \in Nat
           /\ p.got \in Seq(Nat) /\ p.notify \in BOOLEAN
  BY DEF Peers

LEMMA CallFields ==
    ASSUME NEW k \in InCalls
    PROVE  /\ k = [op |-> k.op, at |-> k.at, phase |-> k.phase, until |-> k.until, wrote |-> k.wrote,
                   units |-> k.units, nonblock |-> k.nonblock]
           /\ k.op \in {"none", "connect", "accept", "read", "write"} /\ k.at \in {"write", "read"}
           /\ k.phase \in {1, 2} /\ k.until \in BOOLEAN /\ k.wrote \in BOOLEAN /\ k.units \in Nat
           /\ k.nonblock \in BOOLEAN
  BY DEF InCalls

LEMMA FlowFields ==
    ASSUME NEW f \in Flows
    PROVE  /\ f = [told |-> f.told, handed |-> f.handed, end |-> f.end, broken |-> f.broken, nonblock |-> f.nonblock]
           /\ f.told \in Seq(Nat) /\ f.handed \in Seq(Nat) /\ f.end \in {"no", "clean"}
           /\ f.broken \in BOOLEAN /\ f.nonblock \in BOOLEAN /\ Len(f.told) \in Nat
<1>1. f.told \in Seq(Nat)
  BY DEF Flows
<1>2. Len(f.told) \in Nat
  BY <1>1, LenProperties
<1> QED
  BY <1>1, <1>2 DEF Flows

LEMMA CallEnds == NoCall \in InCalls /\ NoCall.op = "none" /\ Pending(NoCall) = 0
  BY DEF NoCall, InCalls, Pending

\* No connection carries nothing.
LEMMA NoConnIs ==
    /\ NoConn \in Conns /\ NoConn.side = "none" /\ NoConn.traffic = FALSE /\ NoConn.notify = FALSE
    /\ NoConn.out = <<>> /\ NoConn.plain = <<>> /\ Units(NoConn.out) = <<>>
<1>1. <<>> \in Seq(Nat) /\ <<>> \in Seq(Records)
  OBVIOUS
<1> QED
  BY <1>1, UnitsOf DEF NoConn, Conns

\* What a call that moves no data may do to the record of the call.
LEMMA CallMoves ==
    ASSUME NEW c, NEW w, NEW p, NEW k, NEW f, Consistent(c, w, p, k, f), NEW l \in InCalls,
           l.op = k.op, l.units = k.units, l.phase = k.phase
    PROVE  Consistent(c, w, p, l, f)
<1>1. Pending(l) = Pending(k)
  BY DEF Pending
<1> QED
  BY <1>1 DEF Consistent

\* A call that ends with nothing said, or begins.
LEMMA CallChanges ==
    ASSUME NEW c, NEW w, NEW p, NEW k, NEW f, Consistent(c, w, p, k, f), NEW l \in InCalls,
           Pending(k) = 0, Pending(l) = 0,
           l.op # "none" => f.broken = FALSE /\ c.side # "none", l.op = "read" => l.units > 0
    PROVE  Consistent(c, w, p, l, f)
  BY DEF Consistent

\* write_tls: records move from rustls to the socket.
LEMMA WriteMoves ==
    ASSUME NEW c, NEW w, NEW p, NEW k, NEW f, Consistent(c, w, p, k, f), NEW n \in 1..Len(c.out)
    PROVE  Consistent([c EXCEPT !.out = SubSeq(@, n + 1, Len(@))], [w EXCEPT !.out = @ \o SubSeq(c.out, 1, n)], p, k, f)
<1> DEFINE a == SubSeq(c.out, 1, n)
           b == SubSeq(c.out, n + 1, Len(c.out))
           d == [c EXCEPT !.out = SubSeq(@, n + 1, Len(@))]
           v == [w EXCEPT !.out = @ \o SubSeq(c.out, 1, n)]
<1>1. c \in Conns /\ w \in Wires /\ p \in Peers /\ k \in InCalls /\ f \in Flows
  BY DEF Consistent
<1>2. c.out \in Seq(Records) /\ w.out \in Seq(Records) /\ w.inn \in Seq(Records) /\ p.got \in Seq(Nat)
  BY <1>1, ConnFields, WireFields, PeerFields
<1>3. n \in 0..Len(c.out)
  BY <1>2, LenProperties
<1>4. a \in Seq(Records) /\ b \in Seq(Records) /\ Units(c.out) = Units(a) \o Units(b)
  BY <1>2, <1>3, UnitsSplit
<1>5. d = [side |-> c.side, traffic |-> c.traffic, out |-> b, plain |-> c.plain, notify |-> c.notify, eof |-> c.eof]
  <2> HIDE DEF b
  <2>1. d = [c EXCEPT !.out = b]
    BY DEF b
  <2>2. c = [side |-> c.side, traffic |-> c.traffic, out |-> c.out, plain |-> c.plain, notify |-> c.notify, eof |-> c.eof]
    BY <1>1, ConnFields
  <2> QED
    BY <2>1, <2>2
<1>6. v = [out |-> w.out \o a, inn |-> w.inn]
  <2>1. PICK y : y = w.out \o a
    OBVIOUS
  <2>2. v = [w EXCEPT !.out = y]
    BY <2>1
  <2> HIDE DEF a, v
  <2>3. w = [out |-> w.out, inn |-> w.inn]
    BY <1>1, WireFields
  <2>4. v = [out |-> y, inn |-> w.inn]
    BY <2>2, <2>3
  <2> QED
    BY <2>1, <2>4
<1> HIDE DEF a, b, d, v
<1>7. d \in Conns /\ d.side = c.side /\ d.plain = c.plain /\ d.notify = c.notify /\ d.out = b
  <2>1. c.side \in {"none", "client", "server"} /\ c.traffic \in BOOLEAN
        /\ c.plain \in Seq(Nat) /\ c.notify \in BOOLEAN /\ c.eof \in BOOLEAN
    BY <1>1, ConnFields
  <2> QED
    BY <1>4, <1>5, <2>1 DEF Conns
<1>8. v \in Wires /\ v.inn = w.inn /\ v.out = w.out \o a
  <2>1. w.out \o a \in Seq(Records)
    BY <1>2, <1>4, ConcatProperties
  <2> QED
    BY <1>2, <1>6, <2>1 DEF Wires
<1>9. d.side # "none"
  <2>1. c.side # "none"
    <3>1. SUFFICES ASSUME c = NoConn PROVE FALSE
      BY DEF Consistent
    <3> QED
      BY <3>1, NoConnIs
  <2> QED
    BY <1>7, <2>1
<1>10. p.got \o Units(v.out) \o Units(d.out) = p.got \o Units(w.out) \o Units(c.out)
  <2>1. Units(w.out) \in Seq(Nat) /\ Units(a) \in Seq(Nat) /\ Units(b) \in Seq(Nat)
    BY <1>2, <1>4, UnitsOf
  <2>2. Units(v.out) = Units(w.out) \o Units(a)
    BY <1>2, <1>4, <1>8, UnitsConcat
  <2>3. Joined(Joined(p.got, Joined(Units(w.out), Units(a))), Units(b)) = Joined(Joined(p.got, Units(w.out)), Joined(Units(a), Units(b)))
    BY <1>2, <2>1, JoinsTwice
  <2> QED
    BY <1>4, <1>7, <2>2, <2>3 DEF Joined
<1>11. AlertsLast(d, v, p)
  BY <1>7, <1>8 DEF Consistent, AlertsLast
<1>12. Consistent(d, v, p, k, f)
  BY <1>1, <1>7, <1>8, <1>9, <1>10, <1>11 DEF Consistent
<1> QED
  BY <1>12 DEF d, v

\* What is left of the incoming records after the first n.
Rest(w, n) == [w EXCEPT !.inn = SubSeq(@, n + 1, Len(@))]

Remains(v, w, p, n) ==
    /\ v \in Wires /\ v.out = w.out
    /\ SubSeq(w.inn, 1, n) \in Seq(Records)
    /\ Units(w.inn) = Units(SubSeq(w.inn, 1, n)) \o Units(v.inn)
    /\ p.state # "idle"
    /\ \A i \in 1..Len(v.inn) : v.inn[i].kind = "notify" =>
          p.notify = TRUE /\ \A j \in i + 1..Len(v.inn) : v.inn[j].kind # "data"
    /\ (\E i \in 1..n : w.inn[i].kind = "notify") => p.notify = TRUE /\ Units(v.inn) = <<>>

LEMMA RestIs ==
    ASSUME NEW c, NEW w, NEW p, NEW k, NEW f, Consistent(c, w, p, k, f), NEW n \in 1..Len(w.inn)
    PROVE  Remains(Rest(w, n), w, p, n)
<1> DEFINE s == w.inn
           a == SubSeq(s, 1, n)
           b == SubSeq(s, n + 1, Len(s))
           v == Rest(w, n)
<1>1. w \in Wires /\ AlertsLast(c, w, p) /\ (p.state = "idle" => s = <<>>)
  BY DEF Consistent
<1>2. s \in Seq(Records) /\ Len(s) \in Nat
  BY <1>1, WireFields, LenProperties
<1>3. n \in 0..Len(s) /\ n \in Nat /\ s # <<>>
  BY <1>2
<1>4. v = [out |-> w.out, inn |-> b]
  <2> HIDE DEF b
  <2>1. v = [w EXCEPT !.inn = b]
    BY DEF Rest, b
  <2>2. w = [out |-> w.out, inn |-> w.inn]
    BY <1>1, WireFields
  <2> QED
    BY <2>1, <2>2
<1>5. /\ a \in Seq(Records) /\ b \in Seq(Records) /\ Len(b) = Len(s) - n
      /\ (\A i \in 1..Len(s) - n : b[i] = s[n + i]) /\ Units(s) = Units(a) \o Units(b)
  BY <1>2, <1>3, UnitsSplit
<1>6. \A i \in 1..Len(s) : s[i].kind = "notify" =>
          p.notify = TRUE /\ \A j \in i + 1..Len(s) : s[j].kind # "data"
  BY <1>1 DEF AlertsLast
<1> HIDE DEF s, a, b, v
<1>7. v \in Wires /\ v.out = w.out /\ v.inn = b
  BY <1>1, <1>4, <1>5, WireFields DEF Wires
<1>8. ASSUME NEW i \in 1..Len(b), b[i].kind = "notify"
      PROVE  p.notify = TRUE /\ \A j \in i + 1..Len(b) : b[j].kind # "data"
  <2>1. n + i \in 1..Len(s) /\ i \in 1..Len(s) - n
    BY <1>2, <1>3, <1>5
  <2>2. s[n + i].kind = "notify"
    BY <1>5, <1>8, <2>1
  <2>3. ASSUME NEW j \in i + 1..Len(b) PROVE b[j].kind # "data"
    <3>1. n + j \in n + i + 1..Len(s) /\ j \in 1..Len(s) - n
      BY <1>2, <1>3, <1>5
    <3>2. s[n + j].kind # "data"
      BY <1>6, <2>1, <2>2, <3>1
    <3> QED
      BY <1>5, <3>1, <3>2
  <2> QED
    BY <1>6, <2>1, <2>2, <2>3
<1>9. ASSUME NEW i \in 1..n, s[i].kind = "notify" PROVE p.notify = TRUE /\ Units(b) = <<>>
  <2>1. i \in 1..Len(s)
    BY <1>2, <1>3
  <2>2. ASSUME NEW j \in 1..Len(b) PROVE b[j].kind # "data"
    <3>1. n + j \in i + 1..Len(s) /\ j \in 1..Len(s) - n
      BY <1>2, <1>3, <1>5
    <3>2. s[n + j].kind # "data"
      BY <1>6, <1>9, <2>1, <3>1
    <3> QED
      BY <1>5, <3>1, <3>2
  <2> QED
    BY <1>5, <1>6, <1>9, <2>1, <2>2, NoUnits
<1> QED
  BY <1>1, <1>3, <1>5, <1>7, <1>8, <1>9 DEF Remains, s, a, b, v

\* read_tls and process_new_packets.
LEMMA ReadMoves ==
    ASSUME NEW c, NEW w, NEW p, NEW k, NEW f, Consistent(c, w, p, k, f), NEW n \in 1..Len(w.inn),
           c.notify = FALSE, c.side # "none"
    PROVE  Consistent(ProcessedAll(c, SubSeq(w.inn, 1, n)), Rest(w, n), p, k, f)
<1> DEFINE a == SubSeq(w.inn, 1, n)
           d == ProcessedAll(c, a)
           v == Rest(w, n)
<1>0. c \in Conns /\ w \in Wires /\ p \in Peers /\ k \in InCalls /\ f \in Flows
  BY DEF Consistent
<1>1. /\ v \in Wires /\ v.out = w.out /\ a \in Seq(Records) /\ Units(w.inn) = Units(a) \o Units(v.inn)
      /\ p.state # "idle"
      /\ \A i \in 1..Len(v.inn) : v.inn[i].kind = "notify" =>
            p.notify = TRUE /\ \A j \in i + 1..Len(v.inn) : v.inn[j].kind # "data"
      /\ (\E i \in 1..n : w.inn[i].kind = "notify") => p.notify = TRUE /\ Units(v.inn) = <<>>
  <2>1. Remains(v, w, p, n)
    BY RestIs
  <2> QED
    BY <2>1 DEF Remains
<1>2. w.inn \in Seq(Records) /\ v.inn \in Seq(Records)
  BY <1>0, <1>1, WireFields
<1>3. Len(a) = n /\ \A i \in 1..n : a[i] = w.inn[i]
  <2>1. n \in 0..Len(w.inn)
    BY <1>2, LenProperties
  <2> QED
    BY <1>2, <2>1, UnitsSplit
<1> HIDE DEF v, a
<1>4. After(d, c, a)
  BY <1>0, <1>1, ProcessedBatch
<1> HIDE DEF d
<1>5. d.notify = TRUE => \E i \in 1..n : w.inn[i].kind = "notify"
  BY <1>3, <1>4 DEF After
<1>6. AlertsLast(d, v, p)
  BY <1>1, <1>5 DEF AlertsLast
<1>7. f.handed \o d.plain \o Units(v.inn) = f.handed \o c.plain \o Units(w.inn)
  <2>1. f.handed \in Seq(Nat) /\ c.plain \in Seq(Nat) /\ Units(a) \in Seq(Nat) /\ Units(v.inn) \in Seq(Nat)
    BY <1>0, <1>1, <1>2, ConnFields, FlowFields, UnitsOf
  <2>2. d.plain = c.plain \o Units(a)
    BY <1>4 DEF After
  <2>3. Joined(Joined(f.handed, Joined(c.plain, Units(a))), Units(v.inn)) = Joined(Joined(f.handed, c.plain), Joined(Units(a), Units(v.inn)))
    BY <2>1, JoinsTwice
  <2> QED
    BY <1>1, <2>2, <2>3 DEF Joined
<1>8. d \in Conns /\ d.side = c.side /\ Units(d.out) = Units(c.out)
  BY <1>4 DEF After
<1>9. Consistent(d, v, p, k, f)
  BY <1>0, <1>1, <1>6, <1>7, <1>8 DEF Consistent
<1> QED
  BY <1>9 DEF d, v, a

\* An error, after records were read or without.
LEMMA ErrorKeeps ==
    ASSUME NEW c, NEW w, NEW p, NEW k, NEW f, Consistent(c, w, p, k, f),
           NEW d, d = c \/ d = NoConn,
           NEW v, v = w \/ (c.notify = FALSE /\ \E n \in 1..Len(w.inn) : v = Rest(w, n))
    PROVE  Consistent(d, v, p, NoCall, [f EXCEPT !.broken = TRUE])
<1> DEFINE g == [f EXCEPT !.broken = TRUE]
<1>1. c \in Conns /\ w \in Wires /\ p \in Peers /\ k \in InCalls /\ f \in Flows
  BY DEF Consistent
<1>3. g \in Flows /\ g.broken = TRUE /\ g.end = f.end /\ g.handed = f.handed
  BY <1>1 DEF Flows
<1> HIDE DEF g
<1>4. AlertsLast(d, v, p) /\ v \in Wires /\ (p.state = "idle" => v.inn = <<>>)
  <2>1. CASE v = w
    BY <1>1, <2>1, NoConnIs DEF Consistent, AlertsLast
  <2>2. CASE c.notify = FALSE /\ \E n \in 1..Len(w.inn) : v = Rest(w, n)
    <3>1. PICK n \in 1..Len(w.inn) : v = Rest(w, n)
      BY <2>2
    <3>2. d.notify = FALSE
      BY <2>2, NoConnIs
    <3>3. /\ v \in Wires /\ p.state # "idle"
          /\ \A i \in 1..Len(v.inn) : v.inn[i].kind = "notify" =>
                p.notify = TRUE /\ \A j \in i + 1..Len(v.inn) : v.inn[j].kind # "data"
      <4>1. Remains(v, w, p, n)
        BY <3>1, RestIs
      <4> QED
        BY <4>1 DEF Remains
    <3> QED
      BY <3>2, <3>3 DEF AlertsLast
  <2> QED
    BY <2>1, <2>2
<1>5. d \in Conns /\ (d.side = "none" => d = NoConn)
  BY <1>1, NoConnIs DEF Consistent
<1>6. f.end = "clean" => p.notify = TRUE /\ f.handed = Count(p.sent)
  BY DEF Consistent
<1>7. Consistent(d, v, p, NoCall, g)
  BY <1>1, <1>3, <1>4, <1>5, <1>6, CallEnds DEF Consistent
<1> QED
  BY <1>7 DEF g

\* The peer, the wire and rustls together hold what Outgoing says, the workload, rustls and the wire what Incoming does.
Outgoing(c, w, p) == p.got \o Units(w.out) \o Units(c.out)
Incoming(c, w, f) == f.handed \o c.plain \o Units(w.inn)

\* reader().read_vectored
ReadFrom(c, n) == [c EXCEPT !.plain = SubSeq(@, n + 1, Len(@))]
HandedOver(f, c, n, b) == [f EXCEPT !.handed = @ \o SubSeq(c.plain, 1, n),
                                    !.end = IF n = 0 /\ c.notify THEN "clean" ELSE @, !.broken = b]

LEMMA ReadTakes ==
    ASSUME NEW c, NEW w, NEW p, NEW k, NEW f, Consistent(c, w, p, k, f), k.op = "read",
           NEW n, n = Min({k.units, Len(c.plain)}), NEW b \in BOOLEAN
    PROVE  Consistent(ReadFrom(c, n), w, p, NoCall, HandedOver(f, c, n, b))
<1> DEFINE s == c.plain
           x == SubSeq(s, 1, n)
           y == SubSeq(s, n + 1, Len(s))
           h == f.handed \o x
           e == IF n = 0 /\ c.notify THEN "clean" ELSE f.end
           d == ReadFrom(c, n)
           g == HandedOver(f, c, n, b)
<1>1. /\ c \in Conns /\ w \in Wires /\ p \in Peers /\ k \in InCalls /\ f \in Flows
      /\ f.broken = FALSE /\ k.units > 0 /\ c.side # "none" /\ AlertsLast(c, w, p)
      /\ Incoming(c, w, f) = Count(p.sent) /\ Outgoing(c, w, p) = Count(Len(f.told) + Pending(k))
      /\ p.state = "idle" => w.inn = <<>>
      /\ f.end = "clean" => p.notify = TRUE /\ f.handed = Count(p.sent)
  BY DEF Consistent, Incoming, Outgoing
<1>2. s \in Seq(Nat) /\ Len(s) \in Nat /\ f.handed \in Seq(Nat) /\ k.units \in Nat
  BY <1>1, ConnFields, FlowFields, CallFields, LenProperties
<1>3. n \in 0..Len(s) /\ n \in Nat /\ (n = 0 => Len(s) = 0)
  <2>1. n = IF k.units <= Len(s) THEN k.units ELSE Len(s)
    BY <1>2, MinOfTwo
  <2>2. \A a, z \in Nat : \A m : a > 0 /\ m = (IF a <= z THEN a ELSE z) => m \in 0..z /\ m \in Nat /\ (m = 0 => z = 0)
    OBVIOUS
  <2> HIDE DEF s
  <2> QED
    BY <1>1, <1>2, <2>1, <2>2
<1>4. x \in Seq(Nat) /\ y \in Seq(Nat) /\ x \o y = s
  BY <1>2, <1>3, NumbersSplit
<1>5. h \in Seq(Nat)
  BY <1>2, <1>4, ConcatProperties
<1>6. d = [c EXCEPT !.plain = y] /\ g = [f EXCEPT !.handed = h, !.end = e, !.broken = b]
  BY DEF ReadFrom, HandedOver
<1>7. Units(w.inn) \in Seq(Nat)
  BY <1>1, WireFields, UnitsOf
<1>8. s = <<>> => x = <<>>
  <2>1. ASSUME s = <<>> PROVE x = <<>>
    <3>1. n = 0
      BY <1>2, <1>3, <2>1
    <3> QED
      BY <1>2, <1>3, <3>1, NumbersSplit
  <2> QED
    BY <2>1
<1> HIDE DEF x, y, h, e, d, g
<1>9. d \in Conns /\ d.plain = y /\ d.side = c.side /\ d.out = c.out /\ d.notify = c.notify
  BY <1>1, <1>4, <1>6 DEF Conns
<1>10. e \in {"no", "clean"}
  BY <1>1, FlowFields DEF e
<1>11. g \in Flows /\ g.told = f.told /\ g.handed = h /\ g.end = e
  BY <1>1, <1>5, <1>6, <1>10 DEF Flows
<1>12. h \o y \o Units(w.inn) = Count(p.sent)
  <2>1. Joined(Joined(f.handed, Joined(x, y)), Units(w.inn)) = Joined(Joined(Joined(f.handed, x), y), Units(w.inn))
    <3>1. Joined(Joined(f.handed, x), y) = Joined(f.handed, Joined(x, y))
      <4>1. f.handed \in Seq(Nat) /\ x \in Seq(Nat) /\ y \in Seq(Nat)
        BY <1>2, <1>4
      <4>2. \A a, m, z \in Seq(Nat) : Joined(Joined(a, m), z) = Joined(a, Joined(m, z))
        BY Joins
      <4> QED
        BY <4>1, <4>2
    <3> QED
      BY <3>1
  <2> QED
    BY <1>1, <1>4, <2>1 DEF Joined, Incoming, h, s
<1>13. e = "clean" => p.notify = TRUE /\ h = Count(p.sent)
  <2>1. CASE n = 0 /\ c.notify = TRUE
    <3>1. s = <<>> /\ x = <<>>
      BY <1>2, <1>3, <1>8, <2>1, EmptySeq
    <3>2. p.notify = TRUE /\ Units(w.inn) = <<>>
      BY <1>1, <2>1 DEF AlertsLast
    <3>3. Joined(f.handed, <<>>) = f.handed
      BY <1>2, Joins
    <3>4. Incoming(c, w, f) = f.handed
      BY <3>1, <3>2, <3>3 DEF Incoming, Joined, s
    <3> QED
      BY <1>1, <3>1, <3>2, <3>3, <3>4 DEF Joined, h
  <2>2. CASE ~(n = 0 /\ c.notify = TRUE)
    <3>1. SUFFICES ASSUME f.end = "clean" PROVE p.notify = TRUE /\ h = Count(p.sent)
      <4>1. c.notify \in BOOLEAN
        BY <1>1, ConnFields
      <4>2. e = f.end
        BY <2>2, <4>1 DEF e
      <4> QED
        BY <4>2
    <3>2. p.notify = TRUE /\ f.handed = Count(p.sent)
      BY <1>1, <3>1
    <3>3. Joined(f.handed, Joined(s, Units(w.inn))) = f.handed
      <4>1. Joined(Joined(f.handed, s), Units(w.inn)) = f.handed
        BY <1>1, <3>2 DEF Joined, Incoming, s
      <4> QED
        BY <1>2, <1>7, <4>1, Joins
    <3>4. Joined(s, Units(w.inn)) = <<>>
      <4> DEFINE z == Joined(s, Units(w.inn))
      <4>1. z \in Seq(Nat) /\ Joined(f.handed, z) = f.handed
        BY <1>2, <1>7, <3>3, Joins
      <4> HIDE DEF z
      <4>2. z = <<>>
        BY <1>2, <4>1, ConcatEqualIffEmpty DEF Joined
      <4> QED
        BY <4>2 DEF z
    <3>5. s = <<>>
      BY <1>2, <1>7, <3>4, ConcatEqualIffEmpty DEF Joined
    <3>6. Joined(f.handed, <<>>) = f.handed
      BY <1>2, Joins
    <3> QED
      BY <1>8, <3>2, <3>5, <3>6 DEF h, Joined
  <2> QED
    BY <2>1, <2>2
<1>14. AlertsLast(d, w, p)
  BY <1>1, <1>9 DEF AlertsLast
<1>15. Pending(k) = 0
  BY DEF Pending
<1>16. Consistent(d, w, p, NoCall, g)
  BY <1>1, <1>9, <1>11, <1>12, <1>13, <1>14, <1>15, CallEnds DEF Consistent, Outgoing
<1> QED
  BY <1>16 DEF d, g

\* writer().write_vectored
LEMMA WriteTakes ==
    ASSUME NEW c, NEW w, NEW p, NEW k, NEW f, Consistent(c, w, p, k, f), k.op = "write", k.phase = 1,
           NEW n \in Nat, NEW l \in InCalls, l.op = "write", l.phase = 2, l.units = n
    PROVE  Consistent([c EXCEPT !.out = @ \o UpTo(Len(f.told), n)], w, p, l, f)
<1> DEFINE u == UpTo(Len(f.told), n)
           o == c.out \o u
           d == [c EXCEPT !.out = @ \o UpTo(Len(f.told), n)]
           m == [i \in 1..n |-> Len(f.told) + i]
<1>1. /\ c \in Conns /\ w \in Wires /\ p \in Peers /\ k \in InCalls /\ f \in Flows
      /\ f.broken = FALSE /\ c.side # "none" /\ AlertsLast(c, w, p)
      /\ Incoming(c, w, f) = Count(p.sent) /\ Outgoing(c, w, p) = Count(Len(f.told) + Pending(k))
      /\ p.state = "idle" => w.inn = <<>>
      /\ f.end = "clean" => p.notify = TRUE /\ f.handed = Count(p.sent)
  BY DEF Consistent, Incoming, Outgoing
<1>2. Len(f.told) \in Nat /\ c.out \in Seq(Records) /\ p.got \in Seq(Nat) /\ w.out \in Seq(Records)
  BY <1>1, ConnFields, FlowFields, PeerFields, WireFields
<1>3. u \in Seq(Records) /\ Units(u) = m
  BY <1>2, UnitsUpTo
<1>4. m \in Seq(Nat) /\ Count(Len(f.told)) \o m = Count(Len(f.told) + n)
  BY <1>2, Counting
<1>5. d = [c EXCEPT !.out = o]
  OBVIOUS
<1> HIDE DEF u, m
<1>6. o \in Seq(Records) /\ Units(o) = Units(c.out) \o m
  BY <1>2, <1>3, ConcatProperties, UnitsConcat
<1> HIDE DEF d, o
<1>7. d \in Conns /\ d.plain = c.plain /\ d.side = c.side /\ d.out = o /\ d.notify = c.notify
  BY <1>1, <1>5, <1>6 DEF Conns
<1>8. Pending(k) = 0 /\ Pending(l) = n /\ Len(f.told) + 0 = Len(f.told)
  BY <1>2 DEF Pending
<1>9. Outgoing(d, w, p) = Count(Len(f.told) + Pending(l))
  <2>1. Units(c.out) \in Seq(Nat) /\ Units(w.out) \in Seq(Nat)
    BY <1>2, UnitsOf
  <2>2. Joined(Joined(Joined(p.got, Units(w.out)), Units(c.out)), m) = Joined(Joined(p.got, Units(w.out)), Joined(Units(c.out), m))
    BY <1>2, <1>4, <2>1, JoinsTwice
  <2>3. Joined(Joined(p.got, Units(w.out)), Units(c.out)) = Count(Len(f.told))
    BY <1>1, <1>8 DEF Outgoing, Joined
  <2>4. Outgoing(d, w, p) = Joined(Joined(p.got, Units(w.out)), Joined(Units(c.out), m))
    BY <1>6, <1>7 DEF Outgoing, Joined
  <2>5. Outgoing(d, w, p) = Joined(Count(Len(f.told)), m)
    BY <2>2, <2>3, <2>4
  <2> QED
    BY <1>4, <1>8, <2>5 DEF Joined
<1>10. AlertsLast(d, w, p)
  BY <1>1, <1>7 DEF AlertsLast
<1>11. Consistent(d, w, p, l, f)
  BY <1>1, <1>7, <1>9, <1>10 DEF Consistent, Outgoing, Incoming
<1> QED
  BY <1>11 DEF d

\* The workload is told how much was taken.
LEMMA WriteTold ==
    ASSUME NEW c, NEW w, NEW p, NEW k, NEW f, Consistent(c, w, p, k, f), k.op = "write", k.phase = 2,
           NEW g, g = [f EXCEPT !.told = @ \o [i \in 1..k.units |-> Len(@) + i]]
    PROVE  Consistent(c, w, p, NoCall, g)
<1> DEFINE m == [i \in 1..k.units |-> Len(f.told) + i]
           t == f.told \o m
<1>1. c \in Conns /\ w \in Wires /\ p \in Peers /\ k \in InCalls /\ f \in Flows
  BY DEF Consistent
<1>2. f.told \in Seq(Nat) /\ Len(f.told) \in Nat /\ k.units \in Nat
  BY <1>1, FlowFields, CallFields
<1>3. m \in Seq(Nat) /\ Len(m) = k.units
  BY <1>2, Counting
<1>4. g = [f EXCEPT !.told = t]
  OBVIOUS
<1> HIDE DEF m
<1>5. t \in Seq(Nat) /\ Len(t) = Len(f.told) + k.units
  <2>1. t \in Seq(Nat) /\ Len(t) = Len(f.told) + Len(m)
    BY <1>2, <1>3, ConcatProperties
  <2> HIDE DEF t
  <2> QED
    BY <1>3, <2>1
<1> HIDE DEF t
<1>6. g \in Flows /\ g.told = t /\ g.handed = f.handed /\ g.end = f.end /\ g.broken = f.broken
  BY <1>1, <1>4, <1>5 DEF Flows
<1>7. Len(g.told) + Pending(NoCall) = Len(f.told) + Pending(k)
  BY <1>2, <1>5, <1>6, CallEnds DEF Pending
<1> QED
  BY <1>1, <1>6, <1>7, CallEnds DEF Consistent

\* Flags, and what else leaves the data where it is.
LEMMA FlagsKeep ==
    ASSUME NEW c, NEW w, NEW p, NEW k, NEW f, Consistent(c, w, p, k, f), NEW b \in BOOLEAN
    PROVE  /\ Consistent(c, w, p, k, [f EXCEPT !.nonblock = b])
           /\ c.side # "none" => Consistent([c EXCEPT !.eof = TRUE], w, p, k, f)
           /\ Consistent(c, w, [p EXCEPT !.state = "closed"], k, f)
<1>1. c \in Conns /\ w \in Wires /\ p \in Peers /\ k \in InCalls /\ f \in Flows
  BY DEF Consistent
<1>2. Consistent(c, w, p, k, [f EXCEPT !.nonblock = b])
  <2> DEFINE g == [f EXCEPT !.nonblock = b]
  <2>1. g \in Flows /\ g.told = f.told /\ g.handed = f.handed /\ g.end = f.end /\ g.broken = f.broken
    BY <1>1 DEF Flows
  <2> HIDE DEF g
  <2>2. Consistent(c, w, p, k, g)
    BY <2>1 DEF Consistent
  <2> QED
    BY <2>2 DEF g
<1>3. ASSUME c.side # "none" PROVE Consistent([c EXCEPT !.eof = TRUE], w, p, k, f)
  <2> DEFINE d == [c EXCEPT !.eof = TRUE]
  <2>1. d \in Conns /\ d.plain = c.plain /\ d.side = c.side /\ d.out = c.out /\ d.notify = c.notify
    BY <1>1 DEF Conns
  <2> HIDE DEF d
  <2>2. AlertsLast(d, w, p)
    BY <2>1 DEF Consistent, AlertsLast
  <2>3. Consistent(d, w, p, k, f)
    BY <1>3, <2>1, <2>2 DEF Consistent
  <2> QED
    BY <2>3 DEF d
<1>4. Consistent(c, w, [p EXCEPT !.state = "closed"], k, f)
  <2> DEFINE q == [p EXCEPT !.state = "closed"]
  <2>1. q \in Peers /\ q.state = "closed" /\ q.sent = p.sent /\ q.got = p.got /\ q.notify = p.notify
    BY <1>1 DEF Peers
  <2> HIDE DEF q
  <2>2. AlertsLast(c, w, q)
    BY <2>1 DEF Consistent, AlertsLast
  <2>3. Consistent(c, w, q, k, f)
    BY <2>1, <2>2 DEF Consistent
  <2> QED
    BY <2>3 DEF q
<1> QED
  BY <1>2, <1>3, <1>4

\* A connection is made.
LEMMA ConnectKeeps ==
    ASSUME NEW c, NEW w, NEW p, NEW k, NEW f, Consistent(c, w, p, k, f), c.side = "none", f.broken = FALSE, k = NoCall,
           NEW d \in Conns, d.side # "none", d.plain = <<>>, d.notify = FALSE, Units(d.out) = <<>>,
           NEW q \in Peers, q.sent = p.sent, q.got = p.got, q.notify = p.notify, q.state = "open",
           NEW l \in InCalls, l.op \in {"connect", "accept"}
    PROVE  Consistent(d, w, q, l, f)
<1>1. c = NoConn /\ w \in Wires /\ p \in Peers /\ f \in Flows /\ AlertsLast(c, w, p)
  BY DEF Consistent
<1>2. c.plain = <<>> /\ Units(c.out) = <<>>
  BY <1>1, NoConnIs
<1>3. AlertsLast(d, w, q)
  BY <1>1 DEF AlertsLast
<1>4. Pending(l) = 0 /\ Pending(k) = 0
  BY CallEnds DEF Pending
<1> QED
  BY <1>1, <1>2, <1>3, <1>4 DEF Consistent

\* The peer opens a connection.
LEMMA PeerOpens ==
    ASSUME NEW c, NEW w, NEW p, NEW k, NEW f, Consistent(c, w, p, k, f), p.state = "idle", c.side = "none"
    PROVE  Consistent(c, [w EXCEPT !.inn = <<Record("hello")>>], [p EXCEPT !.state = "open"], k, f)
<1> DEFINE s == <<Record("hello")>>
           v == [w EXCEPT !.inn = s]
           q == [p EXCEPT !.state = "open"]
<1>1. c = NoConn /\ c \in Conns /\ w \in Wires /\ p \in Peers /\ w.inn = <<>> /\ k \in InCalls /\ f \in Flows
  BY DEF Consistent
<1>2. Record("hello") \in Records /\ Record("hello").kind = "hello"
  BY DEF Record, Records
<1>3. s \in Seq(Records) /\ Len(s) = 1 /\ s[1].kind = "hello"
  BY <1>2
<1> HIDE DEF s
<1>4. \A i \in 1..Len(s) : s[i].kind = "hello"
  <2>1. \A i \in 1..Len(s) : i = 1
    BY <1>3
  <2> QED
    BY <1>3, <2>1
<1>5. Units(s) = <<>> /\ Units(w.inn) = <<>>
  <2>1. Units(s) = <<>>
    BY <1>3, <1>4, NoUnits
  <2> QED
    BY <1>1, <2>1, UnitsOf
<1>6. v \in Wires /\ v.inn = s /\ v.out = w.out
  BY <1>1, <1>3 DEF Wires
<1>7. q \in Peers /\ q.state = "open" /\ q.sent = p.sent /\ q.got = p.got /\ q.notify = p.notify
  BY <1>1 DEF Peers
<1> HIDE DEF v, q
<1>8. AlertsLast(c, v, q)
  <2>1. c.notify = FALSE
    BY <1>1, NoConnIs
  <2> QED
    BY <1>4, <1>6, <2>1 DEF AlertsLast
<1>9. Consistent(c, v, q, k, f)
  BY <1>1, <1>5, <1>6, <1>7, <1>8 DEF Consistent
<1> QED
  BY <1>9 DEF v, q, s

\* More records come in: a unit, or records that are none, while no alert was sent or with none among them.
LEMMA RecordsArrive ==
    ASSUME NEW c, NEW w, NEW p, NEW k, NEW f, Consistent(c, w, p, k, f), p.state # "idle",
           NEW r \in Seq(Records), NEW q \in Peers, q.state # "idle", q.got = p.got,
           (p.notify = FALSE /\ q.notify \in BOOLEAN /\ Len(r) = 1)
              \/ (q.notify = p.notify /\ \A i \in 1..Len(r) : r[i].kind # "notify" /\ r[i].kind # "data"),
           (\E i \in 1..Len(r) : r[i].kind = "notify") => q.notify = TRUE,
           Count(q.sent) = Count(p.sent) \o Units(r), q.sent # p.sent => p.notify = FALSE
    PROVE  Consistent(c, [w EXCEPT !.inn = @ \o r], q, k, f)
<1> DEFINE s == w.inn
           t == s \o r
           v == [w EXCEPT !.inn = @ \o r]
<1>1. /\ c \in Conns /\ w \in Wires /\ p \in Peers /\ k \in InCalls /\ f \in Flows
      /\ AlertsLast(c, w, p)
      /\ f.broken = FALSE => f.handed \o c.plain \o Units(w.inn) = Count(p.sent)
      /\ f.end = "clean" => p.notify = TRUE /\ f.handed = Count(p.sent)
  BY DEF Consistent
<1>2. s \in Seq(Records) /\ Len(s) \in Nat /\ Len(r) \in Nat /\ p.notify \in BOOLEAN
  BY <1>1, WireFields, PeerFields, LenProperties
<1>3. v = [w EXCEPT !.inn = t]
  OBVIOUS
<1> HIDE DEF v
<1>4. /\ t \in Seq(Records) /\ Len(t) = Len(s) + Len(r) /\ Units(t) = Units(s) \o Units(r)
      /\ \A i \in 1..Len(s) + Len(r) : t[i] = IF i <= Len(s) THEN s[i] ELSE r[i - Len(s)]
  BY <1>2, ConcatProperties, UnitsConcat
<1> HIDE DEF t
<1>5. v \in Wires /\ v.inn = t /\ v.out = w.out
  BY <1>1, <1>3, <1>4 DEF Wires
<1>6. \A i \in 1..Len(s) : s[i].kind = "notify" =>
          p.notify = TRUE /\ \A j \in i + 1..Len(s) : s[j].kind # "data"
  BY <1>1 DEF AlertsLast
<1>7. ASSUME NEW i \in 1..Len(t), t[i].kind = "notify"
      PROVE  q.notify = TRUE /\ \A j \in i + 1..Len(t) : t[j].kind # "data"
  <2>0. i \in 1..Len(s) + Len(r)
    BY <1>4
  <2>1. CASE i <= Len(s)
    <3>1. i \in 1..Len(s) /\ s[i].kind = "notify"
      BY <1>2, <1>4, <1>7, <2>0, <2>1
    <3>2. p.notify = TRUE /\ \A j \in i + 1..Len(s) : s[j].kind # "data"
      BY <1>6, <3>1
    <3>3. q.notify = TRUE /\ \A j \in 1..Len(r) : r[j].kind # "data"
      BY <3>2
    <3>4. ASSUME NEW j \in i + 1..Len(t) PROVE t[j].kind # "data"
      <4>0. j \in 1..Len(s) + Len(r)
        BY <1>2, <1>4, <2>0
      <4>1. CASE j <= Len(s)
        <5>1. j \in i + 1..Len(s)
          BY <1>2, <2>0, <4>0, <4>1
        <5> QED
          BY <1>4, <3>2, <4>0, <4>1, <5>1
      <4>2. CASE ~(j <= Len(s))
        <5>1. j - Len(s) \in 1..Len(r)
          BY <1>2, <4>0, <4>2
        <5> QED
          BY <1>4, <3>3, <4>0, <4>2, <5>1
      <4> QED
        BY <4>1, <4>2
    <3> QED
      BY <3>3, <3>4
  <2>2. CASE ~(i <= Len(s))
    <3>1. i - Len(s) \in 1..Len(r) /\ r[i - Len(s)].kind = "notify"
      <4>1. i - Len(s) \in 1..Len(r)
        BY <1>2, <2>0, <2>2
      <4>2. t[i] = r[i - Len(s)]
        BY <1>4, <2>0, <2>2
      <4> QED
        BY <1>7, <4>1, <4>2
    <3>2. Len(r) = 1 /\ q.notify = TRUE
      BY <3>1
    <3>3. Len(t) = Len(s) + 1 /\ i = Len(s) + 1
      BY <1>2, <1>4, <2>0, <2>2, <3>2
    <3>4. \A l \in Nat : \A j \in (l + 1) + 1..l + 1 : FALSE
      OBVIOUS
    <3> QED
      BY <1>2, <3>2, <3>3, <3>4
  <2> QED
    BY <2>1, <2>2
<1>8. AlertsLast(c, v, q)
  <2>1. ASSUME c.notify = TRUE PROVE q.notify = TRUE /\ Units(t) = <<>>
    <3>1. p.notify = TRUE /\ Units(s) = <<>>
      BY <1>1, <2>1 DEF AlertsLast
    <3>2. q.notify = TRUE /\ \A i \in 1..Len(r) : r[i].kind # "data"
      BY <3>1
    <3>3. Units(r) = <<>>
      BY <3>2, NoUnits
    <3>4. <<>> \o <<>> = <<>>
      OBVIOUS
    <3> QED
      BY <1>4, <3>1, <3>2, <3>3, <3>4
  <2> QED
    BY <1>5, <1>7, <2>1 DEF AlertsLast
<1>9. ASSUME f.broken = FALSE PROVE f.handed \o c.plain \o Units(t) = Count(q.sent)
  <2>1. f.handed \in Seq(Nat) /\ c.plain \in Seq(Nat) /\ Units(s) \in Seq(Nat) /\ Units(r) \in Seq(Nat)
    BY <1>1, <1>2, FlowFields, ConnFields, UnitsOf
  <2>2. Joined(Joined(Joined(f.handed, c.plain), Units(s)), Units(r)) = Joined(Joined(f.handed, c.plain), Joined(Units(s), Units(r)))
    BY <2>1, JoinsTwice
  <2>3. Joined(Joined(f.handed, c.plain), Units(s)) = Count(p.sent)
    BY <1>1, <1>9 DEF Joined
  <2> QED
    BY <1>4, <2>2, <2>3 DEF Joined
<1>10. f.end = "clean" => q.notify = TRUE /\ f.handed = Count(q.sent)
  BY <1>1
<1>11. Consistent(c, v, q, k, f)
  BY <1>1, <1>5, <1>8, <1>9, <1>10 DEF Consistent
<1> QED
  BY <1>11 DEF v

\* The peer takes a record.
LEMMA RecordTaken ==
    ASSUME NEW c, NEW w, NEW p, NEW k, NEW f, Consistent(c, w, p, k, f), w.out # <<>>,
           NEW q \in Peers, q.state = p.state, q.sent = p.sent, q.notify = p.notify,
           q.got = IF Head(w.out).kind = "data" THEN Append(p.got, Head(w.out).unit) ELSE p.got
    PROVE  Consistent(c, [w EXCEPT !.out = Tail(@)], q, k, f)
<1> DEFINE s == w.out
           h == Head(s)
           t == Tail(s)
           v == [w EXCEPT !.out = Tail(@)]
<1>1. c \in Conns /\ w \in Wires /\ p \in Peers /\ k \in InCalls /\ f \in Flows /\ AlertsLast(c, w, p)
  BY DEF Consistent
<1>2. s \in Seq(Records) /\ s # <<>> /\ p.got \in Seq(Nat) /\ c.out \in Seq(Records)
  BY <1>1, WireFields, PeerFields, ConnFields
<1>3. v = [w EXCEPT !.out = t]
  OBVIOUS
<1> HIDE DEF s, v
<1>4. h \in Records /\ t \in Seq(Records)
  BY <1>2, HeadTailProperties
<1>5. Units(s) = Units(<<h>>) \o Units(t)
  <2>1. <<h>> \in Seq(Records)
    BY <1>4
  <2>2. <<h>> \o t = s
    BY <1>2
  <2>3. Units(<<h>> \o t) = Units(<<h>>) \o Units(t)
    BY <1>4, <2>1, UnitsConcat
  <2> QED
    BY <2>2, <2>3
<1>6. Units(<<h>>) = IF h.kind = "data" THEN <<h.unit>> ELSE <<>>
  <2>1. <<h>> = Append(<<>>, h) /\ <<>> \in Seq(Records)
    OBVIOUS
  <2>2. Units(<<h>>) = IF h.kind = "data" THEN Append(<<>>, h.unit) ELSE <<>>
    BY <1>4, <2>1, UnitsOf
  <2> QED
    BY <2>2
<1>7. h.unit \in Nat
  BY <1>4 DEF Records
<1> HIDE DEF h, t
<1>8. v \in Wires /\ v.out = t /\ v.inn = w.inn
  BY <1>1, <1>3, <1>4 DEF Wires
<1>9. q.got = Joined(p.got, Units(<<h>>))
  <2>1. CASE h.kind = "data"
    <3>1. q.got = Append(p.got, h.unit)
      BY <2>1 DEF h, s
    <3>2. Append(p.got, h.unit) = p.got \o <<h.unit>>
      BY <1>2, <1>7, AppendIsConcat
    <3> QED
      BY <1>6, <2>1, <3>1, <3>2 DEF Joined
  <2>2. CASE h.kind # "data"
    <3>1. q.got = p.got
      BY <2>2 DEF h, s
    <3>2. Joined(p.got, <<>>) = p.got
      BY <1>2, Joins
    <3> QED
      BY <1>6, <2>2, <3>1, <3>2
  <2> QED
    BY <2>1, <2>2
<1>10. Outgoing(c, v, q) = Outgoing(c, w, p)
  <2>1. Units(<<h>>) \in Seq(Nat) /\ Units(t) \in Seq(Nat) /\ Units(c.out) \in Seq(Nat)
    <3>1. <<h>> \in Seq(Records)
      BY <1>4
    <3> QED
      BY <1>2, <1>4, <3>1, UnitsOf
  <2>2. Joined(Joined(p.got, Units(<<h>>)), Units(t)) = Joined(p.got, Joined(Units(<<h>>), Units(t)))
    <3>1. \A a, m, z \in Seq(Nat) : Joined(Joined(a, m), z) = Joined(a, Joined(m, z))
      BY Joins
    <3> QED
      BY <1>2, <2>1, <3>1
  <2> QED
    BY <1>5, <1>8, <1>9, <2>2 DEF Outgoing, Joined, s
<1>11. AlertsLast(c, v, q)
  BY <1>1, <1>8 DEF AlertsLast
<1>12. Consistent(c, v, q, k, f)
  BY <1>1, <1>8, <1>10, <1>11 DEF Consistent, Outgoing
<1> QED
  BY <1>12 DEF v

LEMMA StreamInit == TlsInit => StreamInv
<1> SUFFICES ASSUME TlsInit PROVE Consistent(conn, wire, peer, call, flow)
  BY DEF StreamInv
<1>1. /\ conn = NoConn /\ call = NoCall
      /\ wire = [out |-> <<>>, inn |-> <<>>]
      /\ peer = [state |-> "idle", traffic |-> FALSE, sent |-> 0, got |-> <<>>, notify |-> FALSE]
      /\ flow = [told |-> <<>>, handed |-> <<>>, end |-> "no", broken |-> FALSE, nonblock |-> FALSE]
  BY DEF TlsInit
<1>2. <<>> \in Seq(Records) /\ <<>> \in Seq(Nat)
  OBVIOUS
<1>3. wire \in Wires /\ wire.out = <<>> /\ wire.inn = <<>>
  BY <1>1, <1>2 DEF Wires
<1>4. peer \in Peers /\ peer.got = <<>> /\ peer.sent = 0
  BY <1>1, <1>2 DEF Peers
<1>5. flow \in Flows /\ flow.told = <<>> /\ flow.handed = <<>> /\ flow.end = "no"
  BY <1>1, <1>2 DEF Flows
<1>6. AlertsLast(conn, wire, peer)
  BY <1>1, <1>3, NoConnIs DEF AlertsLast
<1>7. /\ peer.got \o Units(wire.out) \o Units(conn.out) = Count(Len(flow.told) + Pending(call))
      /\ flow.handed \o conn.plain \o Units(wire.inn) = Count(peer.sent)
  <2>1. Count(0) = <<>> /\ Len(<<>>) = 0 /\ <<>> \o <<>> = <<>> /\ 0 + 0 = 0
    BY Counting
  <2>2. Units(wire.out) = <<>> /\ Units(wire.inn) = <<>> /\ Units(conn.out) = <<>> /\ conn.plain = <<>>
    BY <1>1, <1>3, NoConnIs, UnitsOf
  <2>3. Pending(call) = 0
    BY <1>1, CallEnds
  <2> QED
    BY <1>4, <1>5, <2>1, <2>2, <2>3
<1> QED
  BY <1>1, <1>3, <1>4, <1>5, <1>6, <1>7, NoConnIs, CallEnds DEF Consistent

\* The end of complete_io_async, whichever call it was for.
LEMMA CompletedKeeps ==
    ASSUME NEW c, NEW w, Consistent(c, w, peer, call, flow), call.op # "none",
           Completed(c), wire' = w, peer' = peer
    PROVE  StreamInv'
<1>0. /\ c \in Conns /\ w \in Wires /\ peer \in Peers /\ call \in InCalls /\ flow \in Flows /\ c.side # "none"
      /\ flow.broken = FALSE
  BY DEF Consistent
<1>1. /\ call.op \in {"none", "connect", "accept", "read", "write"} /\ call.phase \in {1, 2} /\ call.units \in Nat
      /\ call.nonblock \in BOOLEAN
  BY <1>0, CallFields
<1>2. CASE call.op = "read"
  <2>1. ReadDone(c)
    BY <1>2 DEF Completed
  <2> DEFINE n == Min({call.units, Len(c.plain)})
             b == flow.broken \/ (n = 0 /\ ~c.notify /\ c.eof)
             g == [flow EXCEPT !.handed = @ \o SubSeq(c.plain, 1, n),
                               !.end = IF n = 0 /\ c.notify THEN "clean" ELSE @,
                               !.broken = @ \/ (n = 0 /\ ~c.notify /\ c.eof)]
  <2>2. conn' = ReadFrom(c, n) /\ flow' = g /\ call' = NoCall
    BY <2>1 DEF ReadDone, Ends, ReadFrom
  <2>3. b \in BOOLEAN
    BY DEF b
  <2> HIDE DEF n
  <2>4. g = HandedOver(flow, c, n, b)
    BY DEF HandedOver
  <2> HIDE DEF b, g
  <2>5. Consistent(ReadFrom(c, n), w, peer, NoCall, HandedOver(flow, c, n, b))
    <3>1. n = Min({call.units, Len(c.plain)})
      BY DEF n
    <3> QED
      BY <1>2, <2>3, <3>1, ReadTakes
  <2> QED
    BY <2>2, <2>4, <2>5 DEF StreamInv
<1>3. CASE call.op = "write" /\ call.phase = 1
  <2>1. WriteTaken(c)
    BY <1>3 DEF Completed
  <2> DEFINE n == Min({call.units, Limit - Min({Limit, Len(c.out)})})
             l == [call EXCEPT !.at = "write", !.phase = 2, !.until = FALSE, !.wrote = FALSE, !.units = n]
  <2>2. conn' = [c EXCEPT !.out = @ \o UpTo(Len(flow.told), n)] /\ flow' = flow /\ call' = l
    BY <2>1 DEF WriteTaken, Within
  <2>3. n \in Nat
    <3>1. Limit \in Nat /\ Len(c.out) \in Nat
      BY <1>0, ConnFields, LenProperties, TlsAssumption DEF TlsAssumption
    <3> DEFINE m == Min({Limit, Len(c.out)})
    <3>2. m = IF Limit <= Len(c.out) THEN Limit ELSE Len(c.out)
      BY <3>1, MinOfTwo
    <3> HIDE DEF m
    <3>3. \A x, y \in Nat : \A z : z = (IF x <= y THEN x ELSE y) => x - z \in Nat /\ x - z \in Int
      OBVIOUS
    <3>4. Limit - m \in Nat
      BY <3>1, <3>2, <3>3
    <3>5. n = IF call.units <= Limit - m THEN call.units ELSE Limit - m
      <4>1. PICK z \in Nat : z = Limit - m
        BY <3>4
      <4>2. Min({call.units, z}) = IF call.units <= z THEN call.units ELSE z
        BY <1>1, <4>1, MinOfTwo
      <4> QED
        BY <4>1, <4>2 DEF m
    <3> HIDE DEF n
    <3> QED
      BY <1>1, <3>4, <3>5
  <2> HIDE DEF n
  <2>4. l \in InCalls /\ l.op = "write" /\ l.phase = 2 /\ l.units = n
    BY <1>0, <1>3, <2>3 DEF InCalls
  <2> HIDE DEF l
  <2>5. Consistent([c EXCEPT !.out = @ \o UpTo(Len(flow.told), n)], w, peer, l, flow)
    BY <1>3, <2>3, <2>4, WriteTakes
  <2> QED
    BY <2>2, <2>5 DEF StreamInv
<1>4. CASE call.op = "write" /\ call.phase = 2
  <2>1. Written(c)
    BY <1>4 DEF Completed
  <2>2. /\ conn' = c /\ call' = NoCall
        /\ flow' = [flow EXCEPT !.told = @ \o [i \in 1..call.units |-> Len(@) + i]]
    BY <2>1 DEF Written, Ends
  <2>3. Consistent(c, w, peer, NoCall, flow')
    BY <1>4, <2>2, WriteTold
  <2> QED
    BY <2>2, <2>3 DEF StreamInv
<1>5. CASE call.op \in {"connect", "accept"}
  <2>1. Opened(c)
    BY <1>5 DEF Completed
  <2>2. conn' = c /\ call' = NoCall /\ flow' = [flow EXCEPT !.nonblock = call.nonblock]
    BY <2>1 DEF Opened, Ends
  <2>3. Pending(call) = 0
    BY <1>5 DEF Pending
  <2>4. Consistent(c, w, peer, NoCall, flow)
    BY <2>3, CallEnds, CallChanges
  <2>5. Consistent(c, w, peer, NoCall, [flow EXCEPT !.nonblock = call.nonblock])
    BY <1>1, <2>4, FlagsKeep
  <2> QED
    BY <2>2, <2>5 DEF StreamInv
<1> QED
  BY <1>1, <1>2, <1>3, <1>4, <1>5

LEMMA ErrsKeep ==
    ASSUME StreamInv, Errs, peer' = peer,
           wire' = wire \/ (conn.notify = FALSE /\ \E n \in 1..Len(wire.inn) : wire' = Rest(wire, n))
    PROVE  StreamInv'
<1>1. /\ call' = NoCall /\ flow' = [flow EXCEPT !.broken = TRUE]
      /\ conn' = conn \/ conn' = NoConn
  BY DEF Errs, Ends
<1>2. Consistent(conn, wire, peer, call, flow)
  BY DEF StreamInv
<1>3. Consistent(conn', wire', peer, NoCall, [flow EXCEPT !.broken = TRUE])
  BY <1>1, <1>2, ErrorKeeps
<1> QED
  BY <1>1, <1>3 DEF StreamInv

LEMMA MatchedKeeps ==
    ASSUME StreamInv, NEW c, NEW w, Consistent(c, w, peer, call, flow), call.op # "none",
           Matched(c), wire' = w, peer' = peer,
           w = wire \/ (conn.notify = FALSE /\ \E n \in 1..Len(wire.inn) : w = Rest(wire, n))
    PROVE  StreamInv'
<1>1. CASE Completed(c)
  BY <1>1, CompletedKeeps
<1>2. CASE Errs
  BY <1>2, ErrsKeep
<1>3. CASE conn' = c /\ call' = [call EXCEPT !.at = "write"] /\ UNCHANGED flow
  <2> DEFINE l == [call EXCEPT !.at = "write"]
  <2>1. call \in InCalls
    BY DEF Consistent
  <2>2. l \in InCalls /\ l.op = call.op /\ l.units = call.units /\ l.phase = call.phase
    BY <2>1 DEF InCalls
  <2> HIDE DEF l
  <2>3. Consistent(c, w, peer, l, flow)
    BY <2>2, CallMoves
  <2> QED
    BY <1>3, <2>3 DEF StreamInv, l
<1> QED
  BY <1>1, <1>2, <1>3 DEF Matched

LEMMA IoKeepsStream ==
    ASSUME StreamInv, IoStep
    PROVE  StreamInv'
<1>0. Consistent(conn, wire, peer, call, flow)
  BY DEF StreamInv
<1>a. /\ conn \in Conns /\ wire \in Wires /\ call \in InCalls
      /\ call.op # "none" => conn.side # "none"
  BY <1>0 DEF Consistent
<1>b. conn.out \in Seq(Records) /\ Len(conn.out) \in Nat /\ Len(wire.out) \in Nat /\ Len(wire.inn) \in Nat
  BY <1>a, ConnFields, WireFields, LenProperties
<1>c. SockBuf \in Nat
  BY TlsAssumption DEF TlsAssumption
<1>1. CASE IoWrite
  <2>1. PICK n \in 1..Min({Len(conn.out), Room}) :
            /\ wire' = [wire EXCEPT !.out = @ \o SubSeq(conn.out, 1, n)]
            /\ conn' = [conn EXCEPT !.out = SubSeq(@, n + 1, Len(@))]
    BY <1>1 DEF IoWrite
  <2>2. call' = [call EXCEPT !.wrote = TRUE] /\ peer' = peer /\ flow' = flow
    BY <1>1 DEF IoWrite
  <2>3. n \in 1..Len(conn.out)
    <3>1. Room \in Int
      BY <1>b, <1>c DEF Room
    <3>2. Min({Len(conn.out), Room}) = IF Len(conn.out) <= Room THEN Len(conn.out) ELSE Room
      BY <1>b, <3>1, MinOfTwo
    <3> QED
      BY <1>b, <2>1, <3>1, <3>2
  <2> DEFINE l == [call EXCEPT !.wrote = TRUE]
  <2>4. l \in InCalls /\ l.op = call.op /\ l.units = call.units /\ l.phase = call.phase
    BY <1>a DEF InCalls
  <2> HIDE DEF l
  <2>5. Consistent(conn', wire', peer, call, flow)
    BY <1>0, <2>1, <2>3, WriteMoves
  <2>6. Consistent(conn', wire', peer, l, flow)
    BY <2>4, <2>5, CallMoves
  <2> QED
    BY <2>2, <2>6 DEF StreamInv, l
<1>2. CASE IoFails
  <2>1. Errs /\ wire' = wire /\ peer' = peer
    BY <1>2 DEF IoFails
  <2> QED
    BY <2>1, ErrsKeep
<1>3. CASE IoWritten
  <2>1. call.op # "none" /\ wire' = wire /\ peer' = peer
    BY <1>3 DEF IoWritten, InIo
  <2>2. CASE Completed(conn)
    BY <1>0, <2>1, <2>2, CompletedKeeps
  <2>3. CASE call' = [call EXCEPT !.at = "read"] /\ UNCHANGED <<conn, flow>>
    <3> DEFINE l == [call EXCEPT !.at = "read"]
    <3>1. l \in InCalls /\ l.op = call.op /\ l.units = call.units /\ l.phase = call.phase
      BY <1>a DEF InCalls
    <3> HIDE DEF l
    <3>2. Consistent(conn, wire, peer, l, flow)
      BY <1>0, <3>1, CallMoves
    <3> QED
      BY <2>1, <2>3, <3>2 DEF StreamInv, l
  <2> QED
    BY <1>3, <2>2, <2>3 DEF IoWritten
<1>4. CASE IoRead
  <2>1. call.op # "none" /\ peer' = peer /\ conn.side # "none"
    BY <1>a, <1>4 DEF IoRead, InIo
  <2>2. conn.notify = FALSE
    <3>1. conn.notify \in BOOLEAN
      BY <1>a, ConnFields
    <3> QED
      BY <1>4, <3>1 DEF IoRead, WantsRead
  <2>3. PICK n \in 1..Len(wire.inn) :
            /\ wire' = Rest(wire, n)
            /\ IF Damaged(SubSeq(wire.inn, 1, n)) THEN Errs ELSE Matched(ProcessedAll(conn, SubSeq(wire.inn, 1, n)))
    BY <1>4 DEF IoRead, Rest
  <2>4. CASE Errs
    BY <2>1, <2>2, <2>3, <2>4, ErrsKeep
  <2>5. CASE Matched(ProcessedAll(conn, SubSeq(wire.inn, 1, n)))
    <3> DEFINE c == ProcessedAll(conn, SubSeq(wire.inn, 1, n))
    <3>1. Consistent(c, Rest(wire, n), peer, call, flow)
      BY <1>0, <2>1, <2>2, ReadMoves
    <3> HIDE DEF c
    <3> QED
      BY <2>1, <2>2, <2>3, <2>5, <3>1, MatchedKeeps DEF c
  <2> QED
    BY <2>3, <2>4, <2>5
<1>5. CASE IoReadEof
  <2>1. call.op # "none" /\ wire' = wire /\ peer' = peer /\ Matched([conn EXCEPT !.eof = TRUE])
    BY <1>5 DEF IoReadEof, InIo
  <2> DEFINE c == [conn EXCEPT !.eof = TRUE]
  <2>2. Consistent(c, wire, peer, call, flow)
    BY <1>0, <1>a, <2>1, FlagsKeep
  <2> HIDE DEF c
  <2> QED
    BY <2>1, <2>2, MatchedKeeps DEF c
<1>6. CASE IoReadBlocks
  <2>1. call.op # "none" /\ wire' = wire /\ peer' = peer /\ Completed(conn)
    BY <1>6 DEF IoReadBlocks, InIo
  <2> QED
    BY <1>0, <2>1, CompletedKeeps
<1>7. CASE IoReadNothing
  <2>1. call.op # "none" /\ wire' = wire /\ peer' = peer /\ Matched(conn)
    BY <1>7 DEF IoReadNothing, InIo
  <2> QED
    BY <1>0, <2>1, MatchedKeeps
<1> QED
  BY <1>1, <1>2, <1>3, <1>4, <1>5, <1>6, <1>7 DEF IoStep

\* A call of the workload begins.
NewCall(op, n, b, u) == [NoCall EXCEPT !.op = op, !.units = n, !.nonblock = b, !.until = u]

LEMMA CallIs ==
    ASSUME NEW op \in {"connect", "accept", "read", "write"}, NEW n \in Nat, NEW b \in BOOLEAN, NEW u \in BOOLEAN
    PROVE  /\ NewCall(op, n, b, u) \in InCalls /\ NewCall(op, n, b, u).op = op
           /\ NewCall(op, n, b, u).units = n /\ Pending(NewCall(op, n, b, u)) = 0
<1> DEFINE l == NewCall(op, n, b, u)
<1>1. NoCall \in InCalls /\ NoCall.phase = 1
  BY CallEnds DEF NoCall
<1>2. l \in InCalls /\ l.op = op /\ l.units = n /\ l.phase = NoCall.phase
  BY <1>1 DEF InCalls, NewCall
<1> HIDE DEF l
<1>3. Pending(l) = 0
  BY <1>1, <1>2 DEF Pending
<1> QED
  BY <1>2, <1>3 DEF l

LEMMA ConnectKeepsStream ==
    ASSUME StreamInv, ConnectTls
    PROVE  StreamInv'
<1> DEFINE d == [NoConn EXCEPT !.side = "client", !.out = <<Record("hello")>>]
           q == [peer EXCEPT !.state = "open"]
           u == ~conn'.traffic
<1>1. Consistent(conn, wire, peer, call, flow) /\ peer \in Peers /\ flow \in Flows
  BY DEF StreamInv, Consistent
<1>2. /\ conn.side = "none" /\ flow.broken = FALSE /\ call = NoCall
      /\ conn' = d /\ peer' = q /\ wire' = wire /\ flow' = flow
      /\ call' = NewCall("connect", 0, FALSE, u)
  <2>1. flow.broken \in BOOLEAN
    BY <1>1, FlowFields
  <2> QED
    BY <2>1 DEF ConnectTls, Calls, NewCall
<1>3. <<Record("hello")>> \in Seq(Records) /\ Units(<<Record("hello")>>) = <<>>
  <2>1. Record("hello") \in Records /\ Record("hello").kind # "data"
    BY DEF Record, Records
  <2>2. <<Record("hello")>> = Append(<<>>, Record("hello")) /\ <<>> \in Seq(Records)
    OBVIOUS
  <2>3. Append(<<>>, Record("hello")) \in Seq(Records)
    BY <2>1, <2>2, AppendProperties
  <2>4. Units(Append(<<>>, Record("hello"))) = <<>>
    BY <2>1, <2>2, UnitsOf
  <2> QED
    BY <2>2, <2>3, <2>4
<1>4. /\ d \in Conns /\ d.side = "client" /\ d.plain = NoConn.plain /\ d.notify = NoConn.notify
      /\ d.out = <<Record("hello")>>
  <2>1. PICK x \in Seq(Records) : x = <<Record("hello")>>
    BY <1>3
  <2>2. d = [NoConn EXCEPT !.side = "client", !.out = x]
    BY <2>1
  <2> HIDE DEF d
  <2> QED
    BY <2>1, <2>2, NoConnIs DEF Conns
<1>5. q \in Peers /\ q.sent = peer.sent /\ q.got = peer.got /\ q.notify = peer.notify /\ q.state = "open"
  BY <1>1 DEF Peers
<1>6. u \in BOOLEAN
  OBVIOUS
<1> HIDE DEF d, q, u
<1>8. d.side # "none" /\ d.plain = <<>> /\ d.notify = FALSE /\ Units(d.out) = <<>>
  BY <1>3, <1>4, NoConnIs
<1>9. call' \in InCalls /\ call'.op = "connect"
  <2>1. PICK b \in BOOLEAN : b = FALSE
    OBVIOUS
  <2>2. call' = NewCall("connect", 0, b, u)
    BY <1>2, <2>1
  <2> QED
    BY <1>6, <2>1, <2>2, CallIs
<1>10. Consistent(d, wire, q, call', flow)
  BY <1>1, <1>2, <1>4, <1>5, <1>8, <1>9, ConnectKeeps
<1> QED
  BY <1>2, <1>10 DEF StreamInv

LEMMA AcceptKeepsStream ==
    ASSUME StreamInv, NEW b \in BOOLEAN, AcceptTls(b)
    PROVE  StreamInv'
<1> DEFINE d == [NoConn EXCEPT !.side = "server"]
           u == ~conn'.traffic
<1>1. Consistent(conn, wire, peer, call, flow) /\ peer \in Peers /\ flow \in Flows
  BY DEF StreamInv, Consistent
<1>2. /\ conn.side = "none" /\ flow.broken = FALSE /\ call = NoCall /\ peer.state = "open"
      /\ conn' = d /\ peer' = peer /\ wire' = wire /\ flow' = flow
      /\ call' = NewCall("accept", 0, b, u)
  <2>1. flow.broken \in BOOLEAN
    BY <1>1, FlowFields
  <2> QED
    BY <2>1 DEF AcceptTls, Calls, NewCall
<1>3. /\ d \in Conns /\ d.side = "server" /\ d.plain = NoConn.plain /\ d.notify = NoConn.notify
      /\ d.out = NoConn.out
  BY NoConnIs DEF Conns
<1>4. u \in BOOLEAN
  OBVIOUS
<1> HIDE DEF d, u
<1>6. d.side # "none" /\ d.plain = <<>> /\ d.notify = FALSE /\ Units(d.out) = <<>>
  BY <1>3, NoConnIs
<1>7. call' \in InCalls /\ call'.op = "accept"
  BY <1>2, <1>4, CallIs
<1>8. Consistent(d, wire, peer, call', flow)
  BY <1>1, <1>2, <1>3, <1>6, <1>7, ConnectKeeps
<1> QED
  BY <1>2, <1>8 DEF StreamInv

LEMMA UseKeepsStream ==
    ASSUME StreamInv, UseTls
    PROVE  StreamInv'
<1>1. /\ Consistent(conn, wire, peer, call, flow) /\ conn \in Conns /\ flow \in Flows
      /\ conn.side = "none" => conn = NoConn
  BY DEF StreamInv, Consistent
<1>2. ASSUME NEW n \in {1, 2}, NEW op \in {"read", "write"}, Usable, UNCHANGED conn, Calls(op, n, FALSE),
             UNCHANGED <<wire, peer, flow>>
      PROVE  StreamInv'
  <2> DEFINE u == ~conn'.traffic
  <2>1. call = NoCall /\ call' = NewCall(op, n, FALSE, u)
    BY <1>2 DEF Calls, NewCall
  <2>2. u \in BOOLEAN
    OBVIOUS
  <2> HIDE DEF u
  <2>3. call' \in InCalls /\ call'.op = op /\ call'.units = n /\ Pending(call') = 0 /\ n \in Nat /\ n > 0
    <3>1. PICK b \in BOOLEAN : b = FALSE
      OBVIOUS
    <3>2. call' = NewCall(op, n, b, u)
      BY <2>1, <3>1
    <3>3. n \in Nat /\ n > 0 /\ op \in {"connect", "accept", "read", "write"}
      BY <1>2
    <3> QED
      BY <2>2, <3>1, <3>2, <3>3, CallIs
  <2>4. flow.broken = FALSE /\ conn.side # "none"
    <3>1. flow.broken \in BOOLEAN
      BY <1>1, FlowFields
    <3> QED
      BY <1>1, <1>2, <3>1, NoConnIs DEF Usable
  <2>5. Pending(call) = 0
    BY <2>1, CallEnds
  <2>6. Consistent(conn, wire, peer, call', flow)
    BY <1>1, <2>3, <2>4, <2>5, CallChanges
  <2> QED
    BY <1>2, <2>6 DEF StreamInv
<1>3. ASSUME NEW b \in BOOLEAN, SetFdflags(b) PROVE StreamInv'
  <2>1. Consistent(conn, wire, peer, call, [flow EXCEPT !.nonblock = b])
    BY <1>1, FlagsKeep
  <2> QED
    BY <1>3, <2>1 DEF SetFdflags, StreamInv
<1>4. CASE \E n \in {1, 2} : Read(n) \/ Write(n)
  <2>1. PICK n \in {1, 2} : Read(n) \/ Write(n)
    BY <1>4
  <2>2. CASE Read(n)
    BY <1>2, <2>1, <2>2 DEF Read
  <2>3. CASE Write(n)
    BY <1>2, <2>1, <2>3 DEF Write
  <2> QED
    BY <2>1, <2>2, <2>3
<1>5. CASE \E b \in BOOLEAN : AcceptTls(b) \/ SetFdflags(b)
  BY <1>3, <1>5, AcceptKeepsStream
<1> QED
  BY <1>4, <1>5 DEF UseTls

LEMMA PeerKeepsStream ==
    ASSUME StreamInv, PeerStep \/ PeerConnects
    PROVE  StreamInv'
<1>0. Consistent(conn, wire, peer, call, flow)
  BY DEF StreamInv
<1>a. conn \in Conns /\ wire \in Wires /\ peer \in Peers
  BY <1>0 DEF Consistent
<1>b. wire.inn \in Seq(Records) /\ wire.out \in Seq(Records) /\ peer.sent \in Nat /\ peer.notify \in BOOLEAN
      /\ peer.got \in Seq(Nat) /\ peer.traffic \in BOOLEAN
  BY <1>a, WireFields, PeerFields
<1>c. Count(peer.sent) \in Seq(Nat) /\ Append(Count(peer.sent), peer.sent + 1) = Count(peer.sent + 1)
      /\ Count(peer.sent) \o <<>> = Count(peer.sent)
  <2>1. Count(peer.sent) \in Seq(Nat) /\ Append(Count(peer.sent), peer.sent + 1) = Count(peer.sent + 1)
    BY <1>b, Counting
  <2> QED
    BY <2>1, ConcatEmptySeq
<1>1. CASE PeerConnects
  <2>1. Consistent(conn, [wire EXCEPT !.inn = <<Record("hello")>>], [peer EXCEPT !.state = "open"], call, flow)
    BY <1>0, <1>1, PeerOpens DEF PeerConnects
  <2> QED
    BY <1>1, <2>1 DEF PeerConnects, StreamInv
<1>2. CASE PeerCloses
  <2>1. Consistent(conn, wire, [peer EXCEPT !.state = "closed"], call, flow)
    BY <1>0, FlagsKeep
  <2> QED
    BY <1>2, <2>1 DEF PeerCloses, StreamInv
<1>3. ASSUME NEW r \in Records, NEW q \in Peers, wire' = [wire EXCEPT !.inn = Append(@, r)], peer' = q,
             peer.state = "open", q.state = "open", q.got = peer.got, peer.notify = FALSE,
             r.kind = "notify" => q.notify = TRUE, UNCHANGED <<conn, call, flow>>,
             IF r.kind = "data" THEN r.unit = peer.sent + 1 /\ q.sent = peer.sent + 1 ELSE q.sent = peer.sent
      PROVE  StreamInv'
  <2> DEFINE s == <<r>>
  <2>1. s \in Seq(Records) /\ Len(s) = 1 /\ s[1] = r
    OBVIOUS
  <2>2. Units(s) = IF r.kind = "data" THEN <<r.unit>> ELSE <<>>
    <3>1. s = Append(<<>>, r) /\ <<>> \in Seq(Records) /\ Append(<<>>, r.unit) = <<r.unit>>
      OBVIOUS
    <3> QED
      BY <3>1, UnitsOf
  <2>3. Append(wire.inn, r) = wire.inn \o s
    BY <1>b, AppendIsConcat
  <2>4. Count(q.sent) = Count(peer.sent) \o Units(s)
    <3>1. CASE r.kind = "data"
      <4>1. Append(Count(peer.sent), peer.sent + 1) = Count(peer.sent) \o <<peer.sent + 1>>
        BY <1>b, <1>c, AppendIsConcat
      <4> QED
        BY <1>3, <1>c, <2>2, <3>1, <4>1
    <3>2. CASE r.kind # "data"
      BY <1>3, <1>c, <2>2, <3>2
    <3> QED
      BY <3>1, <3>2
  <2> HIDE DEF s
  <2>5. (\E i \in 1..Len(s) : s[i].kind = "notify") => q.notify = TRUE
    <3>1. \A i \in 1..Len(s) : i = 1
      BY <2>1
    <3> QED
      BY <1>3, <2>1, <3>1
  <2>6. q.notify \in BOOLEAN
    BY PeerFields
  <2>7. Consistent(conn, [wire EXCEPT !.inn = @ \o s], q, call, flow)
    BY <1>0, <1>3, <2>1, <2>4, <2>5, <2>6, RecordsArrive
  <2> QED
    BY <1>3, <2>3, <2>7 DEF StreamInv
<1>4. CASE PeerSays
  <2> DEFINE q == [peer EXCEPT !.sent = @ + 1]
             r == Unit(peer.sent + 1)
  <2>1. /\ peer' = q /\ wire' = [wire EXCEPT !.inn = Append(@, r)] /\ UNCHANGED <<conn, call, flow>>
        /\ peer.state = "open" /\ peer.notify = FALSE
    BY <1>4, <1>b DEF PeerSays
  <2>2. q \in Peers /\ q.state = peer.state /\ q.got = peer.got /\ q.sent = peer.sent + 1 /\ q.notify = peer.notify
    <3>1. PICK x \in Nat : x = peer.sent + 1
      BY <1>b
    <3>2. q = [peer EXCEPT !.sent = x]
      BY <3>1
    <3> HIDE DEF q
    <3> QED
      BY <1>a, <3>1, <3>2 DEF Peers
  <2>3. r \in Records /\ r.kind = "data" /\ r.unit = peer.sent + 1
    BY <1>b DEF Unit, Records
  <2> HIDE DEF q, r
  <2> QED
    BY <1>3, <2>1, <2>2, <2>3
<1>5. ASSUME NEW kind \in {"notify", "bad"}, PeerSends(kind) PROVE StreamInv'
  <2> DEFINE q == [peer EXCEPT !.notify = (kind = "notify"), !.traffic = (kind # "bad")]
             r == Record(kind)
  <2>1. /\ peer' = q /\ wire' = [wire EXCEPT !.inn = Append(@, r)] /\ UNCHANGED <<conn, call, flow>>
        /\ peer.state = "open" /\ peer.notify = FALSE
    BY <1>5, <1>b DEF PeerSends
  <2>2. /\ q \in Peers /\ q.state = peer.state /\ q.got = peer.got /\ q.sent = peer.sent
        /\ q.notify = (kind = "notify")
    <3> DEFINE x == (kind = "notify")
               y == (kind # "bad")
    <3>1. x \in BOOLEAN /\ y \in BOOLEAN
      OBVIOUS
    <3>2. q = [peer EXCEPT !.notify = x, !.traffic = y]
      OBVIOUS
    <3> HIDE DEF x, y, q
    <3>3. q \in Peers /\ q.state = peer.state /\ q.got = peer.got /\ q.sent = peer.sent /\ q.notify = x
      BY <1>a, <3>1, <3>2 DEF Peers
    <3> QED
      BY <3>3 DEF x
  <2>3. r \in Records /\ r.kind = kind
    BY DEF Record, Records
  <2>4. r.kind = "notify" => q.notify = TRUE
    BY <2>2, <2>3
  <2> HIDE DEF q, r
  <2> QED
    BY <1>3, <2>1, <2>2, <2>3, <2>4
<1>6. CASE PeerTakes
  <2> DEFINE r == Head(wire.out)
             q == [peer EXCEPT !.traffic = @ \/ r.kind \in {"flight", "fin"},
                               !.got = IF r.kind = "data" THEN Append(@, r.unit) ELSE @]
             v == [wire EXCEPT !.out = Tail(@)]
             a == Reply(r)
  <2>1. /\ peer.state = "open" /\ wire.out # <<>> /\ UNCHANGED <<conn, call, flow>>
        /\ wire' = [out |-> Tail(wire.out), inn |-> wire.inn \o a] /\ peer' = q
    BY <1>6 DEF PeerTakes
  <2>2. r \in Records /\ r.unit \in Nat
    <3>1. r \in Records
      BY <1>b, <2>1, HeadTailProperties
    <3> HIDE DEF r
    <3> QED
      BY <3>1 DEF Records
  <2>3. /\ q \in Peers /\ q.state = peer.state /\ q.sent = peer.sent /\ q.notify = peer.notify
        /\ q.got = IF r.kind = "data" THEN Append(peer.got, r.unit) ELSE peer.got
    <3> DEFINE g == IF r.kind = "data" THEN Append(peer.got, r.unit) ELSE peer.got
               t == peer.traffic \/ r.kind \in {"flight", "fin"}
    <3>1. g \in Seq(Nat)
      BY <1>b, <2>2, AppendProperties
    <3>2. t \in BOOLEAN
      OBVIOUS
    <3>3. q = [peer EXCEPT !.traffic = t, !.got = g]
      OBVIOUS
    <3> HIDE DEF g, t, q, r
    <3>4. q \in Peers /\ q.state = peer.state /\ q.sent = peer.sent /\ q.notify = peer.notify /\ q.got = g
      BY <1>a, <3>1, <3>2, <3>3 DEF Peers
    <3> QED
      BY <3>4 DEF g
  <2>4. a \in Seq(Records) /\ (\A i \in 1..Len(a) : a[i].kind # "notify" /\ a[i].kind # "data")
    <3>1. ASSUME NEW k \in {"flight", "fin", "ticket"}
          PROVE  <<Record(k)>> \in Seq(Records) /\ \A i \in 1..Len(<<Record(k)>>) :
                      <<Record(k)>>[i].kind # "notify" /\ <<Record(k)>>[i].kind # "data"
      <4>1. Record(k) \in Records /\ Record(k).kind = k
        BY DEF Record, Records
      <4>2. Len(<<Record(k)>>) = 1 /\ <<Record(k)>>[1] = Record(k) /\ \A i \in 1..1 : i = 1
        OBVIOUS
      <4> QED
        BY <4>1, <4>2
    <3>2. <<>> \in Seq(Records) /\ \A i \in 1..Len(<<>>) : FALSE
      OBVIOUS
    <3>3. a \in {<<Record("flight")>>, <<Record("fin")>>, <<Record("ticket")>>, <<>>}
      BY DEF Reply
    <3> HIDE DEF a
    <3> QED
      BY <3>1, <3>2, <3>3
  <2>5. Units(a) = <<>>
    BY <2>4, NoUnits
  <2>6. v \in Wires /\ v.out = Tail(wire.out) /\ v.inn = wire.inn /\ v = [out |-> Tail(wire.out), inn |-> wire.inn]
    <3>1. wire = [out |-> wire.out, inn |-> wire.inn] /\ Tail(wire.out) \in Seq(Records)
      BY <1>a, <1>b, <2>1, WireFields, HeadTailProperties
    <3>2. v = [out |-> Tail(wire.out), inn |-> wire.inn]
      <4>1. PICK t : t = Tail(wire.out)
        OBVIOUS
      <4>2. v = [wire EXCEPT !.out = t]
        BY <4>1
      <4> HIDE DEF v
      <4>3. v = [out |-> t, inn |-> wire.inn]
        BY <3>1, <4>2
      <4> QED
        BY <4>1, <4>3
    <3> HIDE DEF v
    <3> QED
      BY <1>b, <3>1, <3>2 DEF Wires
  <2>7. Consistent(conn, v, q, call, flow)
    BY <1>0, <2>1, <2>3, RecordTaken
  <2> HIDE DEF q, v, a, r
  <2>8. Consistent(conn, [v EXCEPT !.inn = @ \o a], q, call, flow)
    <3>1. Count(q.sent) = Count(q.sent) \o Units(a)
      BY <1>c, <2>3, <2>5
    <3> QED
      BY <2>1, <2>3, <2>4, <2>7, <3>1, RecordsArrive
  <2>9. wire' = [v EXCEPT !.inn = @ \o a]
    <3>1. PICK y : y = wire.inn \o a
      OBVIOUS
    <3>2. [v EXCEPT !.inn = @ \o a] = [v EXCEPT !.inn = y]
      BY <2>6, <3>1
    <3>3. [v EXCEPT !.inn = y] = [out |-> Tail(wire.out), inn |-> y]
      <4>1. PICK t, x : t = Tail(wire.out) /\ x = wire.inn
        OBVIOUS
      <4>2. v = [out |-> t, inn |-> x]
        BY <2>6, <4>1
      <4>3. [v EXCEPT !.inn = y] = [out |-> t, inn |-> y]
        BY <4>2
      <4> QED
        BY <4>1, <4>3
    <3> QED
      BY <2>1, <3>1, <3>2, <3>3
  <2> QED
    BY <2>1, <2>8, <2>9 DEF StreamInv
<1> QED
  BY <1>1, <1>2, <1>4, <1>5, <1>6 DEF PeerStep, PeerAnswers

LEMMA StreamStutters == ASSUME StreamInv, UNCHANGED tlsvars PROVE StreamInv'
  BY DEF StreamInv, tlsvars

LEMMA StreamHolds == StreamInv => StreamSound
<1> SUFFICES ASSUME StreamInv PROVE StreamSound
  OBVIOUS
<1>1. Consistent(conn, wire, peer, call, flow)
  BY DEF StreamInv
<1>2. flow \in Flows /\ flow.broken \in BOOLEAN
  BY <1>1, FlowFields DEF Consistent
<1>3. ~flow.broken => /\ peer.got \o Units(wire.out) \o Units(conn.out) = Count(Len(flow.told) + Pending(call))
                      /\ flow.handed \o conn.plain \o Units(wire.inn) = Count(peer.sent)
  BY <1>1, <1>2 DEF Consistent
<1>4. flow.end = "clean" => peer.notify /\ flow.handed = Count(peer.sent)
  BY <1>1 DEF Consistent
<1> QED
  BY <1>3, <1>4 DEF StreamSound

LEMMA StreamAlways == WorkloadSpec => []StreamInv
<1>1. WorkloadInit => StreamInv
  BY StreamInit DEF WorkloadInit
<1>2. StreamInv /\ [WorkloadNext]_workload => StreamInv'
  <2> SUFFICES ASSUME StreamInv, [WorkloadNext]_workload PROVE StreamInv'
    OBVIOUS
  <2>1. CASE UNCHANGED tlsvars
    BY <2>1, StreamStutters
  <2>2. CASE OpenTls
    BY <2>1, <2>2, ConnectKeepsStream DEF OpenTls
  <2>3. CASE TlsOpened
    BY <2>1, <2>3 DEF TlsOpened
  <2>4. CASE IoStep
    BY <2>4, IoKeepsStream
  <2>5. CASE UseTls
    BY <2>5, UseKeepsStream
  <2>6. CASE PeerConnects \/ PeerStep
    BY <2>6, PeerKeepsStream
  <2> QED
    BY <2>1, <2>2, <2>3, <2>4, <2>5, <2>6 DEF WorkloadNext, workload
<1> QED
  BY <1>1, <1>2, PTL DEF WorkloadSpec

(* Whatever is written, read, closed or damaged, and however often the      *)
(* socket blocks, a stream that has not failed holds the units it was given *)
(* in order and without loss, and its end is the peer's (tls.rs).           *)
THEOREM StreamAlwaysSound == WorkloadSpec => []StreamSound
<1>1. StreamInv => StreamSound
  BY StreamHolds
<1> QED
  BY <1>1, StreamAlways, PTL

=============================================================================
