---------------------------- MODULE MCHostLaunch ----------------------------
(***************************************************************************)
(* Small instances of HostLaunch.  Pages have four bytes and words two.    *)
(* The shims have the segments of the real ones (CPUID and secrets pages,  *)
(* a sallyport segment of several blocks, code that starts and ends inside *)
(* a page; TCS pages and unmeasured pages for SGX) and one each is broken. *)
(***************************************************************************)
EXTENDS HostLaunch

Ph(v, n, f) == [vaddr |-> v, memsz |-> n, flags |-> f]

VmLoads == <<Ph(0, 4, {"cpuid"}), Ph(4, 4, {"secrets"}), Ph(8, 12, {"sallyport"}), Ph(21, 6, {})>>
VmShim == [name |-> "shim", header |-> TRUE, entry |-> 22, loads |-> VmLoads,
           slot |-> <<28, 40>>, requires |-> TRUE, notes |-> TRUE, block |-> 4]
SgxShim == [VmShim EXCEPT !.entry = 17, !.slot = <<20, 32>>,
    !.loads = <<Ph(0, 7, {"tcs"}), Ph(8, 4, {"unmeasured"}), Ph(14, 6, {})>>]

Exec(n, l) == [name |-> n, header |-> TRUE, entry |-> 1, loads |-> l,
               slot |-> <<>>, requires |-> TRUE, notes |-> TRUE, block |-> 0]
Plain == Exec("exec", <<Ph(0, 5, {}), Ph(9, 2, {})>>)
Other == Exec("other", <<Ph(0, 9, {})>>)
Shared == Exec("shared", <<Ph(0, 5, {}), Ph(6, 3, {})>>)      \* two loads on one page
Hollow == Exec("hollow", <<Ph(0, 3, {}), Ph(4, 0, {}), Ph(4, 3, {})>>)  \* an empty load
Large == Exec("large", <<Ph(0, 13, {})>>)
Headless == [Plain EXCEPT !.entry = 7]

Shims(vm, sgx) == [t \in {"kvm", "sev", "sgx"} |-> IF t = "sgx" THEN sgx ELSE vm]
Good == Shims(VmShim, SgxShim)

Base == [shim |-> Good, exec |-> Plain, signatures |-> <<>>, backend |-> "any",
         have |-> {"sgx", "sev", "kvm", "nil"}, configured |-> {"sgx", "sev", "kvm", "nil"},
         cpuids |-> <<"listed", "skipped", "listed", "zero", "listed">>]

On(t) == [Base EXCEPT !.backend = t]

\* Every backend, with the files as they should be.
Sound == {On(t) : t \in {"sgx", "sev", "kvm", "nil"}}
Picked == {Base} \cup {[Base EXCEPT !.have = {t, "nil"}, !.configured = {"nil"}] : t \in {"sev", "kvm", "nil"}}
Unpicked == {[On("sev") EXCEPT !.have = {"kvm", "nil"}], [On("sev") EXCEPT !.configured = {"kvm"}]}

\* Executables of every shape, on every backend.
Shaped == {[On(t) EXCEPT !.exec = e] : t \in {"sgx", "sev", "kvm"},
                                       e \in {Other, Shared, Hollow, Large, Headless}}

\* Signature files: of the executables that can be signed, of an older version, and of a build without backends.
Both == {"sgx", "sev"}
Files == {Sign(Good, e, Both) : e \in {x \in {Plain, Other, Shared} : Signs(Good, x, Both)}}
         \cup {Sign(Good, Plain, {}), [Sign(Good, Plain, Both) EXCEPT !.current = FALSE]}
Signed == {[On(t) EXCEPT !.signatures = <<g>>] : t \in Both, g \in Files}

\* Shims that must be refused, or that hold a word-sized remainder of a block.
OddShims == {[VmShim EXCEPT !.slot = <<>>], [VmShim EXCEPT !.slot = <<30, 42>>], [VmShim EXCEPT !.requires = FALSE],
             [VmShim EXCEPT !.notes = FALSE], [VmShim EXCEPT !.block = 10],
             [VmShim EXCEPT !.block = 14],
             [VmShim EXCEPT !.loads = Append(VmLoads, Ph(44, 4, {"sallyport"}))],
             [VmShim EXCEPT !.loads = <<Ph(0, 8, {"cpuid"})>> \o SubSeq(VmLoads, 3, 4)]}
Odd == {[On(t) EXCEPT !.shim = Shims(s, SgxShim)] : t \in {"sev", "kvm"}, s \in OddShims}
Crowded == {[On("sev") EXCEPT !.cpuids = <<"listed", "listed", "listed", "end">>]}

MCJobs == Sound \cup Picked \cup Unpicked \cup Shaped \cup Signed \cup Odd \cup Crowded
MCBalloonAt == {40, 48}
=============================================================================
