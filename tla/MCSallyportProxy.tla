-------------------------- MODULE MCSallyportProxy --------------------------
(* Every call the handler knows, with every pointer null and not null and  *)
(* buffers that fit the block, just fit it or have to be cut.              *)
EXTENDS SallyportProxy

Req(calls, ns, n2s, as, nulls, sels) ==
  [call : calls, n : ns, n2 : n2s, a : as, null : nulls, sel : sels]

Plain == {<<>>}
Registers == DOMAIN PassthroughArgs

SocketRequests ==
  Req({"accept", "accept4"}, {0}, {0}, {0, 2}, {{}, {"addr", "len"}, {"addr"}, {"len"}}, Plain)
    \cup Req({"bind", "connect", "getsockname"}, {0}, {0}, {0, 1, 3}, {{}, {"addr"}, {"len"}}, Plain)
    \cup Req({"recvfrom"}, {1, 3}, {0}, {2}, {{}, {"addr", "len"}, {"addr"}, {"buf"}}, {<<>>, <<"MSG_TRUNC">>})
    \cup Req({"sendto"}, {1, 3}, {0}, {2}, {{}, {"addr"}, {"buf"}}, Plain)
    \cup Req({"setsockopt"}, {2}, {0}, {0}, {{}, {"buf"}}, Plain)

BufferRequests ==
  Req({"read", "write"}, 0..3, {0}, {0}, {{}, {"buf"}}, Plain)
    \cup Req({"readv", "writev"}, {0, 2}, {1, 3}, {0}, {{}, {"buf"}}, Plain)
    \cup Req({"poll"}, {1, 2}, {0}, {0}, {{}, {"buf"}}, Plain)
    \cup Req({"epoll_wait", "epoll_ctl"}, {1}, {0}, {0}, {{}, {"buf"}}, Plain)
    \cup Req({"epoll_pwait"}, {1}, {1}, {0}, {{}, {"buf2"}}, Plain)

ObjectRequests ==
  Req({"clock_getres", "clock_gettime", "uname"}, {1}, {0}, {0}, {{}, {"buf"}}, Plain)
    \cup Req({"nanosleep"}, {1}, {1}, {0}, {{}, {"buf2"}}, Plain)
    \cup Req({"ioctl"}, {1}, {0}, {0}, {{}, {"buf"}},
             {<<"stdin", "TIOCGWINSZ">>, <<"stdin", "FIONREAD">>, <<"fd", "FIONREAD">>,
              <<"fd", "FIONBIO">>, <<"fd", "TIOCGWINSZ">>})
    \cup Req({"open"}, {2}, {0}, {0}, {{}}, {<<"/etc/resolv.conf", "O_RDONLY">>, <<"other", "O_RDONLY">>})
    \cup Req({"fstat"}, {1}, {0}, {0}, {{}}, {<<"stdin">>, <<"fd">>})
    \cup Req({"getrandom"}, {2}, {0}, {0}, {{}},
             {<<"">>, <<"GRND_NONBLOCK">>, <<"GRND_RANDOM">>, <<"other">>})
    \cup Req({"readlink"}, {1, 2}, {1}, {0}, {{}}, {<<"/proc/self/exe">>, <<"other">>})
    \cup Req({"rt_sigaction"}, {1}, {1}, {0}, {{}, {"buf"}, {"buf2"}, {"buf", "buf2"}},
             {<<"valid", "8">>, <<"negative", "8">>, <<"too large", "8">>, <<"valid", "too large">>})

RegisterRequests ==
  Req(Registers \cup {"set_tid_address", "rt_sigprocmask", "sigaltstack", "getpid", "unknown"},
      {0}, {0}, {0}, {{}}, Plain)
    \cup Req({"fcntl"}, {0}, {0}, {0}, {{}},
             {<<"stdin", "F_GETFL">>, <<"stdin", "F_SETFL">>, <<"fd", "F_SETFL">>, <<"fd", "other">>})
    \cup Req({"arch_prctl", "brk", "mmap", "munmap", "mprotect", "madvise"}, {0}, {0}, {0}, {{}, {"buf"}}, Plain)
    \cup Req({"mremap"}, {0}, {0}, {0}, {{}, {"buf"}}, {<<"MREMAP_MAYMOVE">>, <<"other">>})

ShimRequests ==
  Req(DOMAIN EnarxPassthroughArgs \cup DOMAIN GdbPassthroughRet, {0}, {0}, {0}, {{}}, Plain)
    \cup Req({"cpuid"}, {1}, {0}, {0}, {{}}, Plain)
    \cup Req({"get_sgx_target_info"}, {TargetInfoSize}, {0}, {0}, {{}}, Plain)
    \cup Req({"get_sgx_quote"}, {3}, {ReportSize}, {0}, {{}}, Plain)
    \cup Req({"get_snp_vcek", "gdb_write_all"}, {2, 3}, {0}, {0}, {{}}, Plain)

MCRequests ==
  SocketRequests \cup BufferRequests \cup ObjectRequests \cup RegisterRequests \cup ShimRequests
=============================================================================
