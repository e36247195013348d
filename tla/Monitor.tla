------------------------------ MODULE Monitor -------------------------------
(***************************************************************************)
(* The requests of the host tools and what the machine does with them:     *)
(* the dispatch in tlay2.cpp, the handlers tlay2_monitor,                  *)
(* tlay2_v86_monitor and tlay2_pnp_monitor, the functions of main.cpp, and *)
(* the classes of tlay2_monitor.py, tlay2_v86_monitor.py and pnp.py.       *)
(*                                                                         *)
(* A request is a record: pid, the command cmd in its first byte, the      *)
(* length len with that byte, and arg, the one other thing that matters:   *)
(* how much to read for getmem, the length of the string for strget and of *)
(* the node for PnP, the function for call.                                *)
(***************************************************************************)
EXTENDS Integers

NoReply == -1

\* Commands of tlay2_monitor that take exactly len bytes, and the reply's size.
FixedSize == {<<1, 4, 0>>,   \* outb
              <<2, 3, 1>>,   \* inb
              <<5, 5, 0>>,   \* outs
              <<6, 3, 2>>,   \* ins
              <<11, 7, 0>>,  \* outl
              <<12, 3, 4>>}  \* inl

\* monitor_functions: what the callback returns for n bytes of arguments.
\* monitor_shutdown comes back only if APM is not there.
monitor_functions(id, n) ==
    CASE id = 0 -> IF n = 0 THEN 0 ELSE -1
      [] id = 1 -> IF n >= 4 THEN 0 ELSE -1
      [] id = 2 -> IF n >= 1 THEN 0 ELSE -1
      [] id = 3 -> 0
      [] OTHER  -> -1

tlay2_monitor(r) ==
    CASE r.cmd = 0 -> r.len
      [] \E f \in FixedSize : f[1] = r.cmd /\ f[2] = r.len ->
            (CHOOSE f \in FixedSize : f[1] = r.cmd)[3]
      [] r.cmd = 3 /\ r.len >= 5 -> 0
      [] r.cmd = 4 /\ r.len = 7 /\ r.arg <= 512 -> r.arg
      [] r.cmd = 7 /\ r.len >= 2 -> monitor_functions(r.arg, r.len - 2)
      [] r.cmd = 8 /\ r.len = 5 -> r.arg
      [] OTHER -> NoReply

\* Mutant of tlay2_v86_monitor: the command is not counted in the length.
tlay2_v86_monitor_short(r) ==
    CASE r.cmd = 0 -> 8
      [] r.cmd = 1 /\ r.len = 45 -> 32
      [] OTHER -> NoReply

tlay2_v86_monitor(r) ==
    CASE r.cmd = 0 -> 8
      [] r.cmd = 1 /\ r.len = 46 -> 32
      [] OTHER -> NoReply

tlay2_pnp_monitor(r) ==
    CASE r.cmd = 0 /\ r.len = 1 -> 5
      [] r.cmd = 1 /\ r.len = 2 -> 3 + r.arg
      [] OTHER -> NoReply

\* tlay2_payloads: the size of the reply to r, or NoReply.
Reply(r) ==
    CASE r.pid = 1 -> tlay2_monitor(r)
      [] r.pid = 2 -> tlay2_v86_monitor(r)
      [] r.pid = 3 -> tlay2_pnp_monitor(r)
      [] OTHER -> NoReply

\* Requests after which the machine may not come back: callraw, reset, and
\* monitor_shutdown unless APM is missing.
Ends(r) ==
    /\ r.pid = 1
    /\ \/ r.cmd = 9 /\ r.len = 5
       \/ r.cmd = 10 /\ r.len = 1
       \/ r.cmd = 7 /\ r.len >= 2 /\ r.arg = 3

-----------------------------------------------------------------------------
(* The tools. *)

\* A call of a tool: waits is FALSE for msgout, expects the size of the reply
\* that it unpacks (-1: it takes any).
Tool(name, pid, cmd, len, arg, waits, expects) ==
    [name |-> name, pid |-> pid, cmd |-> cmd, len |-> len, arg |-> arg,
     waits |-> waits, expects |-> expects]

\* The page size of putmem and getmem.
Page == 512

tlay2_monitor_py ==
    {Tool("ping", 1, 0, n + 1, 0, TRUE, n + 1) : n \in {0, 1}}
    \cup {Tool("outb", 1, 1, 4, 0, TRUE, -1), Tool("inb", 1, 2, 3, 0, TRUE, 1),
          Tool("outs", 1, 5, 5, 0, TRUE, -1), Tool("ins", 1, 6, 3, 0, TRUE, 2),
          Tool("outl", 1, 11, 7, 0, TRUE, -1), Tool("inl", 1, 12, 3, 0, TRUE, 4),
          Tool("readstring", 1, 8, 5, 3, TRUE, -1),
          Tool("callraw", 1, 9, 5, 0, FALSE, -1),
          Tool("reset", 1, 10, 1, 0, FALSE, -1),
          Tool("poweroff", 1, 7, 2, 3, FALSE, -1)}
    \cup {Tool("putmem_page", 1, 3, 5 + n, 0, TRUE, -1) : n \in {1, Page}}
    \cup {Tool("getmem_page", 1, 4, 7, n, TRUE, n) : n \in {1, Page}}

\* The calls of runfunc that vgadisp.py makes: a mode, a line of 640 pixels, a
\* palette of 16 colours.
vgadisp_py ==
    {Tool("runfunc", 1, 7, 2, 0, TRUE, -1), Tool("runfunc", 1, 7, 2 + 4 + 640, 1, TRUE, -1),
     Tool("runfunc", 1, 7, 2 + 1 + 48, 2, TRUE, -1)}

tlay2_v86_monitor_py ==
    {Tool("get_scratchaddr", 2, 0, 1, 0, TRUE, 8),
     Tool("vm86_int_call", 2, 1, 2 + 11 * 4, 0, TRUE, 32)}

\* A node of 20 bytes: pnp_get_node takes what comes after the first three.
pnp_py ==
    {Tool("pnp_info", 3, 0, 1, 0, TRUE, 5),
     Tool("pnp_get_node", 3, 1, 2, 20, TRUE, 3 + 20)}

Tools == tlay2_monitor_py \cup vgadisp_py \cup tlay2_v86_monitor_py \cup pnp_py
=============================================================================
