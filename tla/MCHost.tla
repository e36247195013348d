------------------------------- MODULE MCHost ------------------------------
(* An instance of Host for TLC: a tool that is run from the shell, and a user *)
(* at a prompt who may power the machine off.                                 *)
EXTENDS Host

CONSTANTS tool, prompt

Named(names) == {t \in Tools : t.name \in names}

MCMenu == [c \in Clients |-> IF c = tool THEN Named({"vm86_int_call", "reset"})
                                       ELSE Named({"inb", "poweroff"})]

MCMaxCalls == [c \in Clients |-> IF c = tool THEN 1 ELSE 2]
=============================================================================
