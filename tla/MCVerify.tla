------------------------------ MODULE MCVerify ------------------------------
(* Interfaces and edits for the model checking of Verify. *)
EXTENDS Verify

Nic(h, n) == [addr |-> h, len |-> n, virtual |-> FALSE]
Bridge(h, n) == [addr |-> h, len |-> n, virtual |-> TRUE]

\* A laptop at home with a container bridge; a host with a public address and a
\* nonsensical prefix.
MCLinks ==
    {[ok |-> TRUE, v4 |-> {Nic("lan", 16), Bridge("ten", 8)}, v6 |-> {"ula", "public6"}],
     [ok |-> TRUE, v4 |-> {Nic("public", 8), Nic("lan", 0)}, v6 |-> {"public6"}]}

\* An interface of 192.168.0.0/15, for LanIsPrivate.
MCWideLan == {[ok |-> TRUE, v4 |-> {Nic("lan", 15)}, v6 |-> {}]}

MCEdits == {[dns |-> "tunnel", v6 |-> "block", doh |-> TRUE]}
MCServers == {"server", "server6"}
=============================================================================
