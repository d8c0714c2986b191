------------------------------- MODULE MCScan -------------------------------
(* Setups of a machine for Scan.                                             *)
EXTENDS Scan

Hint(name, domains, write, acts) == [name |-> name, domains |-> domains, write |-> write, acts |-> acts]

Server(spec, up, first, tools) ==
    [spec |-> spec, up |-> up, aggrete |-> FALSE, first |-> first, tools |-> tools]

Web     == Server("web", TRUE, "untrusted-web", {Hint("fetch", <<"untrusted-web">>, FALSE, FALSE)})
Notes   == Server("notes", TRUE, "shared-notes", {Hint("post_note", <<"shared-notes">>, TRUE, TRUE)})
Code    == Server("git", TRUE, "private-code", {Hint("read_repo", <<"private-code">>, FALSE, FALSE)})
Hr      == Server("hr", TRUE, "hr-personnel", {Hint("joiners", <<"hr-personnel">>, FALSE, FALSE)})
Fin     == Server("fin", TRUE, "finance-comp", {Hint("budget", <<"finance-comp">>, FALSE, FALSE)})
Ops     == Server("ops", TRUE, "ops-rota", {Hint("oncall", <<"ops-rota">>, FALSE, FALSE)})
VaultServer == Server("vault", TRUE, "secrets-store", {Hint("read_secret", <<"secrets-store">>, FALSE, FALSE)})
Crm     == Server("crm", TRUE, "crm-customers", {Hint("list_accounts", <<"crm-customers">>, FALSE, FALSE)})
Company == <<Hr, Fin, Ops>>
Down(s)  == [s EXCEPT !.up = FALSE]
Proxy    == [Notes EXCEPT !.spec = "aggrete", !.aggrete = TRUE]

(* Machines on which scan and the proxy agree about what writes.             *)
AgreedSetups ==
    { Company, <<Web, Notes>>, <<Web, Code>>, <<Web, Proxy, Code, Notes, Notes>>,
      <<Down(Web), Notes, Code>>, <<Web, Down(Notes), Code>>, <<Crm, Notes>>, <<VaultServer, Web, Notes>> }

(* A crowd that is not yet a bulk, and one more who makes it one.            *)
MCPersons == {"p:alice", "p:bob", "p:you"} \cup {"p:c0", "p:c1", "p:c2", "p:c3", "p:c4", "p:c5", "p:c6", "p:c7",
              "p:d0", "p:d1", "p:d2", "p:d3", "p:d4", "p:d5", "p:d6", "p:d7", "p:d8", "p:d9",
              "p:e0", "p:e1", "p:e2", "p:e3", "p:e4"}
Crowd     == MCPersons \ {"p:bob"}
MCNamed   == {{}, {"p:alice"}, {"p:bob"}, Crowd}

(* notes__publish_page is a write by its verb and none by write_tools.       *)
Publisher == Server("notes", TRUE, "shared-notes", {Hint("publish_page", <<"shared-notes">>, TRUE, FALSE)})
PublishSetups == { <<Web, Publisher>>, <<Web, Notes>> }

(* Combinations whose rules speak of something else: FixCloses fails on them *)
(* too, given as Setups in place of PublishSetups.                           *)
SecretSetups == { <<VaultServer, Notes>> }
PaySetups    == { <<Hr, Fin>> }
=============================================================================
