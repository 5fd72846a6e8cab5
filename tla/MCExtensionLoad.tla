-------------------------- MODULE MCExtensionLoad --------------------------
(* ExtensionLoad for TLC: the files an administrator may put in place.      *)
EXTENDS ExtensionLoad, TLC

CONSTANTS n1, n2

Entry(port, address) == [shape |-> "object", port |-> port, address |-> address]

File(shape, port, address, secret, entries) ==
  [shape |-> shape, port |-> port, address |-> address, secret |-> secret,
   servers |-> entries]

Good == Entry(TRUE, TRUE)

MCFiles ==
  { File("unreadable", NotGiven, NotGiven, NotGiven, <<>>),
    File("other", NotGiven, NotGiven, NotGiven, <<>>),
    \* complete, with one server and one that is skipped
    File("object", 65535, "10.0.0.1", "key", n1 :> Good @@ n2 :> Entry(TRUE, FALSE)),
    \* another port and another server
    File("object", 1, "10.0.0.1", "key", n2 :> Good),
    \* no servers
    File("object", 3, "10.0.0.1", "key", <<>>),
    \* no port of its own
    File("object", NotGiven, "10.0.0.1", "key", n2 :> Good),
    File("object", 65536, "10.0.0.1", "key", <<>>),
    File("object", 1, "10.0.0.1", "", <<>>),
    File("object", 1, NotAnAddress, "key", <<>>),
    File("object", 2, "10.0.0.1", "key", <<>>),
    \* the entry of a server is a number
    File("object", 1, "10.0.0.1", "key",
         n1 :> [shape |-> "other", port |-> FALSE, address |-> FALSE]) }

MCTakenElsewhere == {<<"10.0.0.1", 2>>}
=============================================================================
