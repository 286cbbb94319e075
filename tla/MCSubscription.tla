--------------------------- MODULE MCSubscription ---------------------------
(* A small instance of Subscription for TLC. *)
EXTENDS Subscription

CONSTANT s1  \* one of the servers

\* Blank, plain, and one that looks like a numbered name.
SomeNames == {<<>>, <<"A">>, <<"A", 2>>}

Good == [scheme |-> "vless", uuid |-> "u", host |-> "h", port |-> 443,
         security |-> "reality", key |-> "k", type |-> "tcp", sni |-> "n",
         fingerprint |-> "chrome"]

\* URIs with each part absent or odd; the last has every part that must be there.
OddURIs ==
  {[Good EXCEPT !.scheme = ""], [Good EXCEPT !.uuid = ""], [Good EXCEPT !.host = ""],
   [Good EXCEPT !.port = 0], [Good EXCEPT !.port = 65536], [Good EXCEPT !.port = 65535],
   [Good EXCEPT !.security = "tls"], [Good EXCEPT !.key = ""], [Good EXCEPT !.type = "grpc"],
   [Good EXCEPT !.port = -1, !.type = "", !.sni = "", !.fingerprint = ""]}

Failed == [status |-> "error", uri |-> NoURI]
Adopted(uri) == [status |-> "ready", uri |-> uri]

\* The Slave on s1 sends anything; the others a good URI.
SomeLinks ==
  [s \in Servers |->
     IF s = s1 THEN {Failed, Adopted(NoURI)} \cup {Adopted(uri) : uri \in OddURIs}
     ELSE {Failed, Adopted(Good)}]
=============================================================================
