---------------------------- MODULE Subscription ----------------------------
(***************************************************************************)
(* What a user's Mihomo client gets from /subscribe/<token>/proxies        *)
(* (server.go, buildMihomoProvider) while servers are set up, renamed and  *)
(* forgotten and links come, fail and come back.  Each request reads one   *)
(* Snapshot, so the answer is a function of the document.  The document    *)
(* keeps servers in the order in which they were set up; it is the order   *)
(* of the list.                                                            *)
(*                                                                         *)
(* A name is a sequence: <<a>> for a plain one, <<a, 2>> for "a (2)" and   *)
(* <<>> for a blank one.  A URI is the record of the parts that            *)
(* parseVLESSReality looks at; an absent part is "", an absent port -1.    *)
(***************************************************************************)
EXTENDS Integers, Sequences, Functions, Places

CONSTANTS
  Accounts,  \* users that may exist; each has a token of its own
  Servers,   \* servers that may be set up
  Names,     \* display names operators enter, <<>> among them
  NoURI,     \* an empty URI
  Links      \* links to each server that operations store: status and URI

VARIABLES
  users,    \* users that exist
  servers,  \* State.Servers
  display,  \* Server.DisplayName
  link      \* User.Links

vars == <<users, servers, display, link>>

\* Names are sequences: each is a function on 1..n for some n.
ASSUME NamesAssumption ==
  /\ <<>> \in Names
  /\ \A name \in Names : /\ Len(name) \in Nat
                         /\ name = [i \in 1..Len(name) |-> name[i]]

NoLink == [status |-> "none", uri |-> NoURI]

\* No server's DuckDNS name is the display name of any; it has no blank in it.
Host(s) == <<s>>

(***************************************************************************)
(* The list of proxies.                                                    *)
(***************************************************************************)
\* serverDisplayName
DisplayName(s) == IF display[s] # <<>> THEN display[s] ELSE Host(s)

\* Port numbers (mihomo.go 606).
Ports == 1..65535

\* Mutant: the port is not looked at.
ParsesAnyPort(uri) ==
  /\ uri.scheme = "vless" /\ uri.uuid # "" /\ uri.host # ""
  /\ uri.security = "reality" /\ uri.key # "" /\ uri.type \in {"", "tcp"}

\* parseVLESSReality returns no error.
Parses(uri) ==
  /\ uri.scheme = "vless" /\ uri.uuid # "" /\ uri.host # ""
  /\ uri.port = -1 \/ uri.port \in Ports
  /\ uri.security = "reality" /\ uri.key # "" /\ uri.type \in {"", "tcp"}

\* parseVLESSReality.  "of" is the server, which the code does not keep.
Proxy(uri, name, s) ==
  [name |-> name, of |-> s, host |-> uri.host, uuid |-> uri.uuid, key |-> uri.key,
   port |-> IF uri.port = -1 THEN 443 ELSE uri.port,
   sni |-> IF uri.sni = "" THEN uri.host ELSE uri.sni,
   fingerprint |-> IF uri.fingerprint = "" THEN "chrome" ELSE uri.fingerprint]

Ready(l) == l.status = "ready" /\ l.uri # NoURI

\* Mutant: the second server of a name is not numbered yet.
NumberLate(name, n) == IF n > 2 THEN Append(name, n) ELSE name

Number(name, n) == IF n > 1 THEN Append(name, n) ELSE name

\* Mutant: one counter for all names.
ListCountingAll(list, u, s) ==
  LET n == list.used[DisplayName(s)] + 1
      name == Number(DisplayName(s), n)
  IN IF ~Ready(link[u][s]) THEN list
     ELSE [used |-> [b \in DOMAIN list.used |-> n],
           out |-> IF Parses(link[u][s].uri)
                   THEN Append(list.out, Proxy(link[u][s].uri, name, s)) ELSE list.out]

\* Mutant: only servers that are listed count for the number.
ListCountingListed(list, u, s) ==
  LET n == list.used[DisplayName(s)] + 1
      name == Number(DisplayName(s), n)
  IN IF ~Ready(link[u][s]) \/ ~Parses(link[u][s].uri) THEN list
     ELSE [used |-> [list.used EXCEPT ![DisplayName(s)] = n],
           out |-> Append(list.out, Proxy(link[u][s].uri, name, s))]

\* The body of buildMihomoProvider's loop.
List(list, u, s) ==
  LET n == list.used[DisplayName(s)] + 1
      name == Number(DisplayName(s), n)
  IN IF ~Ready(link[u][s]) THEN list
     ELSE [used |-> [list.used EXCEPT ![DisplayName(s)] = n],
           out |-> IF Parses(link[u][s].uri)
                   THEN Append(list.out, Proxy(link[u][s].uri, name, s)) ELSE list.out]

\* buildMihomoProvider: the list after the first n servers.
EmptyList == [used |-> [b \in Names \cup {Host(s) : s \in Servers} |-> 0], out |-> <<>>]

ListAfter(u) ==
  LET list[n \in 0..Len(servers)] ==
        IF n = 0 THEN EmptyList ELSE List(list[n-1], u, servers[n])
  IN list

Provider(u) == ListAfter(u)[Len(servers)].out

(***************************************************************************)
(* What changes the document.                                              *)
(***************************************************************************)
Init ==
  /\ users = {} /\ servers = <<>>
  /\ display = [s \in Servers |-> <<>>]
  /\ link = [u \in Accounts |-> [s \in Servers |-> NoLink]]

CreateUser(u) ==
  /\ u \notin users /\ users' = users \cup {u}
  /\ UNCHANGED <<servers, display, link>>

DeleteUser(u) ==
  /\ u \in users /\ users' = users \ {u}
  /\ link' = [link EXCEPT ![u] = [s \in Servers |-> NoLink]]
  /\ UNCHANGED <<servers, display>>

ProvisionServer(s, name) ==
  /\ s \notin Range(servers)
  /\ servers' = Append(servers, s)
  /\ display' = [display EXCEPT ![s] = name]
  /\ UNCHANGED <<users, link>>

Without(s) ==
  LET i == CHOOSE i \in DOMAIN servers : servers[i] = s
  IN SubSeq(servers, 1, i-1) \o SubSeq(servers, i+1, Len(servers))

\* Mutant: the links to a forgotten server stay.
ForgetServerOnly(s) ==
  /\ s \in Range(servers)
  /\ servers' = Without(s)
  /\ display' = [display EXCEPT ![s] = <<>>]
  /\ UNCHANGED <<users, link>>

ForgetServer(s) ==
  /\ s \in Range(servers)
  /\ servers' = Without(s)
  /\ display' = [display EXCEPT ![s] = <<>>]
  /\ link' = [u \in Accounts |-> [link[u] EXCEPT ![s] = NoLink]]
  /\ UNCHANGED users

RenameServer(s, name) ==
  /\ s \in Range(servers)
  /\ display' = [display EXCEPT ![s] = name]
  /\ UNCHANGED <<users, servers, link>>

\* setUserLink, after a registration that succeeded, was adopted or failed.
SetLink(u, s, l) ==
  /\ u \in users /\ s \in Range(servers)
  /\ link' = [link EXCEPT ![u][s] = l]
  /\ UNCHANGED <<users, servers, display>>

Next ==
  \/ \E u \in Accounts : CreateUser(u) \/ DeleteUser(u)
  \/ \E s \in Servers : ForgetServer(s)
  \/ \E s \in Servers, name \in Names : ProvisionServer(s, name) \/ RenameServer(s, name)
  \/ \E u \in Accounts, s \in Servers : \E l \in Links[s] : SetLink(u, s, l)

Spec == Init /\ [][Next]_vars
-----------------------------------------------------------------------------
(***************************************************************************)
(* Properties.                                                             *)
(***************************************************************************)

\* Every variable has its type, and links lead from users to servers.
TypeOK ==
  /\ users \subseteq Accounts
  /\ servers \in Seq(Servers) /\ IsInjective(servers)
  /\ display \in [Servers -> Names]
  /\ \A u \in Accounts, s \in Servers :
       link[u][s] # NoLink => link[u][s] \in Links[s] /\ u \in users /\ s \in Range(servers)

\* A definition of the list without a loop: a server whose ready link parses
\* is on it, in the order of the document, under its display name, numbered
\* by the servers up to it that have the same display name and a ready link.
Listed(u) ==
  {i \in DOMAIN servers : Ready(link[u][servers[i]]) /\ Parses(link[u][servers[i]].uri)}
Namesakes(u, i) ==
  {k \in 1..i : /\ Ready(link[u][servers[k]])
                /\ DisplayName(servers[k]) = DisplayName(servers[i])}
Entry(u, i) ==
  LET s == servers[i]
  IN Proxy(link[u][s].uri, Number(DisplayName(s), Cardinality(Namesakes(u, i))), s)
Reference(u) == EntriesAt([i \in DOMAIN servers |-> Entry(u, i)], Listed(u))

\* The loop gives what the definition says: every server that can be used is
\* listed once, whatever links before it are broken.
ListMatches == \A u \in users : Provider(u) = Reference(u)

\* A client can tell any two servers on its list apart, and choose either,
\* unless an operator has entered a name that looks like a numbered one: with
\* servers A, A and "A (2)" the list has "A (2)" twice.
LooksLike(s, t) == \E n \in 2..Len(servers) : DisplayName(s) = Append(DisplayName(t), n)
NamesDistinct ==
  \A u \in users : \A i, j \in DOMAIN Provider(u) :
    LET p == Provider(u)[i]
        q == Provider(u)[j]
    IN i # j => p.name # q.name \/ LooksLike(p.of, q.of) \/ LooksLike(q.of, p.of)

\* What is written into the list, Mihomo can use: no part is missing and the
\* port is one, whatever URI a Slave has sent.
ProxiesComplete ==
  \A u \in users : \A p \in Range(Provider(u)) :
    /\ p.port \in Ports
    /\ "" \notin {p.host, p.uuid, p.key, p.sni, p.fingerprint}

\* A step that concerns some servers does not rename, add or remove a proxy
\* of another one, unless the two share a display name: what a client has
\* chosen by name stays what it is.
Touched ==
  {s \in Servers : \/ display'[s] # display[s]
                   \/ \E u \in users \cap users' : link'[u][s] # link[u][s]
                   \/ s \in Range(servers) /\ s \notin Range(servers')
                   \/ s \in Range(servers') /\ s \notin Range(servers)}
TouchedNames == {DisplayName(s) : s \in Touched} \cup {DisplayName(s)' : s \in Touched}
Shown(list, others) == EntriesAt(list, {i \in DOMAIN list : list[i].of \in others})
OthersStay ==
  LET others == {s \in Servers : DisplayName(s) \notin TouchedNames}
  IN \A u \in users \cap users' : Shown(Provider(u), others) = Shown(Provider(u)', others)
OnlyNamesakesMove == [][OthersStay]_vars
=============================================================================
