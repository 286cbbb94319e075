------------------------- MODULE SubscriptionProofs -------------------------
(***************************************************************************)
(* For any number of users and servers, any display names and any links:   *)
(* the list a client gets is what its definition without a loop says, its  *)
(* names tell servers apart, every proxy on it is complete, and a step     *)
(* moves only namesakes of the servers it concerns.                        *)
(*                                                                         *)
(* The loop is a recursive function of the number of servers it has read.  *)
(* That it is defined at all, and what it has collected by then, is shown  *)
(* by induction on that number, in the form that every set of numbers has  *)
(* a least one.                                                            *)
(***************************************************************************)
EXTENDS Subscription, SequenceTheorems, FiniteSetTheorems, TLAPS

LEMMA LeastNumber ==
  ASSUME NEW T \in SUBSET Nat, T # {}
  PROVE  \E x \in T : \A y \in T : x <= y
<1>. DEFINE R == {ss \in Nat \X Nat : ss[1] < ss[2]}
<1>1. IsWellFoundedOn(R, Nat)
  BY NatLessThanWellFounded DEF OpToRel
<1>2. \A x, y \in Nat : y < x => <<y, x>> \in R
  OBVIOUS
<1>. HIDE DEF R
<1>3. PICK x \in T : \A y \in T : ~(<<y, x>> \in R)
  BY <1>1, WFMin
<1>4. ASSUME NEW y \in T PROVE x <= y
  <2>1. x \in Nat /\ y \in Nat /\ ~(y < x)
    BY <1>2, <1>3
  <2>. QED BY <2>1
<1>. QED BY <1>4

(* Induction up to n, for a set of numbers instead of a predicate. *)
LEMMA UpTo ==
  ASSUME NEW n \in Nat, NEW T, 0 \in T, \A i \in 0..n-1 : i \in T => i + 1 \in T
  PROVE  0..n \subseteq T
<1>. SUFFICES ASSUME ~(0..n \subseteq T) PROVE FALSE
  OBVIOUS
<1>. DEFINE U == (0..n) \ T
<1>1. U \in SUBSET Nat /\ U # {}
  OBVIOUS
<1>. HIDE DEF U
<1>2. PICK x \in U : \A y \in U : x <= y
  BY <1>1, LeastNumber
<1>3. x \in 0..n /\ x \notin T /\ x # 0
  BY <1>2 DEF U
<1>4. x - 1 \in 0..n-1 /\ (x - 1) + 1 = x /\ ~(x <= x - 1) /\ x - 1 \in 0..n
  BY <1>3
<1>5. x - 1 \in T
  BY <1>2, <1>4 DEF U
<1>. QED BY <1>3, <1>4, <1>5
-----------------------------------------------------------------------------
(***************************************************************************)
(* The document.                                                           *)
(***************************************************************************)
AllLinks == {NoLink} \cup UNION {Links[s] : s \in Servers}
DocInv == TypeOK /\ link \in [Accounts -> [Servers -> AllLinks]]

LEMMA ListFacts ==
  ASSUME NEW q \in Seq(Servers), IsInjective(q)
  PROVE  /\ Len(q) \in Nat /\ DOMAIN q = 1..Len(q)
         /\ \A i \in 1..Len(q) : q[i] \in Servers
         /\ \A i, j \in 1..Len(q) : q[i] = q[j] => i = j
         /\ Range(q) = {q[i] : i \in 1..Len(q)}
<1>1. Len(q) \in Nat /\ DOMAIN q = 1..Len(q) /\ \A i \in 1..Len(q) : q[i] \in Servers
  BY LenProperties, ElementOfSeq
<1>. QED BY <1>1 DEF IsInjective, Range

LEMMA ServersFacts ==
  ASSUME DocInv
  PROVE  /\ servers \in Seq(Servers) /\ Len(servers) \in Nat /\ DOMAIN servers = 1..Len(servers)
         /\ \A i \in 1..Len(servers) : servers[i] \in Servers
         /\ \A i, j \in 1..Len(servers) : servers[i] = servers[j] => i = j
         /\ Range(servers) = {servers[i] : i \in 1..Len(servers)}
BY ListFacts DEF DocInv, TypeOK

(* One list has what it shares with another in the same order.             *)
InOrder(q, r) ==
  \A i, k \in DOMAIN q, j, l \in DOMAIN r : r[j] = q[i] /\ r[l] = q[k] /\ i < k => j < l

LEMMA WithoutFacts ==
  ASSUME DocInv, NEW s \in Range(servers)
  PROVE  /\ Without(s) \in Seq(Servers) /\ IsInjective(Without(s))
         /\ Range(Without(s)) = Range(servers) \ {s}
         /\ InOrder(servers, Without(s))
<1>. DEFINE w == Without(s)
<1>1. PICK n \in Nat : n = Len(servers)
  BY ServersFacts
<1>2. /\ servers \in Seq(Servers) /\ DOMAIN servers = 1..n
      /\ \A i \in 1..n : servers[i] \in Servers
      /\ \A i, j \in 1..n : servers[i] = servers[j] => i = j
      /\ Range(servers) = {servers[i] : i \in 1..n}
  BY <1>1, ServersFacts
<1>3. PICK i \in 1..n : i = CHOOSE k \in DOMAIN servers : servers[k] = s
  BY <1>2
<1>4. servers[i] = s
  BY <1>2, <1>3
<1>. DEFINE a == SubSeq(servers, 1, i-1)
            b == SubSeq(servers, i+1, n)
<1>5. w = a \o b
  BY <1>1, <1>3 DEF Without
<1>6. a \in Seq(Servers) /\ Len(a) = i - 1 /\ \A k \in 1..i-1 : a[k] = servers[k]
  <2>1. \A k \in 1..i-1 : servers[k] \in Servers
    BY <1>2
  <2>2. /\ a \in Seq(Servers) /\ Len(a) = IF 1 <= i-1 THEN (i-1) - 1 + 1 ELSE 0
        /\ \A k \in 1..(i-1) - 1 + 1 : a[k] = servers[1 + k - 1]
    BY <2>1, SubSeqProperties
  <2>. HIDE DEF a
  <2>3. \A k \in 1..i-1 : 1 + k - 1 = k
    OBVIOUS
  <2>. QED BY <2>2, <2>3
<1>7. b \in Seq(Servers) /\ Len(b) = n - i /\ \A k \in 1..n-i : b[k] = servers[i + k]
  <2>1. \A k \in i+1..n : servers[k] \in Servers
    BY <1>2
  <2>2. /\ b \in Seq(Servers) /\ Len(b) = IF i+1 <= n THEN n - (i+1) + 1 ELSE 0
        /\ \A k \in 1..n - (i+1) + 1 : b[k] = servers[(i+1) + k - 1]
    BY <2>1, SubSeqProperties
  <2>. HIDE DEF b
  <2>3. n - (i+1) + 1 = n - i /\ \A k \in 1..n-i : (i+1) + k - 1 = i + k
    OBVIOUS
  <2>. QED BY <2>2, <2>3
<1>. HIDE DEF a, b, w
<1>8. /\ w \in Seq(Servers) /\ Len(w) = n - 1
      /\ \A k \in 1..n-1 : w[k] = IF k < i THEN servers[k] ELSE servers[k+1]
  <2>1. /\ w \in Seq(Servers) /\ Len(w) = (i - 1) + (n - i)
        /\ \A k \in 1..(i - 1) + (n - i) : w[k] = IF k <= i - 1 THEN a[k] ELSE b[k - (i - 1)]
    <3>1. /\ a \o b \in Seq(Servers) /\ Len(a \o b) = Len(a) + Len(b)
          /\ \A k \in 1..Len(a) + Len(b) :
               (a \o b)[k] = IF k <= Len(a) THEN a[k] ELSE b[k - Len(a)]
      BY <1>6, <1>7, ConcatProperties
    <3>. QED BY <1>5, <1>6, <1>7, <3>1
  <2>2. (i - 1) + (n - i) = n - 1
    OBVIOUS
  <2>3. ASSUME NEW k \in 1..n-1 PROVE w[k] = IF k < i THEN servers[k] ELSE servers[k+1]
    <3>1. CASE k < i
      BY <1>6, <2>1, <2>2, <3>1
    <3>2. CASE ~(k < i)
      <4>1. k - (i - 1) \in 1..n-i /\ i + (k - (i - 1)) = k + 1 /\ ~(k <= i - 1)
        BY <3>2
      <4>. QED BY <1>7, <2>1, <2>2, <3>2, <4>1
    <3>. QED BY <3>1, <3>2
  <2>. QED BY <2>1, <2>2, <2>3
<1>9. DOMAIN w = 1..n-1 /\ Range(w) = {w[k] : k \in 1..n-1}
  BY <1>8 DEF Range
<1>10. ASSUME NEW k \in 1..n-1
       PROVE  \E m \in (1..n) \ {i} : w[k] = servers[m] /\ m = IF k < i THEN k ELSE k + 1
  <2>1. CASE k < i
    BY <1>8, <2>1
  <2>2. CASE ~(k < i)
    BY <1>8, <2>2
  <2>. QED BY <2>1, <2>2
<1>11. IsInjective(w)
  <2>. SUFFICES ASSUME NEW k \in 1..n-1, NEW l \in 1..n-1, w[k] = w[l] PROVE k = l
    BY <1>9 DEF IsInjective
  <2>1. PICK m \in (1..n) \ {i} : w[k] = servers[m] /\ m = IF k < i THEN k ELSE k + 1
    BY <1>10
  <2>2. PICK p \in (1..n) \ {i} : w[l] = servers[p] /\ p = IF l < i THEN l ELSE l + 1
    BY <1>10
  <2>3. m = p
    BY <1>2, <2>1, <2>2
  <2>. QED BY <2>1, <2>2, <2>3
<1>12. Range(w) = Range(servers) \ {s}
  <2>1. ASSUME NEW x \in Range(w) PROVE x \in Range(servers) \ {s}
    <3>1. PICK k \in 1..n-1 : x = w[k]
      BY <1>9
    <3>2. PICK m \in (1..n) \ {i} : w[k] = servers[m]
      BY <1>10
    <3>. QED BY <1>2, <1>4, <3>1, <3>2
  <2>2. ASSUME NEW x \in Range(servers) \ {s} PROVE x \in Range(w)
    <3>1. PICK m \in 1..n : x = servers[m] /\ m # i
      BY <1>2, <1>4
    <3>2. CASE m < i
      BY <1>8, <1>9, <3>1, <3>2
    <3>3. CASE m > i
      <4>1. m - 1 \in 1..n-1 /\ ~(m - 1 < i) /\ (m - 1) + 1 = m
        BY <3>3
      <4>. QED BY <1>8, <1>9, <3>1, <4>1
    <3>. QED BY <3>1, <3>2, <3>3
  <2>. QED BY <2>1, <2>2
<1>13. InOrder(servers, w)
  <2>. SUFFICES ASSUME NEW x \in 1..n, NEW y \in 1..n, NEW k \in 1..n-1, NEW l \in 1..n-1,
                       w[k] = servers[x], w[l] = servers[y], x < y
                PROVE  k < l
    BY <1>2, <1>9 DEF InOrder
  <2>1. PICK m \in (1..n) \ {i} : w[k] = servers[m] /\ m = IF k < i THEN k ELSE k + 1
    BY <1>10
  <2>2. PICK p \in (1..n) \ {i} : w[l] = servers[p] /\ p = IF l < i THEN l ELSE l + 1
    BY <1>10
  <2>3. m = x /\ p = y
    BY <1>2, <2>1, <2>2
  <2>. QED BY <2>1, <2>2, <2>3
<1>. QED BY <1>8, <1>11, <1>12, <1>13 DEF w

LEMMA DocStep ==
  ASSUME DocInv, [Next]_vars
  PROVE  DocInv'
<1>. USE DEF DocInv, TypeOK
<1>1. ASSUME NEW u \in Accounts, CreateUser(u) PROVE DocInv'
  BY <1>1 DEF CreateUser
<1>2. ASSUME NEW u \in Accounts, DeleteUser(u) PROVE DocInv'
  BY <1>2 DEF DeleteUser, AllLinks
<1>3. ASSUME NEW s \in Servers, NEW name \in Names, ProvisionServer(s, name) PROVE DocInv'
  <2>1. /\ servers' = Append(servers, s) /\ s \notin Range(servers)
        /\ users' = users /\ link' = link /\ display' = [display EXCEPT ![s] = name]
    BY <1>3 DEF ProvisionServer
  <2>2. PICK n \in Nat : n = Len(servers)
    BY ServersFacts
  <2>3. /\ servers' \in Seq(Servers) /\ DOMAIN servers' = 1..n+1 /\ servers'[n+1] = s
        /\ \A i \in 1..n : servers'[i] = servers[i]
    BY <2>1, <2>2, AppendProperties
  <2>4. /\ \A i \in 1..n : servers[i] # s
        /\ \A i, j \in 1..n : servers[i] = servers[j] => i = j
        /\ Range(servers) = {servers[i] : i \in 1..n}
    BY <2>1, <2>2, ServersFacts
  <2>5. \A i \in 1..n+1 : i \in 1..n \/ i = n+1
    OBVIOUS
  <2>6. IsInjective(servers')
    BY <2>3, <2>4, <2>5 DEF IsInjective
  <2>7. Range(servers) \subseteq Range(servers')
    <3>1. ASSUME NEW i \in 1..n PROVE servers[i] \in Range(servers')
      <4>1. i \in DOMAIN servers' /\ servers'[i] = servers[i]
        BY <2>3
      <4>. QED BY <4>1 DEF Range
    <3>. QED BY <2>4, <3>1
  <2>. QED BY <2>1, <2>3, <2>6, <2>7
<1>4. ASSUME NEW s \in Servers, ForgetServer(s) PROVE DocInv'
  <2>1. /\ servers' = Without(s) /\ s \in Range(servers) /\ users' = users
        /\ display' = [display EXCEPT ![s] = <<>>]
        /\ link' = [u \in Accounts |-> [link[u] EXCEPT ![s] = NoLink]]
    BY <1>4 DEF ForgetServer
  <2>2. /\ servers' \in Seq(Servers) /\ IsInjective(servers')
        /\ Range(servers') = Range(servers) \ {s}
    BY <2>1, WithoutFacts
  <2>3. link' \in [Accounts -> [Servers -> AllLinks]]
    BY <2>1 DEF AllLinks
  <2>4. display' \in [Servers -> Names]
    BY <2>1, NamesAssumption
  <2>. QED BY <2>1, <2>2, <2>3, <2>4
<1>5. ASSUME NEW s \in Servers, NEW name \in Names, RenameServer(s, name) PROVE DocInv'
  BY <1>5 DEF RenameServer
<1>6. ASSUME NEW u \in Accounts, NEW s \in Servers, NEW l \in Links[s], SetLink(u, s, l)
      PROVE  DocInv'
  BY <1>6 DEF SetLink, AllLinks
<1>7. CASE UNCHANGED vars
  BY <1>7 DEF vars
<1>. QED BY <1>1, <1>2, <1>3, <1>4, <1>5, <1>6, <1>7 DEF Next

LEMMA DocInit == Init => DocInv
BY NamesAssumption DEF Init, DocInv, TypeOK, AllLinks, IsInjective

LEMMA DocumentSound == Spec => []DocInv
<1>1. DocInv /\ [Next]_vars => DocInv'
  BY DocStep
<1>. QED BY <1>1, DocInit, PTL DEF Spec

(* The document names each server once, and links lead from users to       *)
(* servers it has: forgetServer drops the links to a server with the       *)
(* server (operations.go 474-487).                                         *)
THEOREM DocumentTypes == Spec => []TypeOK
<1>1. DocInv => TypeOK
  BY DEF DocInv
<1>. QED BY <1>1, DocumentSound, PTL
-----------------------------------------------------------------------------
(***************************************************************************)
(* Places: the k-th place is one of them, and k of them are up to it.      *)
(***************************************************************************)
Ordered(P) ==
  \A k \in 1..Cardinality(P) : Place(P, k) \in P /\ Cardinality(P \cap 1..Place(P, k)) = k

LEMMA FinitePlaces ==
  ASSUME NEW n \in Nat, NEW P \in SUBSET (1..n)
  PROVE  /\ IsFiniteSet(P) /\ Cardinality(P) \in Nat /\ Cardinality(P) <= n
         /\ \A Q \in SUBSET P : /\ IsFiniteSet(Q) /\ Cardinality(Q) \in Nat
                                /\ Cardinality(Q) <= Cardinality(P)
<1>1. IsFiniteSet(1..n) /\ Cardinality(1..n) = n
  <2>1. IsFiniteSet(1..n) /\ Cardinality(1..n) = IF 1 > n THEN 0 ELSE n - 1 + 1
    BY FS_Interval
  <2>. QED BY <2>1
<1>2. IsFiniteSet(P) /\ Cardinality(P) <= n
  BY <1>1, FS_Subset
<1>3. \A Q \in SUBSET P : IsFiniteSet(Q) /\ Cardinality(Q) <= Cardinality(P)
  BY <1>2, FS_Subset
<1>. QED BY <1>2, <1>3, FS_CardinalityType

(* One place more, beyond all others. *)
LEMMA PlaceMore ==
  ASSUME NEW n \in Nat, NEW P \in SUBSET (1..n)
  PROVE  LET Q == P \cup {n+1}  c == Cardinality(P) IN
         /\ Cardinality(Q) = c + 1
         /\ \A k \in 1..c : Place(Q, k) = Place(P, k)
         /\ Place(Q, c + 1) = n + 1
         /\ Cardinality(Q \cap 1..n+1) = c + 1
         /\ \A i \in 1..n : Q \cap 1..i = P \cap 1..i
<1>. DEFINE Q == P \cup {n+1}
<1>1. PICK c \in Nat : c = Cardinality(P)
  BY FinitePlaces
<1>2. Cardinality(Q) = c + 1
  BY <1>1, FinitePlaces, FS_AddElement
<1>3. Q \cap 1..n+1 = Q /\ \A i \in 1..n : Q \cap 1..i = P \cap 1..i
  <2>1. Q \subseteq 1..n+1
    OBVIOUS
  <2>2. ASSUME NEW i \in 1..n PROVE Q \cap 1..i = P \cap 1..i
    <3>1. n+1 \notin 1..i
      OBVIOUS
    <3>. QED BY <3>1
  <2>. HIDE DEF Q
  <2>. QED BY <2>1, <2>2
<1>4. \A i \in 1..n : Cardinality(P \cap 1..i) \in Nat /\ Cardinality(P \cap 1..i) <= c
  BY <1>1, FinitePlaces
<1>5. Q = P \cup {n+1} /\ n+1 \notin P /\ P \subseteq 1..n
  OBVIOUS
<1>. HIDE DEF Q
<1>6. ASSUME NEW k \in 1..c PROVE Place(Q, k) = Place(P, k)
  <2>1. Cardinality(Q \cap 1..n+1) # k
    <3>1. Cardinality(Q \cap 1..n+1) = c + 1
      BY <1>2, <1>3
    <3>2. c + 1 # k
      OBVIOUS
    <3>. QED BY <3>1, <3>2
  <2>2. {j \in Q : Cardinality(Q \cap 1..j) = k} = {j \in P : Cardinality(P \cap 1..j) = k}
    BY <1>3, <1>5, <2>1
  <2>. QED BY <2>2 DEF Place
<1>7. Place(Q, c + 1) = n + 1
  <2>1. \A j \in P : Cardinality(Q \cap 1..j) # c + 1
    BY <1>3, <1>4, <1>5
  <2>2. {j \in Q : Cardinality(Q \cap 1..j) = c + 1} = {n + 1}
    BY <1>2, <1>3, <1>5, <2>1
  <2>. QED BY <2>2 DEF Place
<1>. QED BY <1>1, <1>2, <1>3, <1>6, <1>7 DEF Q

LEMMA PlacesOrdered ==
  ASSUME NEW n \in Nat, NEW P \in SUBSET (1..n)
  PROVE  Ordered(P)
<1>. DEFINE T == {i \in Nat : \A R \in SUBSET (1..i) : Ordered(R)}
<1>1. 0 \in T
  <2>1. \A R \in SUBSET (1..0) : R = {}
    OBVIOUS
  <2>2. Ordered({})
    BY FS_EmptySet DEF Ordered
  <2>. QED BY <2>1, <2>2
<1>2. ASSUME NEW i \in 0..n-1, i \in T PROVE i + 1 \in T
  <2>. SUFFICES ASSUME NEW R \in SUBSET (1..i+1) PROVE Ordered(R)
    OBVIOUS
  <2>. DEFINE P0 == R \ {i+1}
  <2>1. P0 \in SUBSET (1..i) /\ Ordered(P0)
    BY <1>2
  <2>2. CASE i+1 \notin R
    BY <2>1, <2>2, P0 = R
  <2>3. CASE i+1 \in R
    <3>1. R = P0 \cup {i+1}
      BY <2>3
    <3>. HIDE DEF P0
    <3>2. PICK c \in Nat : c = Cardinality(P0)
      <4>1. i \in Nat
        OBVIOUS
      <4>. QED BY <2>1, <4>1, FinitePlaces
    <3>3. /\ Cardinality(R) = c + 1
          /\ \A k \in 1..c : Place(R, k) = Place(P0, k)
          /\ Place(R, c + 1) = i + 1
          /\ Cardinality(R \cap 1..i+1) = c + 1
          /\ \A j \in 1..i : R \cap 1..j = P0 \cap 1..j
      <4>1. i \in Nat
        OBVIOUS
      <4>2. /\ Cardinality(P0 \cup {i+1}) = Cardinality(P0) + 1
            /\ \A k \in 1..Cardinality(P0) : Place(P0 \cup {i+1}, k) = Place(P0, k)
            /\ Place(P0 \cup {i+1}, Cardinality(P0) + 1) = i + 1
            /\ Cardinality((P0 \cup {i+1}) \cap 1..i+1) = Cardinality(P0) + 1
            /\ \A j \in 1..i : (P0 \cup {i+1}) \cap 1..j = P0 \cap 1..j
        BY <2>1, <4>1, PlaceMore
      <4>. QED BY <3>1, <3>2, <4>2
    <3>4. ASSUME NEW k \in 1..c
          PROVE  Place(R, k) \in R /\ Cardinality(R \cap 1..Place(R, k)) = k
      BY <2>1, <3>1, <3>2, <3>3 DEF Ordered
    <3>5. \A k \in 1..c+1 : k \in 1..c \/ k = c + 1
      OBVIOUS
    <3>. QED BY <2>3, <3>3, <3>4, <3>5 DEF Ordered
  <2>. QED BY <2>2, <2>3
<1>. HIDE DEF T
<1>3. n \in T
  <2>1. 0..n \subseteq T
    BY <1>1, <1>2, UpTo
  <2>. QED BY <2>1
<1>. QED BY <1>3 DEF T
-----------------------------------------------------------------------------
(***************************************************************************)
(* The loop of buildMihomoProvider.                                        *)
(***************************************************************************)
Lists(u, f, m) ==
  f = [n \in 0..m |-> IF n = 0 THEN EmptyList ELSE List(f[n-1], u, servers[n])]

LEMMA ListDefined ==
  ASSUME NEW u, Len(servers) \in Nat
  PROVE  Lists(u, ListAfter(u), Len(servers))
<1>. DEFINE T == {m \in Nat : \E f : Lists(u, f, m)}
<1>1. 0 \in T
  <2>. DEFINE f == [n \in 0..0 |-> EmptyList]
  <2>1. f = [n \in 0..0 |-> IF n = 0 THEN EmptyList ELSE List(f[n-1], u, servers[n])]
    OBVIOUS
  <2>. HIDE DEF f
  <2>. QED BY <2>1 DEF Lists
<1>2. ASSUME NEW i \in 0..Len(servers)-1, i \in T PROVE i + 1 \in T
  <2>1. PICK f : Lists(u, f, i)
    BY <1>2
  <2>. DEFINE g == [n \in 0..i+1 |-> IF n <= i THEN f[n] ELSE List(f[i], u, servers[i+1])]
              h == [n \in 0..i+1 |-> IF n = 0 THEN EmptyList ELSE List(g[n-1], u, servers[n])]
  <2>2. ASSUME NEW n \in 0..i+1
        PROVE  g[n] = IF n = 0 THEN EmptyList ELSE List(g[n-1], u, servers[n])
    <3>1. CASE n = 0
      BY <2>1, <3>1 DEF Lists
    <3>2. CASE n # 0 /\ n <= i
      <4>1. n \in 0..i /\ n - 1 \in 0..i+1 /\ n - 1 <= i
        BY <3>2
      <4>2. f[n] = List(f[n-1], u, servers[n])
        BY <2>1, <3>2, <4>1 DEF Lists
      <4>. QED BY <3>2, <4>1, <4>2
    <3>3. CASE n = i + 1
      <4>1. ~(n <= i) /\ n # 0 /\ n - 1 = i /\ i \in 0..i+1 /\ i <= i
        BY <3>3
      <4>. QED BY <3>3, <4>1
    <3>. QED BY <3>1, <3>2, <3>3
  <2>3. g = h
    <3>1. DOMAIN g = 0..i+1 /\ DOMAIN h = 0..i+1
      OBVIOUS
    <3>2. \A n \in 0..i+1 : g[n] = h[n]
      BY <2>2
    <3>. QED BY <3>2
  <2>4. Lists(u, g, i+1)
    BY <2>3 DEF Lists
  <2>. HIDE DEF g
  <2>. QED BY <2>4
<1>. HIDE DEF T
<1>3. Len(servers) \in T
  <2>1. 0..Len(servers) \subseteq T
    BY <1>1, <1>2, UpTo
  <2>. QED BY <2>1
<1>4. PICK f : Lists(u, f, Len(servers))
  BY <1>3 DEF T
<1>. QED BY <1>4 DEF Lists, ListAfter

(* What the loop has collected after n servers. *)
Bases == Names \cup {Host(s) : s \in Servers}
Sharing(u, n, b) == {i \in 1..n : Ready(link[u][servers[i]]) /\ DisplayName(servers[i]) = b}
Listing(u, n) == {i \in 1..n : Ready(link[u][servers[i]]) /\ Parses(link[u][servers[i]].uri)}
Counts(u, n) == [b \in Bases |-> Cardinality(Sharing(u, n, b))]
Entries(u, n) == [k \in 1..Cardinality(Listing(u, n)) |-> Entry(u, Place(Listing(u, n), k))]
Collected(u, n) == [used |-> Counts(u, n), out |-> Entries(u, n)]

LEMMA CollectedEmpty ==
  ASSUME NEW u
  PROVE  Collected(u, 0) = EmptyList
<1>1. 1..0 = {}
  OBVIOUS
<1>2. Listing(u, 0) = {} /\ \A b : Sharing(u, 0, b) = {}
  BY <1>1 DEF Listing, Sharing
<1>3. Cardinality({}) = 0
  BY FS_EmptySet
<1>4. Entries(u, 0) = <<>>
  <2>. DEFINE S == {Entry(u, Place({}, k)) : k \in 1..0}
              f == [k \in 1..0 |-> Entry(u, Place({}, k))]
  <2>1. f \in Seq(S) /\ Len(f) = 0
    BY IsASeq
  <2>2. Entries(u, 0) = f
    BY <1>2, <1>3 DEF Entries
  <2>. HIDE DEF f
  <2>. QED BY <2>1, <2>2, EmptySeq
<1>5. Counts(u, 0) = [b \in Names \cup {Host(s) : s \in Servers} |-> 0]
  BY <1>2, <1>3 DEF Counts, Bases
<1>. QED BY <1>4, <1>5 DEF Collected, EmptyList

LEMMA SharingMore ==
  ASSUME NEW u, NEW n \in Nat, NEW b
  PROVE  LET shares == Ready(link[u][servers[n+1]]) /\ DisplayName(servers[n+1]) = b IN
         /\ shares => Cardinality(Sharing(u, n+1, b)) = Cardinality(Sharing(u, n, b)) + 1
         /\ ~shares => Sharing(u, n+1, b) = Sharing(u, n, b)
<1>. DEFINE shares == Ready(link[u][servers[n+1]]) /\ DisplayName(servers[n+1]) = b
<1>1. Sharing(u, n, b) \in SUBSET (1..n) /\ n+1 \notin Sharing(u, n, b)
  BY DEF Sharing
<1>2. IsFiniteSet(Sharing(u, n, b))
  BY <1>1, FinitePlaces
<1>3. \A i : i \in 1..n+1 <=> i \in 1..n \/ i = n+1
  OBVIOUS
<1>4. ASSUME shares PROVE Cardinality(Sharing(u, n+1, b)) = Cardinality(Sharing(u, n, b)) + 1
  <2>1. Sharing(u, n+1, b) = Sharing(u, n, b) \cup {n+1}
    BY <1>3, <1>4 DEF Sharing
  <2>. QED BY <1>1, <1>2, <2>1, FS_AddElement
<1>5. ASSUME ~shares PROVE Sharing(u, n+1, b) = Sharing(u, n, b)
  BY <1>3, <1>5 DEF Sharing
<1>. QED BY <1>4, <1>5

LEMMA ListingMore ==
  ASSUME NEW u, NEW n \in Nat
  PROVE  LET listed == Ready(link[u][servers[n+1]]) /\ Parses(link[u][servers[n+1]].uri) IN
         /\ listed => Entries(u, n+1) = Append(Entries(u, n), Entry(u, n+1))
         /\ ~listed => Entries(u, n+1) = Entries(u, n)
<1>. DEFINE listed == Ready(link[u][servers[n+1]]) /\ Parses(link[u][servers[n+1]].uri)
<1>1. PICK P \in SUBSET (1..n) : P = Listing(u, n)
  BY DEF Listing
<1>2. PICK c \in Nat : c = Cardinality(P)
  BY FinitePlaces
<1>3. \A i : i \in 1..n+1 <=> i \in 1..n \/ i = n+1
  OBVIOUS
<1>4. ASSUME listed PROVE Entries(u, n+1) = Append(Entries(u, n), Entry(u, n+1))
  <2>1. PICK Q : Q = P \cup {n+1}
    OBVIOUS
  <2>2. Listing(u, n+1) = Q
    BY <1>1, <1>3, <1>4, <2>1 DEF Listing
  <2>3. /\ Cardinality(Q) = c + 1 /\ Place(Q, c + 1) = n + 1
        /\ \A k \in 1..c : Place(Q, k) = Place(P, k)
    <3>1. /\ Cardinality(P \cup {n+1}) = Cardinality(P) + 1
          /\ \A k \in 1..Cardinality(P) : Place(P \cup {n+1}, k) = Place(P, k)
          /\ Place(P \cup {n+1}, Cardinality(P) + 1) = n + 1
      BY PlaceMore
    <3>. QED BY <1>2, <2>1, <3>1
  <2>. DEFINE a == [k \in 1..c |-> Entry(u, Place(P, k))]
              b == [k \in 1..c+1 |-> Entry(u, Place(Q, k))]
              S == {Entry(u, Place(P, k)) : k \in 1..c}
  <2>4. Entries(u, n) = a /\ Entries(u, n+1) = b
    BY <1>1, <1>2, <2>2, <2>3 DEF Entries
  <2>5. a \in Seq(S) /\ Len(a) = c /\ \A k \in 1..c : a[k] = Entry(u, Place(P, k))
    BY IsASeq
  <2>6. /\ DOMAIN b = 1..c+1 /\ b[c+1] = Entry(u, n+1)
        /\ \A k \in 1..c : b[k] = Entry(u, Place(P, k))
    BY <2>3
  <2>. HIDE DEF a, b
  <2>7. b = Append(a, Entry(u, n+1))
    <3>1. PICK d : d = Append(a, Entry(u, n+1))
      OBVIOUS
    <3>2. DOMAIN d = 1..c+1 /\ d[c+1] = Entry(u, n+1) /\ \A k \in 1..c : d[k] = a[k]
      BY <2>5, <3>1
    <3>3. d = [k \in 1..c+1 |-> d[k]] /\ b = [k \in 1..c+1 |-> b[k]]
      BY <2>5, <3>1, <3>2 DEF b
    <3>4. \A k \in 1..c+1 : k \in 1..c \/ k = c+1
      OBVIOUS
    <3>5. \A k \in 1..c+1 : d[k] = b[k]
      BY <2>5, <2>6, <3>2, <3>4
    <3>. QED BY <3>1, <3>3, <3>5
  <2>. QED BY <2>4, <2>7
<1>5. ASSUME ~listed PROVE Entries(u, n+1) = Entries(u, n)
  <2>1. Listing(u, n+1) = Listing(u, n)
    BY <1>3, <1>5 DEF Listing
  <2>. QED BY <2>1 DEF Entries
<1>. QED BY <1>4, <1>5

LEMMA NameIsABase ==
  ASSUME DocInv, NEW s \in Servers
  PROVE  DisplayName(s) \in Bases
BY DEF DocInv, TypeOK, DisplayName, Bases

LEMMA CollectedMore ==
  ASSUME DocInv, NEW u \in Accounts, NEW n \in Nat, n < Len(servers)
  PROVE  List(Collected(u, n), u, servers[n+1]) = Collected(u, n+1)
<1>1. PICK s \in Servers : s = servers[n+1]
  <2>1. n+1 \in 1..Len(servers)
    BY ServersFacts
  <2>. QED BY <2>1, ServersFacts
<1>2. PICK name \in Bases : name = DisplayName(s)
  BY NameIsABase
<1>. DEFINE l == link[u][s]
            c == Cardinality(Sharing(u, n, name)) + 1
<1>3. Collected(u, n).used = Counts(u, n) /\ Collected(u, n).out = Entries(u, n)
  BY DEF Collected
<1>4. Collected(u, n).used[name] + 1 = c
  BY <1>3 DEF Counts
<1>5. CASE ~Ready(l)
  <2>1. List(Collected(u, n), u, s) = Collected(u, n)
    BY <1>5 DEF List
  <2>2. Entries(u, n+1) = Entries(u, n)
    BY <1>1, <1>5, ListingMore
  <2>3. \A b : Sharing(u, n+1, b) = Sharing(u, n, b)
    BY <1>1, <1>5, SharingMore
  <2>. QED BY <1>1, <2>1, <2>2, <2>3 DEF Collected, Counts
<1>6. CASE Ready(l)
  <2>1. Counts(u, n+1) = [Counts(u, n) EXCEPT ![name] = c]
    <3>1. Cardinality(Sharing(u, n+1, name)) = c
      BY <1>1, <1>2, <1>6, SharingMore
    <3>2. \A b \in Bases : b # name => Sharing(u, n+1, b) = Sharing(u, n, b)
      BY <1>1, <1>2, SharingMore
    <3>. HIDE DEF c
    <3>. QED BY <3>1, <3>2 DEF Counts
  <2>2. Namesakes(u, n+1) = Sharing(u, n+1, name)
    BY <1>1, <1>2 DEF Namesakes, Sharing
  <2>3. Cardinality(Sharing(u, n+1, name)) = c
    BY <1>1, <1>2, <1>6, SharingMore
  <2>4. Entry(u, n+1) = Proxy(l.uri, Number(name, c), s)
    BY <1>1, <1>2, <2>2, <2>3 DEF Entry
  <2>5. Entries(u, n+1) = IF Parses(l.uri) THEN Append(Entries(u, n), Entry(u, n+1))
                                            ELSE Entries(u, n)
    BY <1>1, <1>6, ListingMore
  <2>6. List(Collected(u, n), u, s) =
          [used |-> [Counts(u, n) EXCEPT ![name] = c],
           out |-> IF Parses(l.uri) THEN Append(Entries(u, n), Proxy(l.uri, Number(name, c), s))
                                    ELSE Entries(u, n)]
    <3>. HIDE DEF c
    <3>. QED BY <1>2, <1>3, <1>4, <1>6 DEF List
  <2>. QED BY <1>1, <2>1, <2>4, <2>5, <2>6 DEF Collected
<1>. QED BY <1>5, <1>6

LEMMA ListCollects ==
  ASSUME DocInv, NEW u \in Accounts
  PROVE  \A n \in 0..Len(servers) : ListAfter(u)[n] = Collected(u, n)
<1>1. PICK m \in Nat : m = Len(servers)
  BY ServersFacts
<1>2. ListAfter(u) = [n \in 0..m |-> IF n = 0 THEN EmptyList
                                     ELSE List(ListAfter(u)[n-1], u, servers[n])]
  BY <1>1, ListDefined DEF Lists
<1>3. ListAfter(u)[0] = EmptyList
  BY <1>2
<1>4. ASSUME NEW i \in 0..m-1
      PROVE  ListAfter(u)[i+1] = List(ListAfter(u)[i], u, servers[i+1])
  <2>1. i+1 \in 0..m /\ i+1 # 0 /\ (i+1)-1 = i
    OBVIOUS
  <2>. QED BY <1>2, <2>1
<1>. DEFINE T == {n \in 0..m : ListAfter(u)[n] = Collected(u, n)}
<1>5. 0 \in T
  BY <1>3, CollectedEmpty
<1>6. ASSUME NEW i \in 0..m-1, i \in T PROVE i + 1 \in T
  <2>1. i \in Nat /\ i < m /\ i + 1 \in 0..m
    OBVIOUS
  <2>2. List(Collected(u, i), u, servers[i+1]) = Collected(u, i+1)
    BY <1>1, <2>1, CollectedMore
  <2>. QED BY <1>4, <1>6, <2>1, <2>2
<1>. HIDE DEF T
<1>7. 0..m \subseteq T
  BY <1>5, <1>6, UpTo
<1>. QED BY <1>1, <1>7 DEF T

LEMMA ListOfPlaces ==
  ASSUME DocInv, NEW u \in Accounts
  PROVE  /\ Provider(u) = [k \in 1..Cardinality(Listed(u)) |-> Entry(u, Place(Listed(u), k))]
         /\ \A k \in 1..Cardinality(Listed(u)) : Place(Listed(u), k) \in Listed(u)
         /\ \A j, k \in 1..Cardinality(Listed(u)) :
              Place(Listed(u), j) = Place(Listed(u), k) => j = k
<1>1. PICK m \in Nat : m = Len(servers) /\ DOMAIN servers = 1..m
  BY ServersFacts
<1>2. ListAfter(u)[m] = Collected(u, m)
  <2>1. m \in 0..m
    OBVIOUS
  <2>. QED BY <1>1, <2>1, ListCollects
<1>3. Listing(u, m) = Listed(u)
  BY <1>1 DEF Listing, Listed
<1>4. Listed(u) \in SUBSET (1..m)
  BY <1>1 DEF Listed
<1>5. Ordered(Listed(u))
  BY <1>4, PlacesOrdered
<1>6. Provider(u) = Entries(u, m)
  BY <1>1, <1>2 DEF Provider, Collected
<1>. QED BY <1>3, <1>5, <1>6 DEF Entries, Ordered

(* The loop of buildMihomoProvider gives what the definition without a     *)
(* loop says: every server that can be used is on the list once, in the    *)
(* order of the document and under its number, however many servers come   *)
(* before it and whichever of them have broken links (mihomo.go 559-580).  *)
THEOREM ListIsAsDefined == Spec => []ListMatches
<1>1. DocInv => ListMatches
  <2>. SUFFICES ASSUME DocInv, NEW u \in users PROVE Provider(u) = Reference(u)
    BY DEF ListMatches
  <2>1. u \in Accounts
    BY DEF DocInv, TypeOK
  <2>2. PICK c : c = Cardinality(Listed(u))
    OBVIOUS
  <2>3. /\ Provider(u) = [k \in 1..c |-> Entry(u, Place(Listed(u), k))]
        /\ \A k \in 1..c : Place(Listed(u), k) \in DOMAIN servers
    BY <2>1, <2>2, ListOfPlaces DEF Listed
  <2>4. Reference(u) = [k \in 1..c |-> [i \in DOMAIN servers |-> Entry(u, i)][Place(Listed(u), k)]]
    BY <2>2 DEF Reference, EntriesAt
  <2>. QED BY <2>3, <2>4
<1>. QED BY <1>1, DocumentSound, PTL

LEMMA EntriesOf ==
  ASSUME DocInv, NEW u \in users
  PROVE  /\ DOMAIN Provider(u) = 1..Cardinality(Listed(u))
         /\ \A k \in 1..Cardinality(Listed(u)) :
              /\ Provider(u)[k] = Entry(u, Place(Listed(u), k))
              /\ Place(Listed(u), k) \in Listed(u)
         /\ \A j, k \in 1..Cardinality(Listed(u)) :
              Place(Listed(u), j) = Place(Listed(u), k) => j = k
<1>1. u \in Accounts
  BY DEF DocInv, TypeOK
<1>2. PICK c : c = Cardinality(Listed(u))
  OBVIOUS
<1>3. /\ Provider(u) = [k \in 1..c |-> Entry(u, Place(Listed(u), k))]
      /\ \A k \in 1..c : Place(Listed(u), k) \in Listed(u)
      /\ \A j, k \in 1..c : Place(Listed(u), j) = Place(Listed(u), k) => j = k
  BY <1>1, <1>2, ListOfPlaces
<1>. QED BY <1>2, <1>3

(* Mihomo can use every proxy on the list, whatever URIs Slaves have sent: *)
(* what parseVLESSReality lets through or fills in leaves no part empty    *)
(* and the port in range (mihomo.go 586-646).                              *)
THEOREM ListIsComplete == Spec => []ProxiesComplete
<1>1. DocInv => ProxiesComplete
  <2>. SUFFICES ASSUME DocInv, NEW u \in users, NEW p \in Range(Provider(u))
                PROVE  /\ p.port \in Ports
                       /\ "" \notin {p.host, p.uuid, p.key, p.sni, p.fingerprint}
    BY Zenon DEF ProxiesComplete
  <2>1. PICK k \in 1..Cardinality(Listed(u)) : p = Provider(u)[k]
    BY EntriesOf DEF Range
  <2>2. PICK i \in Listed(u) : p = Entry(u, i)
    BY <2>1, EntriesOf
  <2>3. PICK uri : uri = link[u][servers[i]].uri
    OBVIOUS
  <2>4. Parses(uri)
    BY <2>3 DEF Listed
  <2>5. PICK name : p = Proxy(uri, name, servers[i])
    BY <2>2, <2>3 DEF Entry
  <2>6. /\ p.host = uri.host /\ p.uuid = uri.uuid /\ p.key = uri.key
        /\ p.port = (IF uri.port = -1 THEN 443 ELSE uri.port)
        /\ p.sni = (IF uri.sni = "" THEN uri.host ELSE uri.sni)
        /\ p.fingerprint = (IF uri.fingerprint = "" THEN "chrome" ELSE uri.fingerprint)
    BY <2>5 DEF Proxy
  <2>7. /\ uri.host # "" /\ uri.uuid # "" /\ uri.key # ""
        /\ uri.port = -1 \/ uri.port \in Ports
    BY <2>4, Zenon DEF Parses
  <2>8. 443 \in Ports
    BY DEF Ports
  <2>9. \A x, y : y # "" => (IF x = "" THEN y ELSE x) # ""
    OBVIOUS
  <2>10. "chrome" # ""
    OBVIOUS
  <2>11. p.port \in Ports
    BY <2>6, <2>7, <2>8, Zenon
  <2>12. p.sni # "" /\ p.fingerprint # "" /\ p.host # "" /\ p.uuid # "" /\ p.key # ""
    BY <2>6, <2>7, <2>9, <2>10, Zenon
  <2>. QED BY <2>11, <2>12, Zenon
<1>. QED BY <1>1, DocumentSound, PTL

LEMMA BasesAreSequences ==
  ASSUME NEW name \in Bases
  PROVE  \E S : name \in Seq(S)
<1>1. CASE name \in Names
  <2>1. PICK n \in Nat : name = [i \in 1..n |-> name[i]]
    BY <1>1, NamesAssumption
  <2>. DEFINE f == [i \in 1..n |-> name[i]]
  <2>2. f \in Seq({name[i] : i \in 1..n})
    BY IsASeq
  <2>. QED BY <2>1, <2>2
<1>2. ASSUME NEW s \in Servers, name = Host(s) PROVE \E S : name \in Seq(S)
  <2>1. name \in Seq({s})
    BY <1>2 DEF Host
  <2>. QED BY <2>1
<1>. QED BY <1>1, <1>2 DEF Bases

LEMMA NumbersTellApart ==
  ASSUME NEW a \in Bases, NEW b \in Bases, NEW n \in Nat, NEW m \in Nat,
         Append(a, n) = Append(b, m)
  PROVE  a = b /\ n = m
<1>1. PICK S : a \in Seq(S)
  BY BasesAreSequences
<1>2. PICK R : b \in Seq(R)
  BY BasesAreSequences
<1>3. PICK T : T = S \cup R \cup {n, m}
  OBVIOUS
<1>4. a \in Seq(T) /\ b \in Seq(T) /\ n \in T /\ m \in T
  BY <1>1, <1>2, <1>3
<1>5. PICK i \in Nat : i = Len(a)
  BY <1>4
<1>6. PICK j \in Nat : j = Len(b)
  BY <1>4
<1>7. PICK c : c = Append(a, n)
  OBVIOUS
<1>8. Len(c) = i + 1 /\ c[i+1] = n /\ \A k \in 1..i : c[k] = a[k]
  <2>1. /\ Len(Append(a, n)) = Len(a) + 1 /\ Append(a, n)[Len(a)+1] = n
        /\ \A k \in 1..Len(a) : Append(a, n)[k] = a[k]
    BY <1>4, AppendProperties
  <2>. QED BY <1>5, <1>7, <2>1
<1>9. Len(c) = j + 1 /\ c[j+1] = m /\ \A k \in 1..j : c[k] = b[k]
  <2>1. /\ Len(Append(b, m)) = Len(b) + 1 /\ Append(b, m)[Len(b)+1] = m
        /\ \A k \in 1..Len(b) : Append(b, m)[k] = b[k]
    BY <1>4, AppendProperties
  <2>. QED BY <1>6, <1>7, <2>1
<1>10. i = j
  BY <1>8, <1>9
<1>11. n = m
  BY <1>8, <1>9, <1>10
<1>12. \A k \in 1..i : a[k] = b[k]
  BY <1>8, <1>9, <1>10
<1>. QED BY <1>4, <1>5, <1>6, <1>10, <1>11, <1>12, SeqEqual

(* Two servers of one name have different numbers.                         *)
LEMMA NamesakesDiffer ==
  ASSUME DocInv, NEW u, NEW i \in Listed(u), NEW j \in Listed(u), i < j,
         DisplayName(servers[i]) = DisplayName(servers[j])
  PROVE  Cardinality(Namesakes(u, i)) # Cardinality(Namesakes(u, j))
<1>1. PICK m \in Nat : m = Len(servers) /\ DOMAIN servers = 1..m
  BY ServersFacts
<1>2. i \in 1..m /\ j \in 1..m /\ Ready(link[u][servers[j]])
  BY <1>1 DEF Listed
<1>3. /\ Namesakes(u, j) \in SUBSET (1..m) /\ Namesakes(u, i) \subseteq Namesakes(u, j)
      /\ j \in Namesakes(u, j) /\ j \notin Namesakes(u, i)
  <2>1. \A k \in 1..i : k \in 1..j
    BY <1>2
  <2>2. \A k \in 1..j : k \in 1..m
    BY <1>2
  <2>3. j \in 1..j /\ j \notin 1..i
    BY <1>2
  <2>. QED BY <1>2, <2>1, <2>2, <2>3 DEF Namesakes
<1>4. IsFiniteSet(Namesakes(u, j))
  BY <1>3, FinitePlaces
<1>. QED BY <1>3, <1>4, FS_Subset

LEMMA NumbersInRange ==
  ASSUME DocInv, NEW u, NEW i \in Listed(u)
  PROVE  /\ Cardinality(Namesakes(u, i)) \in Nat \ {0}
         /\ Cardinality(Namesakes(u, i)) <= Len(servers)
         /\ servers[i] \in Servers
<1>1. PICK m \in Nat : m = Len(servers) /\ DOMAIN servers = 1..m
  BY ServersFacts
<1>2. i \in 1..m /\ Ready(link[u][servers[i]])
  BY <1>1 DEF Listed
<1>3. Namesakes(u, i) \in SUBSET (1..m) /\ i \in Namesakes(u, i)
  BY <1>2 DEF Namesakes
<1>4. /\ IsFiniteSet(Namesakes(u, i)) /\ Cardinality(Namesakes(u, i)) \in Nat
      /\ Cardinality(Namesakes(u, i)) <= m
  <2>1. IsFiniteSet(1..m) /\ Cardinality(1..m) \in Nat /\ Cardinality(1..m) <= m
    BY FinitePlaces
  <2>. QED BY <1>3, <2>1, FS_Subset, FS_CardinalityType
<1>5. Cardinality(Namesakes(u, i)) # 0
  BY <1>3, <1>4, FS_EmptySet
<1>. QED BY <1>1, <1>2, <1>4, <1>5, ServersFacts

(* No two proxies have one name, so that a client can choose either,       *)
(* unless one server's display name looks like another's with a number     *)
(* (mihomo.go 568-573).                                                    *)
THEOREM NamesTellServersApart == Spec => []NamesDistinct
<1>1. ASSUME DocInv, NEW u \in users, NEW i \in Listed(u), NEW j \in Listed(u), i # j,
             Entry(u, i).name = Entry(u, j).name
      PROVE  LooksLike(servers[i], servers[j]) \/ LooksLike(servers[j], servers[i])
  <2>1. PICK m \in Nat : m = Len(servers) /\ DOMAIN servers = 1..m
    BY <1>1, ServersFacts
  <2>2. i \in 1..m /\ j \in 1..m
    BY <2>1 DEF Listed
  <2>3. PICK n \in Nat \ {0} : n = Cardinality(Namesakes(u, i)) /\ n <= m
    BY <1>1, <2>1, NumbersInRange
  <2>4. PICK k \in Nat \ {0} : k = Cardinality(Namesakes(u, j)) /\ k <= m
    BY <1>1, <2>1, NumbersInRange
  <2>5. PICK a \in Bases : a = DisplayName(servers[i])
    BY <1>1, NumbersInRange, NameIsABase
  <2>6. PICK b \in Bases : b = DisplayName(servers[j])
    BY <1>1, NumbersInRange, NameIsABase
  <2>7. Number(a, n) = Number(b, k)
    BY <1>1, <2>3, <2>4, <2>5, <2>6 DEF Entry, Proxy
  <2>8. a = b => n # k
    <3>1. CASE i < j
      BY <1>1, <2>3, <2>4, <2>5, <2>6, <3>1, NamesakesDiffer
    <3>2. CASE j < i
      BY <1>1, <2>3, <2>4, <2>5, <2>6, <3>2, NamesakesDiffer
    <3>. QED BY <1>1, <2>2, <3>1, <3>2
  <2>9. CASE n > 1 /\ k > 1
    BY <2>7, <2>8, <2>9, NumbersTellApart DEF Number
  <2>10. CASE n > 1 /\ ~(k > 1)
    BY <2>1, <2>3, <2>5, <2>6, <2>7, <2>10 DEF Number, LooksLike
  <2>11. CASE ~(n > 1) /\ k > 1
    BY <2>1, <2>4, <2>5, <2>6, <2>7, <2>11 DEF Number, LooksLike
  <2>12. CASE ~(n > 1) /\ ~(k > 1)
    <3>1. a = b
      BY <2>7, <2>12 DEF Number
    <3>2. n = 1 /\ k = 1
      BY <2>12
    <3>. QED BY <2>8, <3>1, <3>2
  <2>. QED BY <2>9, <2>10, <2>11, <2>12
<1>2. ASSUME DocInv, NEW u \in users, NEW x \in DOMAIN Provider(u), NEW y \in DOMAIN Provider(u),
             x # y, Provider(u)[x].name = Provider(u)[y].name
      PROVE  LET s == Provider(u)[x].of  t == Provider(u)[y].of
             IN LooksLike(s, t) \/ LooksLike(t, s)
  <2>1. PICK i \in Listed(u) : Provider(u)[x] = Entry(u, i) /\ i = Place(Listed(u), x)
    BY <1>2, EntriesOf
  <2>2. PICK j \in Listed(u) : Provider(u)[y] = Entry(u, j) /\ j = Place(Listed(u), y)
    BY <1>2, EntriesOf
  <2>3. i # j
    BY <1>2, <2>1, <2>2, EntriesOf
  <2>4. Entry(u, i).of = servers[i] /\ Entry(u, j).of = servers[j]
    BY DEF Entry, Proxy
  <2>. QED BY <1>1, <1>2, <2>1, <2>2, <2>3, <2>4
<1>3. DocInv => NamesDistinct
  BY <1>2 DEF NamesDistinct
<1>. QED BY <1>3, DocumentSound, PTL
-----------------------------------------------------------------------------
(***************************************************************************)
(* Places again: what keeps the order of some places keeps their numbers.  *)
(***************************************************************************)
LEMMA SameNumber ==
  ASSUME NEW P, IsFiniteSet(P), NEW Q, NEW f \in [P -> Q],
         \A j \in Q : \E i \in P : f[i] = j, \A i, k \in P : f[i] = f[k] => i = k
  PROVE  Cardinality(Q) = Cardinality(P)
<1>1. f \in Bijection(P, Q)
  BY DEF Bijection, Injection, Surjection, IsInjective
<1>2. ExistsBijection(P, Q)
  BY <1>1 DEF ExistsBijection
<1>. QED BY <1>2, FS_Bijection

LEMMA PlaceIs ==
  ASSUME NEW n \in Nat, NEW P \in SUBSET (1..n), NEW i \in P
  PROVE  /\ Cardinality(P \cap 1..i) \in 1..Cardinality(P)
         /\ Place(P, Cardinality(P \cap 1..i)) = i
<1>1. IsFiniteSet(P) /\ Cardinality(P) \in Nat
  BY FinitePlaces
<1>2. ASSUME NEW k \in P
      PROVE  /\ IsFiniteSet(P \cap 1..k) /\ Cardinality(P \cap 1..k) \in Nat
             /\ Cardinality(P \cap 1..k) <= Cardinality(P)
  BY FinitePlaces
<1>3. ASSUME NEW k \in P, NEW l \in P, k < l
      PROVE  Cardinality(P \cap 1..k) < Cardinality(P \cap 1..l)
  <2>1. P \cap 1..k \subseteq P \cap 1..l
    BY <1>3
  <2>2. l \in P \cap 1..l /\ l \notin P \cap 1..k
    BY <1>3
  <2>3. P \cap 1..k # P \cap 1..l
    BY <2>2
  <2>. QED BY <1>2, <2>1, <2>3, FS_Subset
<1>4. \A k \in P : k # i => Cardinality(P \cap 1..k) # Cardinality(P \cap 1..i)
  <2>. SUFFICES ASSUME NEW k \in P, k # i
                PROVE  Cardinality(P \cap 1..k) # Cardinality(P \cap 1..i)
    OBVIOUS
  <2>1. k < i \/ i < k
    OBVIOUS
  <2>. QED BY <1>2, <1>3, <2>1
<1>5. Cardinality(P \cap 1..i) # 0
  <2>1. i \in P \cap 1..i
    OBVIOUS
  <2>. QED BY <1>2, <2>1, FS_EmptySet
<1>6. PICK c : c = Cardinality(P \cap 1..i)
  OBVIOUS
<1>7. {k \in P : Cardinality(P \cap 1..k) = c} = {i}
  BY <1>4, <1>6
<1>8. Place(P, c) = i
  BY <1>7 DEF Place
<1>. QED BY <1>1, <1>2, <1>5, <1>6, <1>8

Ascends(n, m, P, Q, f) ==
  /\ n \in Nat /\ m \in Nat /\ P \in SUBSET (1..n) /\ Q \in SUBSET (1..m)
  /\ f \in [P -> Q] /\ \A j \in Q : \E i \in P : f[i] = j
  /\ \A i, k \in P : i < k => f[i] < f[k]

LEMMA Renumbered ==
  ASSUME NEW n, NEW m, NEW P, NEW Q, NEW f, Ascends(n, m, P, Q, f)
  PROVE  /\ Cardinality(Q) = Cardinality(P)
         /\ \A k \in 1..Cardinality(P) : /\ Place(P, k) \in P
                                         /\ Place(Q, k) = f[Place(P, k)]
<1>0. /\ n \in Nat /\ m \in Nat /\ P \in SUBSET (1..n) /\ Q \in SUBSET (1..m)
      /\ f \in [P -> Q] /\ \A j \in Q : \E i \in P : f[i] = j
      /\ \A i, k \in P : i < k => f[i] < f[k]
  BY DEF Ascends
<1>. USE <1>0
<1>1. /\ IsFiniteSet(P) /\ Cardinality(P) \in Nat
      /\ \A i \in P : IsFiniteSet(P \cap 1..i) /\ i \in Nat /\ f[i] \in Nat
  <2>1. /\ IsFiniteSet(P) /\ Cardinality(P) \in Nat
        /\ \A i \in P : IsFiniteSet(P \cap 1..i)
    BY FinitePlaces
  <2>2. \A i \in P : i \in Nat
    OBVIOUS
  <2>3. \A i \in P : f[i] \in Q
    OBVIOUS
  <2>4. \A j \in Q : j \in Nat
    OBVIOUS
  <2>. QED BY <2>1, <2>2, <2>3, <2>4
<1>2. \A i, k \in P : f[i] = f[k] => i = k
  <2>. SUFFICES ASSUME NEW i \in P, NEW k \in P, f[i] = f[k], i # k PROVE FALSE
    OBVIOUS
  <2>1. i < k \/ k < i
    BY <1>1
  <2>2. f[i] < f[k] \/ f[k] < f[i]
    BY <2>1
  <2>3. PICK x \in Nat : x = f[i]
    BY <1>1
  <2>. QED BY <2>2, <2>3
<1>3. Cardinality(Q) = Cardinality(P)
  BY <1>1, <1>2, SameNumber
<1>4. ASSUME NEW i \in P PROVE Cardinality(Q \cap 1..f[i]) = Cardinality(P \cap 1..i)
  <2>. DEFINE A == P \cap 1..i
              B == Q \cap 1..f[i]
              g == [h \in A |-> f[h]]
  <2>1. ASSUME NEW h \in A PROVE f[h] \in B
    <3>1. h \in P /\ (h < i \/ h = i)
      BY <1>1
    <3>2. PICK x \in Nat, y \in Nat : x = f[h] /\ y = f[i]
      BY <1>1, <3>1
    <3>3. x <= y
      BY <3>1, <3>2
    <3>4. x \in 1..y
      <4>1. x \in Q
        BY <3>1, <3>2
      <4>. QED BY <3>3, <4>1
    <3>5. x \in Q
      BY <3>1, <3>2
    <3>. QED BY <3>2, <3>4, <3>5
  <2>2. ASSUME NEW j \in B PROVE \E h \in A : f[h] = j
    <3>1. PICK h \in P : f[h] = j
      OBVIOUS
    <3>2. ~(i < h)
      <4>1. PICK y \in Nat : y = f[i]
        BY <1>1
      <4>2. j \in 1..y
        BY <4>1
      <4>. QED BY <3>1, <4>1, <4>2
    <3>. QED BY <1>1, <3>1, <3>2
  <2>3. IsFiniteSet(A)
    BY <1>1
  <2>4. \A h \in A : h \in P
    OBVIOUS
  <2>. HIDE DEF A, B
  <2>5. g \in [A -> B] /\ \A h \in A : g[h] = f[h]
    BY <2>1
  <2>. HIDE DEF g
  <2>6. /\ \A j \in B : \E h \in A : g[h] = j
        /\ \A h, k \in A : g[h] = g[k] => h = k
    BY <1>2, <2>2, <2>4, <2>5
  <2>7. Cardinality(B) = Cardinality(A)
    BY <2>3, <2>5, <2>6, SameNumber
  <2>. QED BY <2>7 DEF A, B
<1>5. ASSUME NEW k \in 1..Cardinality(P)
      PROVE  Place(P, k) \in P /\ Place(Q, k) = f[Place(P, k)]
  <2>1. PICK i \in P : i = Place(P, k) /\ Cardinality(P \cap 1..i) = k
    BY PlacesOrdered DEF Ordered
  <2>2. Cardinality(Q \cap 1..f[i]) = k
    BY <1>4, <2>1
  <2>3. f[i] \in Q
    OBVIOUS
  <2>4. Place(Q, Cardinality(Q \cap 1..f[i])) = f[i]
    BY <2>3, PlaceIs
  <2>. QED BY <2>1, <2>2, <2>4
<1>. QED BY <1>3, <1>5

(* The places of some of the places P among them. *)
Within(P, Q, I) ==
  /\ Cardinality(I) = Cardinality(Q)
  /\ \A k \in 1..Cardinality(Q) : /\ Place(I, k) \in 1..Cardinality(P)
                                  /\ Place(P, Place(I, k)) = Place(Q, k)

LEMMA PlacesOfPlaces ==
  ASSUME NEW n \in Nat, NEW P \in SUBSET (1..n), NEW Q \in SUBSET P
  PROVE  Within(P, Q, {k \in 1..Cardinality(P) : Place(P, k) \in Q})
<1>. DEFINE I == {k \in 1..Cardinality(P) : Place(P, k) \in Q}
<1>1. PICK c \in Nat : c = Cardinality(P)
  BY FinitePlaces
<1>. DEFINE f == [k \in I |-> Place(P, k)]
<1>2. \A k \in 1..c : Place(P, k) \in P /\ Cardinality(P \cap 1..Place(P, k)) = k
  BY <1>1, PlacesOrdered DEF Ordered
<1>3. /\ I = {k \in 1..c : Place(P, k) \in Q}
      /\ I \in SUBSET (1..c) /\ Q \in SUBSET (1..n)
  BY <1>1
<1>. HIDE DEF I
<1>4. f \in [I -> Q] /\ \A k \in I : f[k] = Place(P, k)
  BY <1>3
<1>5. ASSUME NEW j \in Q PROVE \E k \in I : f[k] = j
  <2>1. PICK k : k = Cardinality(P \cap 1..j)
    OBVIOUS
  <2>2. k \in 1..c /\ Place(P, k) = j
    BY <1>1, <2>1, PlaceIs
  <2>3. k \in I
    BY <1>3, <2>2
  <2>. QED BY <1>4, <2>2, <2>3
<1>6. ASSUME NEW k \in I, NEW l \in I, k < l PROVE f[k] < f[l]
  <2>1. PICK x \in P : x = Place(P, k) /\ Cardinality(P \cap 1..x) = k
    BY <1>2, <1>3
  <2>2. PICK y \in P : y = Place(P, l) /\ Cardinality(P \cap 1..y) = l
    BY <1>2, <1>3
  <2>3. ASSUME y <= x PROVE FALSE
    <3>1. P \cap 1..y \subseteq P \cap 1..x
      BY <2>3
    <3>2. IsFiniteSet(P \cap 1..x)
      BY FinitePlaces
    <3>3. Cardinality(P \cap 1..y) <= Cardinality(P \cap 1..x)
      BY <3>1, <3>2, FS_Subset
    <3>. QED BY <1>3, <1>6, <2>1, <2>2, <3>3
  <2>. QED BY <1>4, <2>1, <2>2, <2>3
<1>. HIDE DEF f
<1>7. /\ Cardinality(Q) = Cardinality(I)
      /\ \A k \in 1..Cardinality(I) : Place(I, k) \in I /\ Place(Q, k) = f[Place(I, k)]
  <2>1. Ascends(c, n, I, Q, f)
    BY <1>3, <1>4, <1>5, <1>6 DEF Ascends
  <2>. QED BY <2>1, Renumbered
<1>8. \A k \in 1..Cardinality(Q) : Place(I, k) \in 1..c /\ Place(P, Place(I, k)) = Place(Q, k)
  BY <1>3, <1>4, <1>7
<1>. QED BY <1>1, <1>7, <1>8 DEF I, Within

(* What is shown of a list of proxies: the entries of the shown servers.   *)
ShownPlaces(u, others) == {i \in Listed(u) : servers[i] \in others}
EntryTable(u) == [i \in DOMAIN servers |-> Entry(u, i)]
ShownAs(u, others) ==
  \A list, table, places :
    list = Provider(u) /\ table = EntryTable(u) /\ places = ShownPlaces(u, others)
      => Shown(list, others) = EntriesAt(table, places)

Shows == DocInv => \A u \in Accounts, others \in SUBSET Servers : ShownAs(u, others)

LEMMA ListShows == Shows
<1>. SUFFICES ASSUME DocInv, NEW u \in Accounts, NEW others \in SUBSET Servers
              PROVE  ShownAs(u, others)
  BY DEF Shows
<1>1. PICK m \in Nat : m = Len(servers) /\ DOMAIN servers = 1..m
  BY ServersFacts
<1>2. PICK P \in SUBSET (1..m) : P = Listed(u)
  BY <1>1 DEF Listed
<1>3. PICK c \in Nat : c = Cardinality(P)
  BY FinitePlaces
<1>4. PICK list : list = Provider(u)
  OBVIOUS
<1>5. /\ list = [k \in 1..c |-> Entry(u, Place(P, k))]
      /\ \A k \in 1..c : Place(P, k) \in P
  BY <1>2, <1>3, <1>4, ListOfPlaces
<1>6. \A i : Entry(u, i).of = servers[i]
  BY DEF Entry, Proxy
<1>7. PICK Q \in SUBSET P : Q = ShownPlaces(u, others)
  BY <1>2 DEF ShownPlaces
<1>8. PICK I : I = {k \in 1..c : Place(P, k) \in Q}
  OBVIOUS
<1>9. {k \in DOMAIN list : list[k].of \in others} = I
  BY <1>2, <1>5, <1>6, <1>7, <1>8 DEF ShownPlaces
<1>10. /\ Cardinality(I) = Cardinality(Q)
       /\ \A k \in 1..Cardinality(Q) : /\ Place(I, k) \in 1..c
                                       /\ Place(P, Place(I, k)) = Place(Q, k)
  <2>1. I = {k \in 1..Cardinality(P) : Place(P, k) \in Q}
    BY <1>3, <1>8
  <2>2. Within(P, Q, I)
    BY <2>1, PlacesOfPlaces
  <2>. QED BY <1>3, <2>2 DEF Within
<1>11. Shown(list, others) = [k \in 1..Cardinality(Q) |-> list[Place(I, k)]]
  BY <1>9, <1>10 DEF Shown, EntriesAt
<1>12. \A k \in 1..Cardinality(Q) : list[Place(I, k)] = Entry(u, Place(Q, k))
  BY <1>5, <1>10
<1>13. \A k \in 1..Cardinality(Q) : Place(Q, k) \in DOMAIN servers
  <2>1. Ordered(Q)
    BY PlacesOrdered
  <2>. QED BY <1>1, <2>1 DEF Ordered
<1>14. EntriesAt(EntryTable(u), Q) = [k \in 1..Cardinality(Q) |-> Entry(u, Place(Q, k))]
  BY <1>13 DEF EntriesAt, EntryTable
<1>15. Shown(list, others) = EntriesAt(EntryTable(u), Q)
  BY <1>11, <1>12, <1>14
<1>. QED BY <1>4, <1>7, <1>15 DEF ShownAs

(* The servers that stay, stay in their order.                             *)
LEMMA OrderKept ==
  ASSUME DocInv, DocInv', Next
  PROVE  InOrder(servers, servers')
<1>1. PICK n \in Nat : n = Len(servers) /\ DOMAIN servers = 1..n
  BY ServersFacts
<1>2. /\ \A i, k \in 1..n : servers[i] = servers[k] => i = k
      /\ Range(servers) = {servers[i] : i \in 1..n} /\ servers \in Seq(Servers)
  BY <1>1, ServersFacts
<1>3. CASE servers' = servers
  <2>. SUFFICES ASSUME NEW i \in 1..n, NEW k \in 1..n, NEW j \in 1..n, NEW l \in 1..n,
                       servers[j] = servers[i], servers[l] = servers[k], i < k
                PROVE  j < l
    BY <1>1, <1>3 DEF InOrder
  <2>. QED BY <1>2
<1>4. ASSUME NEW s \in Servers, NEW name \in Names, ProvisionServer(s, name)
      PROVE  InOrder(servers, servers')
  <2>1. servers' = Append(servers, s) /\ s \notin Range(servers)
    BY <1>4 DEF ProvisionServer
  <2>2. /\ DOMAIN servers' = 1..n+1 /\ servers'[n+1] = s
        /\ \A i \in 1..n : servers'[i] = servers[i]
    BY <1>1, <1>2, <2>1, AppendProperties
  <2>3. \A j \in 1..n+1, i \in 1..n : servers'[j] = servers[i] => j = i
    <3>1. \A j \in 1..n+1 : j \in 1..n \/ j = n+1
      OBVIOUS
    <3>. QED BY <1>2, <2>1, <2>2, <3>1
  <2>. QED BY <1>1, <2>2, <2>3 DEF InOrder
<1>5. ASSUME NEW s \in Servers, ForgetServer(s) PROVE InOrder(servers, servers')
  BY <1>5, WithoutFacts DEF ForgetServer
<1>6. \/ servers' = servers
      \/ \E s \in Servers, name \in Names : ProvisionServer(s, name)
      \/ \E s \in Servers : ForgetServer(s)
  BY DEF Next, CreateUser, DeleteUser, RenameServer, SetLink
<1>. QED BY <1>3, <1>4, <1>5, <1>6

LEMMA UntouchedSame ==
  ASSUME NEW u \in users \cap users', NEW s \in Servers,
         DisplayName(s) \notin TouchedNames \/ DisplayName(s)' \notin TouchedNames
  PROVE  /\ DisplayName(s)' = DisplayName(s) /\ link'[u][s] = link[u][s]
         /\ s \in Range(servers) <=> s \in Range(servers')
<1>1. s \notin Touched
  BY DEF TouchedNames
<1>. QED BY <1>1 DEF Touched, DisplayName

(* Where the servers of untouched names are after a step.                  *)
Carried(q, r, W, V) ==
  \E f \in [W -> V] : /\ \A j \in V : \E i \in W : f[i] = j
                      /\ \A i \in W : r[f[i]] = q[i]
                      /\ \A i, k \in W : i < k => f[i] < f[k]

LEMMA UntouchedPlaces ==
  ASSUME DocInv, DocInv', Next, NEW u \in users \cap users', NEW others,
         others = {s \in Servers : DisplayName(s) \notin TouchedNames},
         NEW W, W = {i \in DOMAIN servers : servers[i] \in others},
         NEW V, V = {j \in DOMAIN servers' : servers'[j] \in others}
  PROVE  Carried(servers, servers', W, V)
<1>1. PICK n \in Nat : n = Len(servers) /\ DOMAIN servers = 1..n
  BY ServersFacts
<1>2. /\ \A i \in 1..n : servers[i] \in Servers
      /\ Range(servers) = {servers[i] : i \in 1..n}
  BY <1>1, ServersFacts
<1>3. PICK q : q = servers'
  OBVIOUS
<1>4. q \in Seq(Servers) /\ IsInjective(q)
  BY <1>3 DEF DocInv, TypeOK
<1>5. PICK m \in Nat : m = Len(q) /\ DOMAIN q = 1..m
  BY <1>4, ListFacts
<1>6. /\ \A i \in 1..m : q[i] \in Servers
      /\ \A i, k \in 1..m : q[i] = q[k] => i = k
      /\ Range(q) = {q[i] : i \in 1..m}
  BY <1>4, <1>5, ListFacts
<1>7. \A s \in others : s \in Range(servers) <=> s \in Range(q)
  BY <1>3, UntouchedSame
<1>8. InOrder(servers, q)
  BY <1>3, OrderKept
<1>9. W = {i \in 1..n : servers[i] \in others} /\ V = {j \in 1..m : q[j] \in others}
  BY <1>1, <1>3, <1>5
<1>. DEFINE f == [i \in W |-> CHOOSE j \in 1..m : q[j] = servers[i]]
<1>10. ASSUME NEW i \in W PROVE f[i] \in V /\ q[f[i]] = servers[i]
  <2>1. \E j \in 1..m : q[j] = servers[i]
    BY <1>2, <1>6, <1>7, <1>9
  <2>. QED BY <1>9, <2>1
<1>11. W \subseteq 1..n /\ V \subseteq 1..m /\ DOMAIN f = W /\ f \in [W -> V]
  BY <1>10, <1>9
<1>. HIDE DEF f
<1>12. ASSUME NEW j \in V PROVE \E i \in W : f[i] = j
  <2>1. q[j] \in Range(servers) /\ q[j] \in others
    BY <1>6, <1>7, <1>9
  <2>2. PICK i \in W : servers[i] = q[j]
    BY <1>2, <1>9, <2>1
  <2>3. f[i] \in 1..m /\ q[f[i]] = q[j] /\ j \in 1..m
    BY <1>10, <1>9, <2>2
  <2>. QED BY <1>6, <2>2, <2>3
<1>13. \A i, k \in W : i < k => f[i] < f[k]
  BY <1>1, <1>5, <1>8, <1>10, <1>9 DEF InOrder
<1>. QED BY <1>3, <1>10, <1>11, <1>12, <1>13 DEF Carried

(* Where an untouched server is after a step, its entry is there too.      *)
LEMMA EntriesKept ==
  ASSUME DocInv, DocInv', Next, NEW u \in users \cap users', NEW others,
         others = {s \in Servers : DisplayName(s) \notin TouchedNames},
         NEW table, table = EntryTable(u), NEW after, after = EntryTable(u)',
         NEW P, P = ShownPlaces(u, others), NEW Q, Q = ShownPlaces(u, others)'
  PROVE  EntriesAt(after, Q) = EntriesAt(table, P)
<1>1. PICK n \in Nat : n = Len(servers) /\ DOMAIN servers = 1..n
  BY ServersFacts
<1>2. \A i \in 1..n : servers[i] \in Servers
  BY <1>1, ServersFacts
<1>3. PICK q : q = servers'
  OBVIOUS
<1>4. q \in Seq(Servers) /\ IsInjective(q)
  BY <1>3 DEF DocInv, TypeOK
<1>5. PICK m \in Nat : m = Len(q) /\ DOMAIN q = 1..m
  BY <1>4, ListFacts
<1>6. \A j \in 1..m : q[j] \in Servers
  BY <1>4, <1>5, ListFacts
<1>7. PICK p : p = servers
  OBVIOUS
<1>8. PICK l, r : l = link[u] /\ r = link'[u]
  OBVIOUS
<1>9. PICK name, new : /\ name = [s \in Servers |-> DisplayName(s)]
                       /\ new = [s \in Servers |-> DisplayName(s)']
  OBVIOUS
<1>10. PICK T : T = TouchedNames
  OBVIOUS
<1>11. others = {s \in Servers : name[s] \notin T}
  BY <1>9, <1>10
<1>12. \A s \in Servers : name[s] \notin T \/ new[s] \notin T => new[s] = name[s] /\ r[s] = l[s]
  BY <1>8, <1>9, <1>10, UntouchedSame
<1>. DEFINE A(i) == {h \in 1..i : Ready(l[p[h]]) /\ name[p[h]] = name[p[i]]}
            B(j) == {h \in 1..j : Ready(r[q[h]]) /\ new[q[h]] = new[q[j]]}
            W == {i \in 1..n : p[i] \in others}
            V == {j \in 1..m : q[j] \in others}
<1>13. ASSUME NEW i \in 1..n
       PROVE  table[i] = Proxy(l[p[i]].uri, Number(name[p[i]], Cardinality(A(i))), p[i])
  <2>1. \A h \in 1..i : p[h] \in Servers
    BY <1>2, <1>7
  <2>2. Namesakes(u, i) = A(i)
    BY <1>7, <1>8, <1>9, <2>1 DEF Namesakes
  <2>. HIDE DEF A
  <2>. QED BY <1>1, <1>2, <1>7, <1>8, <1>9, <2>2 DEF EntryTable, Entry
<1>14. ASSUME NEW j \in 1..m
       PROVE  after[j] = Proxy(r[q[j]].uri, Number(new[q[j]], Cardinality(B(j))), q[j])
  <2>1. \A h \in 1..j : q[h] \in Servers
    BY <1>6
  <2>2. \A h \in 1..j : new[q[h]] = DisplayName(servers[h])'
    BY <1>3, <1>9, <2>1 DEF DisplayName
  <2>3. Namesakes(u, j)' = B(j)
    BY <1>3, <1>8, <2>2 DEF Namesakes
  <2>. HIDE DEF B
  <2>4. new[q[j]] = DisplayName(servers[j])'
    BY <2>2
  <2>5. j \in DOMAIN servers'
    BY <1>3, <1>5
  <2>. QED BY <1>3, <1>8, <2>3, <2>4, <2>5 DEF EntryTable, Entry
<1>15. P = {i \in W : Ready(l[p[i]]) /\ Parses(l[p[i]].uri)}
  BY <1>1, <1>7, <1>8 DEF ShownPlaces, Listed
<1>16. Q = {j \in V : Ready(r[q[j]]) /\ Parses(r[q[j]].uri)}
  BY <1>3, <1>5, <1>8 DEF ShownPlaces, Listed
<1>17. PICK f \in [W -> V] : /\ \A j \in V : \E i \in W : f[i] = j
                             /\ \A i \in W : q[f[i]] = p[i]
                             /\ \A i, h \in W : i < h => f[i] < f[h]
  <2>1. /\ W = {i \in DOMAIN servers : servers[i] \in others}
        /\ V = {j \in DOMAIN servers' : servers'[j] \in others}
    BY <1>1, <1>3, <1>5, <1>7
  <2>. HIDE DEF W, V
  <2>2. Carried(servers, servers', W, V)
    BY <2>1, UntouchedPlaces
  <2>. QED BY <1>3, <1>7, <2>2 DEF Carried
<1>18. /\ \A i \in W : i \in 1..n /\ i \in Nat /\ p[i] \in others /\ p[i] \in Servers
                    /\ f[i] \in V /\ q[f[i]] = p[i]
       /\ \A j \in V : j \in 1..m /\ j \in Nat /\ q[j] \in others /\ q[j] \in Servers
  BY <1>2, <1>6, <1>7, <1>17
<1>19. \A s \in others : s \in Servers /\ name[s] \notin T /\ new[s] = name[s] /\ r[s] = l[s]
  BY <1>11, <1>12
<1>20. ASSUME NEW i \in W PROVE Cardinality(B(f[i])) = Cardinality(A(i))
  <2>1. PICK y \in Nat : y = f[i] /\ y \in V /\ q[y] = p[i]
    BY <1>18
  <2>2. ASSUME NEW h \in A(i) PROVE h \in W /\ f[h] \in B(y)
    <3>1. h \in 1..n /\ h <= i /\ Ready(l[p[h]]) /\ name[p[h]] = name[p[i]]
      BY <1>18
    <3>2. p[h] \in Servers /\ name[p[h]] \notin T
      BY <1>2, <1>7, <1>18, <1>19, <3>1
    <3>3. h \in W
      BY <1>11, <3>1, <3>2
    <3>4. PICK x \in Nat : x = f[h] /\ x \in V /\ q[x] = p[h]
      BY <1>18, <3>3
    <3>5. h < i \/ h = i
      BY <1>18, <3>1
    <3>6. x <= y
      BY <1>17, <2>1, <3>3, <3>4, <3>5
    <3>7. x \in 1..y
      BY <1>18, <3>4, <3>6
    <3>8. Ready(r[q[x]]) /\ new[q[x]] = new[q[y]]
      BY <1>18, <1>19, <2>1, <3>1, <3>3, <3>4
    <3>. QED BY <3>3, <3>4, <3>7, <3>8
  <2>3. ASSUME NEW j \in B(y) PROVE \E h \in A(i) : f[h] = j
    <3>1. j \in 1..m /\ j <= y /\ Ready(r[q[j]]) /\ new[q[j]] = new[q[y]]
      BY <1>18, <2>1
    <3>2. q[j] \in Servers /\ new[q[j]] \notin T
      BY <1>6, <1>18, <1>19, <2>1, <3>1
    <3>3. new[q[j]] = name[q[j]] /\ r[q[j]] = l[q[j]]
      BY <1>12, <3>2
    <3>4. j \in V
      BY <1>11, <3>1, <3>2, <3>3
    <3>5. PICK h \in W : f[h] = j
      BY <1>17, <3>4
    <3>6. ~(i < h)
      BY <1>17, <2>1, <3>1, <3>5
    <3>7. h \in 1..i
      BY <1>18, <3>6
    <3>8. q[j] = p[h]
      BY <1>18, <3>5
    <3>9. Ready(l[p[h]]) /\ name[p[h]] = name[p[i]]
      BY <1>18, <1>19, <2>1, <3>1, <3>3, <3>8
    <3>. QED BY <3>5, <3>7, <3>9
  <2>4. IsFiniteSet(A(i))
    <3>1. A(i) \in SUBSET (1..i)
      OBVIOUS
    <3>. HIDE DEF A
    <3>. QED BY <1>18, <3>1, FinitePlaces
  <2>5. \A g, h \in W : f[g] = f[h] => g = h
    <3>. SUFFICES ASSUME NEW g \in W, NEW h \in W, f[g] = f[h], g # h PROVE FALSE
      OBVIOUS
    <3>1. g < h \/ h < g
      BY <1>18
    <3>2. f[g] < f[h] \/ f[h] < f[g]
      BY <1>17, <3>1
    <3>3. PICK x \in Nat : x = f[g]
      BY <1>18
    <3>. QED BY <3>2, <3>3
  <2>. HIDE DEF A, B, W, V
  <2>. DEFINE c == [h \in A(i) |-> f[h]]
  <2>6. c \in [A(i) -> B(y)] /\ \A h \in A(i) : c[h] = f[h] /\ h \in W
    BY <2>2
  <2>. HIDE DEF c
  <2>7. /\ \A j \in B(y) : \E h \in A(i) : c[h] = j
        /\ \A g, h \in A(i) : c[g] = c[h] => g = h
    BY <2>3, <2>5, <2>6
  <2>. QED BY <2>1, <2>4, <2>6, <2>7, SameNumber
<1>21. ASSUME NEW i \in W PROVE after[f[i]] = table[i]
  <2>1. PICK y : y = f[i] /\ y \in 1..m /\ q[y] = p[i]
    BY <1>18
  <2>2. Cardinality(B(y)) = Cardinality(A(i))
    BY <1>20, <2>1
  <2>3. new[p[i]] = name[p[i]] /\ r[p[i]] = l[p[i]] /\ i \in 1..n
    BY <1>18, <1>19
  <2>. HIDE DEF A, B
  <2>. QED BY <1>13, <1>14, <2>1, <2>2, <2>3
<1>. DEFINE g == [i \in P |-> f[i]]
<1>22. P \in SUBSET (1..n) /\ Q \in SUBSET (1..m) /\ P \subseteq W
  BY <1>15, <1>16
<1>23. g \in [P -> Q] /\ \A i \in P : g[i] = f[i] /\ i \in W
  <2>1. ASSUME NEW i \in P PROVE f[i] \in Q
    <3>1. i \in W /\ Ready(l[p[i]]) /\ Parses(l[p[i]].uri)
      BY <1>15
    <3>2. f[i] \in V /\ q[f[i]] = p[i] /\ r[p[i]] = l[p[i]]
      BY <1>18, <1>19, <3>1
    <3>. HIDE DEF W, V
    <3>. QED BY <1>16, <3>1, <3>2
  <2>. HIDE DEF W, V
  <2>. QED BY <1>22, <2>1
<1>24. ASSUME NEW j \in Q PROVE \E i \in P : g[i] = j
  <2>1. j \in V /\ Ready(r[q[j]]) /\ Parses(r[q[j]].uri)
    BY <1>16
  <2>2. PICK i \in W : f[i] = j
    BY <1>17, <2>1
  <2>3. q[j] = p[i] /\ r[p[i]] = l[p[i]]
    BY <1>18, <1>19, <2>2
  <2>4. i \in P
    BY <1>15, <2>1, <2>2, <2>3
  <2>. QED BY <1>23, <2>2, <2>4
<1>. HIDE DEF g, A, B, W, V
<1>25. \A i, h \in P : i < h => g[i] < g[h]
  BY <1>17, <1>23
<1>26. /\ Cardinality(Q) = Cardinality(P)
       /\ \A c \in 1..Cardinality(P) : /\ Place(P, c) \in P
                                       /\ Place(Q, c) = g[Place(P, c)]
  <2>1. g \in [P -> Q] /\ \A j \in Q : \E i \in P : g[i] = j
    BY <1>23, <1>24
  <2>2. Ascends(n, m, P, Q, g)
    BY <1>22, <1>25, <2>1 DEF Ascends
  <2>. QED BY ONLY <2>2, Renumbered
<1>27. \A c \in 1..Cardinality(P) : after[Place(Q, c)] = table[Place(P, c)]
  BY <1>21, <1>23, <1>26
<1>. QED BY <1>26, <1>27 DEF EntriesAt

(* A step that concerns some servers leaves the proxies of all others on   *)
(* every list as they are, under their names and in their order, unless    *)
(* they share a display name with one of them: only namesakes are numbered *)
(* by each other (mihomo.go 563-573).                                      *)
THEOREM OnlyNamesakesAreRenumbered == Spec => OnlyNamesakesMove
<1>1. Shows
  BY ListShows
<1>2. Shows'
  BY ListShows, PTL
<1>3. DocInv /\ [Next]_vars => DocInv'
  BY DocStep
<1>4. ASSUME DocInv, DocInv', Shows, Shows', Next PROVE OthersStay
  <2>. DEFINE others == {s \in Servers : DisplayName(s) \notin TouchedNames}
  <2>. SUFFICES ASSUME NEW u \in users \cap users'
                PROVE  Shown(Provider(u), others) = Shown(Provider(u)', others)
    BY DEF OthersStay
  <2>1. u \in Accounts
    BY <1>4 DEF DocInv, TypeOK
  <2>2. PICK some \in SUBSET Servers : some = others
    OBVIOUS
  <2>3. PICK list, table, P : list = Provider(u) /\ table = EntryTable(u) /\ P = ShownPlaces(u, some)
    OBVIOUS
  <2>4. PICK new, after, Q :
          new = Provider(u)' /\ after = EntryTable(u)' /\ Q = ShownPlaces(u, some)'
    OBVIOUS
  <2>5. Shown(list, some) = EntriesAt(table, P)
    BY <1>4, <2>1, <2>3 DEF Shows, ShownAs
  <2>6. Shown(new, some) = EntriesAt(after, Q)
    BY <1>4, <2>1, <2>4 DEF Shows, ShownAs
  <2>7. EntriesAt(after, Q) = EntriesAt(table, P)
    BY <1>4, <2>2, <2>3, <2>4, EntriesKept
  <2>. QED BY <2>2, <2>3, <2>4, <2>5, <2>6, <2>7
<1>. QED BY <1>1, <1>2, <1>3, <1>4, DocumentSound, PTL DEF Spec, OnlyNamesakesMove
=============================================================================
