-------------------------- MODULE ServiceLeaseProofs --------------------------
(***************************************************************************)
(* For any callers of Close, readiness attempts and failures of docker and  *)
(* every selection: what the lease knows while its services start, that a   *)
(* gate operation has all of it, and what is left when Close is done.       *)
(***************************************************************************)
EXTENDS ServiceLease, FiniteSetTheorems, TLAPS

Names == {"rabbitstream", "rabbitstream-standalone", "valkey"}

\* The catalog in order, and the service that is next.
LEMMA CatalogNames == ToSet(Catalog) = Names
  BY DEF ToSet, Catalog, Names

LEMMA FirstName ==
    ASSUME NEW names \in SUBSET Names, names # {}
    PROVE  /\ First(names) \in names
           /\ "rabbitstream" \in names => First(names) = "rabbitstream"
  <1> DEFINE places == {i \in 1..Len(Catalog) : Catalog[i] \in names}
             Least(i) == i \in places /\ \A j \in places : i <= j
  <1>1. /\ Len(Catalog) = 3 /\ Catalog[1] = "rabbitstream"
        /\ Catalog[2] = "rabbitstream-standalone" /\ Catalog[3] = "valkey"
    BY DEF Catalog
  <1>2. places = {i \in {1, 2, 3} : Catalog[i] \in names}
    BY <1>1
  <1>3. \E i \in places : \A j \in places : i <= j
    <2>1. CASE "rabbitstream" \in names
      BY <1>1, <1>2, <2>1
    <2>2. CASE "rabbitstream" \notin names /\ "rabbitstream-standalone" \in names
      BY <1>1, <1>2, <2>2
    <2>3. CASE "rabbitstream" \notin names /\ "rabbitstream-standalone" \notin names
      <3>1. "valkey" \in names
        BY <2>3 DEF Names
      <3> QED
        BY <1>1, <1>2, <2>3, <3>1
    <2> QED
      BY <2>1, <2>2, <2>3
  <1>4. PICK least : least = CHOOSE i \in places : \A j \in places : i <= j
    OBVIOUS
  <1>5. least \in places /\ \A j \in places : least <= j
    BY <1>3, <1>4
  <1>6. First(names) = Catalog[least]
    BY <1>4 DEF First
  <1>7. "rabbitstream" \in names => least = 1
    BY <1>1, <1>2, <1>5
  <1> QED
    BY <1>1, <1>2, <1>5, <1>6, <1>7

\* The programs, operation by operation.
LEMMA Joined ==
    ASSUME NEW S, NEW s \in Seq(S), NEW t \in Seq(S)
    PROVE  /\ Len(s \o t) = Len(s) + Len(t)
           /\ \A i \in 1..Len(s) : (s \o t)[i] = s[i]
           /\ \A i \in Len(s) + 1..Len(s) + Len(t) : (s \o t)[i] = t[i - Len(s)]
  OBVIOUS

LEMMA NineAndTen ==
    ASSUME NEW m, NEW n, m = 9, n = 10, NEW joined, NEW s, NEW t,
           \A i \in 1..m : joined[i] = s[i],
           \A i \in m + 1..m + n : joined[i] = t[i - m]
    PROVE  /\ \A i \in 1..9 : joined[i] = s[i]
           /\ joined[10] = t[1] /\ joined[11] = t[2] /\ joined[12] = t[3] /\ joined[13] = t[4]
           /\ joined[14] = t[5] /\ joined[15] = t[6] /\ joined[16] = t[7] /\ joined[17] = t[8]
           /\ joined[18] = t[9] /\ joined[19] = t[10]
  <1>1. \A i \in 10..19 : joined[i] = t[i - 9]
    OBVIOUS
  <1>2. /\ 10 - 9 = 1 /\ 11 - 9 = 2 /\ 12 - 9 = 3 /\ 13 - 9 = 4 /\ 14 - 9 = 5 /\ 15 - 9 = 6
        /\ 16 - 9 = 7 /\ 17 - 9 = 8 /\ 18 - 9 = 9 /\ 19 - 9 = 10
    OBVIOUS
  <1>3. /\ joined[10] = t[10 - 9] /\ joined[11] = t[11 - 9] /\ joined[12] = t[12 - 9]
        /\ joined[13] = t[13 - 9] /\ joined[14] = t[14 - 9] /\ joined[15] = t[15 - 9]
        /\ joined[16] = t[16 - 9] /\ joined[17] = t[17 - 9] /\ joined[18] = t[18 - 9]
        /\ joined[19] = t[19 - 9]
    BY <1>1
  <1> QED
    BY <1>2, <1>3

LEMMA StandaloneProgram ==
    ASSUME NEW token
    PROVE  LET p == Standalone(token)
               network == Network(token, "")
           IN  /\ Len(p) = 9
               /\ p[1] = Check /\ p[2] = Create(network)
               /\ p[3] = Create(Container(token, "proxy", {network})) /\ p[4] = Check
               /\ p[5] = Create(Container(token, "rabbit", {network})) /\ p[6] = Check
               /\ p[7] = Ready /\ p[8] = Check /\ p[9] = Publish("rabbitstream-standalone")
  BY DEF Standalone

LEMMA GenericProgram ==
    ASSUME NEW name
    PROVE  LET p == Generic(name)
           IN  /\ Len(p) = 4 /\ p[1] = Create(Container("task", name, {}))
               /\ p[2] = Check /\ p[3] = Ready /\ p[4] = Publish(name)
  BY DEF Generic

LEMMA ClusterProgram ==
    LET p == Cluster("task")
        network == Network("task", "network")
    IN  /\ Len(p) = 19
        /\ \A i \in 1..9 : p[i] = Standalone("single")[i]
        /\ p[10] = Withdraw("rabbitstream-standalone") /\ p[11] = Check
        /\ p[12] = Create(network) /\ p[13] = Create(Volume("task"))
        /\ p[14] = Create(Container("task", "proxy", {network})) /\ p[15] = Check
        /\ p[16] = Track(Members("task")) /\ p[17] = Compose /\ p[18] = Check
        /\ p[19] = Publish("rabbitstream")
  <1>1. PICK s : s = Standalone("single")
    OBVIOUS
  <1>2. PICK t : t = <<Withdraw("rabbitstream-standalone"),
      Check,
      Create(Network("task", "network")),
      Create(Volume("task")),
      Create(Container("task", "proxy", {Network("task", "network")})),
      Check, Track(Members("task")), Compose, Check, Publish("rabbitstream")>>
    OBVIOUS
  <1>3. Cluster("task") = s \o t
    BY <1>1, <1>2 DEF Cluster
  <1> DEFINE S == {s[1], s[2], s[3], s[4], s[5], s[6], s[7], s[8], s[9],
                   t[1], t[2], t[3], t[4], t[5], t[6], t[7], t[8], t[9], t[10]}
  <1>4. s \in Seq(S) /\ Len(s) = 9
    <2>1. \E a, b, c, d, e, f, g, h, i : s = <<a, b, c, d, e, f, g, h, i>>
      BY <1>1 DEF Standalone
    <2>2. PICK a, b, c, d, e, f, g, h, i : s = <<a, b, c, d, e, f, g, h, i>>
      BY <2>1
    <2>3. s[1] = a /\ s[2] = b /\ s[3] = c /\ s[4] = d /\ s[5] = e /\ s[6] = f /\ s[7] = g /\ s[8] = h /\ s[9] = i
      BY <2>2
    <2>4. {a, b, c, d, e, f, g, h, i} \subseteq S
      BY <2>3
    <2> HIDE DEF S
    <2>5. Len(s) = 9
      BY <2>2
    <2> QED
      BY <2>2, <2>4, <2>5
  <1>5. t \in Seq(S) /\ Len(t) = 10
    BY <1>2
  <1> HIDE DEF S
  <1>6. /\ Len(s \o t) = 19
        /\ \A i \in 1..9 : (s \o t)[i] = s[i]
        /\ (s \o t)[10] = t[1] /\ (s \o t)[11] = t[2] /\ (s \o t)[12] = t[3] /\ (s \o t)[13] = t[4]
        /\ (s \o t)[14] = t[5] /\ (s \o t)[15] = t[6] /\ (s \o t)[16] = t[7] /\ (s \o t)[17] = t[8]
        /\ (s \o t)[18] = t[9] /\ (s \o t)[19] = t[10]
    <2>1. /\ Len(s \o t) = Len(s) + Len(t)
          /\ \A i \in 1..Len(s) : (s \o t)[i] = s[i]
          /\ \A i \in Len(s) + 1..Len(s) + Len(t) : (s \o t)[i] = t[i - Len(s)]
      BY <1>4, <1>5, Joined
    <2>2. PICK m, n, joined : m = Len(s) /\ n = Len(t) /\ joined = s \o t
      OBVIOUS
    <2>3. m = 9 /\ n = 10
      BY <1>4, <1>5, <2>2
    <2>4. /\ Len(joined) = m + n
          /\ \A i \in 1..m : joined[i] = s[i]
          /\ \A i \in m + 1..m + n : joined[i] = t[i - m]
      BY <2>1, <2>2, Zenon
    <2>5. Len(joined) = 19
      <3>1. m + n = 19
        BY <2>3
      <3> QED
        BY <2>4, <3>1, Zenon
    <2>6. /\ \A i \in 1..9 : joined[i] = s[i]
          /\ joined[10] = t[1] /\ joined[11] = t[2] /\ joined[12] = t[3] /\ joined[13] = t[4]
          /\ joined[14] = t[5] /\ joined[15] = t[6] /\ joined[16] = t[7] /\ joined[17] = t[8]
          /\ joined[18] = t[9] /\ joined[19] = t[10]
      <3>1. \A i \in 1..m : joined[i] = s[i]
        BY <2>4
      <3>2. \A i \in m + 1..m + n : joined[i] = t[i - m]
        BY <2>4
      <3> HIDE <2>1, <2>2, <2>4
      <3> QED
        BY <2>3, <3>1, <3>2, NineAndTen
    <2> QED
      BY <2>2, <2>5, <2>6, Zenon
  <1> QED
    BY <1>1, <1>2, <1>3, <1>6

\* The programs of the three kinds of service.
LEMMA Programs ==
    /\ Steps("rabbitstream") = Cluster("task")
    /\ Steps("rabbitstream-standalone") = Standalone("task")
    /\ Steps("valkey") = Generic("valkey")
  BY DEF Steps

\* What the first operations of a service create or track.
Whats(s, n) == {r \in Resources : \E i \in 1..Len(Steps(s)) : i < n /\ r \in Steps(s)[i].what}

LEMMA WhatIsResource ==
    ASSUME NEW s \in Names, NEW i \in 1..Len(Steps(s)), NEW r \in Steps(s)[i].what
    PROVE  r \in Resources /\ Footprint({r}) \subseteq Resources
  BY CatalogNames DEF Resources, Needed, Footprint, Brought

LEMMA WhatsGrow ==
    ASSUME NEW s \in Names, NEW n \in 1..Len(Steps(s))
    PROVE  Whats(s, n + 1) = Whats(s, n) \cup Steps(s)[n].what
  <1>1. \A i \in 1..Len(Steps(s)) : i < n + 1 <=> (i < n \/ i = n)
    OBVIOUS
  <1>2. \A r \in Steps(s)[n].what : r \in Resources
    BY WhatIsResource
  <1> QED
    BY <1>1, <1>2 DEF Whats

LEMMA WhatsBegin == ASSUME NEW s PROVE Whats(s, 1) = {}
  BY DEF Whats

\* Which operations are where.
Lengths(s) == CASE s = "rabbitstream" -> 19 [] s = "rabbitstream-standalone" -> 9 [] OTHER -> 4

LEMMA ProgramLength == ASSUME NEW s \in Names PROVE Len(Steps(s)) = Lengths(s)
  <1>1. Len(Cluster("task")) = 19
    BY ClusterProgram
  <1>2. Len(Standalone("task")) = 9
    BY StandaloneProgram
  <1>3. Len(Generic("valkey")) = 4
    BY GenericProgram
  <1> QED
    BY <1>1, <1>2, <1>3, Programs DEF Names, Lengths

\* A container may use and bring others, which are no containers.
Sound(r) ==
    /\ r.kind \in {"container", "volume", "network"}
    /\ \A u \in r.uses \cup r.brings : u.kind # "container"
    /\ \A u \in r.brings : u.brings = {}
    /\ r.kind # "container" => r.uses = {}

Placed(s, i) ==
    LET o == Steps(s)[i]
    IN  /\ o.op \in {"create", "track", "compose", "check", "ready", "publish", "withdraw"}
        /\ o.op \notin {"create", "track"} => o.what = {}
        /\ o.op = "track" <=> (s = "rabbitstream" /\ i = 16)
        /\ o.op = "track" => o.what = Members("task")
        /\ o.op = "compose" <=> (s = "rabbitstream" /\ i = 17)
        /\ o.op = "withdraw" <=> (s = "rabbitstream" /\ i = 10)
        /\ o.op = "withdraw" => o.service = "rabbitstream-standalone"
        /\ o.op = "publish" => \/ i = Len(Steps(s)) /\ o.service = s
                               \/ s = "rabbitstream" /\ i = 9 /\ o.service = "rabbitstream-standalone"
        /\ (s = "rabbitstream" /\ i = 9) => o.op = "publish"
        /\ i = Len(Steps(s)) => o.op = "publish"
        /\ o.op = "create" => \E r : o.what = {r} /\ Sound(r)

Special(s, i) == s = "rabbitstream" /\ i \in {9, 10, 16, 17}

LEMMA PlainPlaced ==
    ASSUME NEW s, NEW i, Steps(s)[i] \in {Check, Ready}, i # Len(Steps(s)), ~Special(s, i)
    PROVE  Placed(s, i)
  <1> DEFINE o == Steps(s)[i]
  <1>1. o.op \in {"check", "ready"} /\ o.what = {}
    BY DEF Check, Ready, Step
  <1> HIDE DEF o
  <1> QED
    BY <1>1 DEF Placed, Special, o

LEMMA CreatePlaced ==
    ASSUME NEW s, NEW i, NEW r, Steps(s)[i] = Create(r), Sound(r),
           i # Len(Steps(s)), ~Special(s, i)
    PROVE  Placed(s, i)
  <1>1. Steps(s)[i].op = "create" /\ Steps(s)[i].what = {r}
    BY DEF Create, Step
  <1> QED
    BY <1>1 DEF Placed, Special

LEMMA PublishPlaced ==
    ASSUME NEW s, NEW i, NEW name, Steps(s)[i] = Publish(name),
           \/ i = Len(Steps(s)) /\ name = s /\ ~Special(s, i)
           \/ s = "rabbitstream" /\ i = 9 /\ name = "rabbitstream-standalone"
    PROVE  Placed(s, i)
  <1>1. Steps(s)[i].op = "publish" /\ Steps(s)[i].what = {} /\ Steps(s)[i].service = name
    BY DEF Publish, Step
  <1> QED
    BY <1>1 DEF Placed, Special

LEMMA NetworkIsSound == ASSUME NEW token, NEW part PROVE Sound(Network(token, part))
  BY DEF Sound, Network, Resource

LEMMA VolumeIsSound == ASSUME NEW token PROVE Sound(Volume(token))
  BY DEF Sound, Volume, Resource

LEMMA ContainerIsSound ==
    ASSUME NEW token, NEW part, NEW uses, \A u \in uses : u.kind # "container"
    PROVE  Sound(Container(token, part, uses))
  <1>1. Anonymous(token, part).kind # "container" /\ Anonymous(token, part).brings = {}
    BY DEF Anonymous, Resource
  <1>2. /\ Container(token, part, uses).kind = "container" /\ Container(token, part, uses).uses = uses
        /\ Container(token, part, uses).brings \subseteq {Anonymous(token, part)}
    BY DEF Container, Resource
  <1> QED
    BY <1>1, <1>2 DEF Sound

LEMMA GenericPlaced == ASSUME NEW i \in 1..4 PROVE Placed("valkey", i)
  <1>1. Len(Steps("valkey")) = 4 /\ "valkey" \in Names
    BY Programs, GenericProgram DEF Names
  <1>2. i \in {1, 2, 3, 4} /\ ~Special("valkey", i)
    BY DEF Special
  <1>3. /\ Steps("valkey")[1] = Create(Container("task", "valkey", {}))
        /\ Steps("valkey")[2] = Check /\ Steps("valkey")[3] = Ready
        /\ Steps("valkey")[4] = Publish("valkey")
    BY Programs, GenericProgram
  <1>4. Sound(Container("task", "valkey", {}))
    BY ContainerIsSound
  <1>5. CASE i = 1
    BY <1>1, <1>2, <1>3, <1>4, <1>5, CreatePlaced
  <1>6. CASE i \in {2, 3}
    BY <1>1, <1>2, <1>3, <1>6, PlainPlaced
  <1>7. CASE i = 4
    BY <1>1, <1>2, <1>3, <1>7, PublishPlaced
  <1> QED
    BY <1>2, <1>5, <1>6, <1>7

\* The first nine operations of both streams services.
LEMMA StandalonePlaced ==
    ASSUME NEW s \in {"rabbitstream", "rabbitstream-standalone"}, NEW token, NEW i \in 1..9,
           \A j \in 1..9 : Steps(s)[j] = Standalone(token)[j],
           Len(Steps(s)) = IF s = "rabbitstream" THEN 19 ELSE 9
    PROVE  Placed(s, i)
  <1>1. s \in Names /\ i \in {1, 2, 3, 4, 5, 6, 7, 8, 9}
    BY DEF Names
  <1>2. PICK network : network = Network(token, "")
    OBVIOUS
  <1>3. /\ Steps(s)[1] = Check /\ Steps(s)[2] = Create(network)
        /\ Steps(s)[3] = Create(Container(token, "proxy", {network})) /\ Steps(s)[4] = Check
        /\ Steps(s)[5] = Create(Container(token, "rabbit", {network})) /\ Steps(s)[6] = Check
        /\ Steps(s)[7] = Ready /\ Steps(s)[8] = Check /\ Steps(s)[9] = Publish("rabbitstream-standalone")
    <2> DEFINE p == Standalone(token)
    <2>1. /\ p[1] = Check /\ p[2] = Create(network)
          /\ p[3] = Create(Container(token, "proxy", {network})) /\ p[4] = Check
          /\ p[5] = Create(Container(token, "rabbit", {network})) /\ p[6] = Check
          /\ p[7] = Ready /\ p[8] = Check /\ p[9] = Publish("rabbitstream-standalone")
      BY <1>2, StandaloneProgram
    <2> HIDE DEF p
    <2>2. \A j \in 1..9 : Steps(s)[j] = p[j]
      BY DEF p
    <2>3. /\ Steps(s)[1] = p[1] /\ Steps(s)[2] = p[2] /\ Steps(s)[3] = p[3] /\ Steps(s)[4] = p[4]
          /\ Steps(s)[5] = p[5] /\ Steps(s)[6] = p[6] /\ Steps(s)[7] = p[7] /\ Steps(s)[8] = p[8]
          /\ Steps(s)[9] = p[9]
      BY <2>2
    <2> QED
      BY <2>1, <2>3
  <1>4. network.kind # "container"
    BY <1>2 DEF Network, Resource
  <1>6. /\ Sound(network)
        /\ Sound(Container(token, "proxy", {network}))
        /\ Sound(Container(token, "rabbit", {network}))
    <2>1. \A u \in {network} : u.kind # "container"
      BY <1>4
    <2>2. Sound(network)
      BY <1>2, NetworkIsSound
    <2>3. Sound(Container(token, "proxy", {network})) /\ Sound(Container(token, "rabbit", {network}))
      BY <2>1, ContainerIsSound
    <2> QED
      BY <2>2, <2>3
  <1>7. i # 9 => ~Special(s, i) /\ i # Len(Steps(s))
    BY <1>1 DEF Special
  <1>8. CASE i \in {1, 4, 6, 7, 8}
    BY <1>3, <1>7, <1>8, PlainPlaced
  <1>9. CASE i \in {2, 3, 5}
    BY <1>3, <1>6, <1>7, <1>9, CreatePlaced
  <1>10. CASE i = 9
    <2>1. Steps(s)[i] = Publish("rabbitstream-standalone")
      BY <1>3, <1>10
    <2>2. CASE s = "rabbitstream"
      BY <1>10, <2>1, <2>2, PublishPlaced
    <2>3. CASE s # "rabbitstream"
      <3>1. s = "rabbitstream-standalone" /\ ~Special(s, i) /\ i = Len(Steps(s))
        BY <1>10, <2>3 DEF Special
      <3> QED
        BY <2>1, <3>1, PublishPlaced
    <2> QED
      BY <2>2, <2>3
  <1> QED
    BY <1>1, <1>8, <1>9, <1>10

LEMMA ClusterPlaced ==
    ASSUME NEW i \in 10..19
    PROVE  Placed("rabbitstream", i)
  <1> DEFINE p == Steps("rabbitstream")
  <1>1. "rabbitstream" \in Names /\ i \in {10, 11, 12, 13, 14, 15, 16, 17, 18, 19}
    BY DEF Names
  <1>2. PICK network : network = Network("task", "network")
    OBVIOUS
  <1>3. /\ Len(p) = 19
        /\ p[10] = Withdraw("rabbitstream-standalone") /\ p[11] = Check
        /\ p[12] = Create(network) /\ p[13] = Create(Volume("task"))
        /\ p[14] = Create(Container("task", "proxy", {network})) /\ p[15] = Check
        /\ p[16] = Track(Members("task")) /\ p[17] = Compose /\ p[18] = Check
        /\ p[19] = Publish("rabbitstream")
    BY <1>2, Programs, ClusterProgram
  <1> HIDE DEF p
  <1>4. network.kind # "container"
    BY <1>2 DEF Network, Resource
  <1>6. CASE i \in {11, 15, 18}
    <2>1. Steps("rabbitstream")[i] = Check /\ i # Len(Steps("rabbitstream"))
      BY <1>3, <1>6 DEF p
    <2>2. ~Special("rabbitstream", i)
      BY <1>6 DEF Special
    <2> QED
      BY <2>1, <2>2, PlainPlaced
  <1>7. CASE i \in {12, 13, 14}
    <2>1. i # Len(Steps("rabbitstream")) /\ ~Special("rabbitstream", i)
      BY <1>3, <1>7 DEF Special, p
    <2>2. CASE i = 12
      <3>1. Steps("rabbitstream")[i] = Create(network) /\ Sound(network)
        BY <1>2, <1>3, <2>2, NetworkIsSound DEF p
      <3> QED
        BY <2>1, <3>1, CreatePlaced
    <2>3. CASE i = 13
      <3>1. Steps("rabbitstream")[i] = Create(Volume("task"))
        BY <1>3, <2>3 DEF p
      <3>2. Sound(Volume("task"))
        BY VolumeIsSound
      <3> QED
        BY <2>1, <3>1, <3>2, CreatePlaced
    <2>4. CASE i = 14
      <3>1. Steps("rabbitstream")[i] = Create(Container("task", "proxy", {network}))
        BY <1>3, <2>4 DEF p
      <3>2. \A u \in {network} : u.kind # "container"
        BY <1>4
      <3>3. Sound(Container("task", "proxy", {network}))
        BY <3>2, ContainerIsSound
      <3> QED
        BY <2>1, <3>1, <3>3, CreatePlaced
    <2> QED
      BY <1>7, <2>2, <2>3, <2>4
  <1>8. CASE i = 10
    <2>1. p[i].op = "withdraw" /\ p[i].what = {} /\ p[i].service = "rabbitstream-standalone" /\ Len(p) = 19
      BY <1>3, <1>8 DEF Withdraw, Step
    <2> QED
      BY <1>8, <2>1 DEF Placed, p
  <1>9. CASE i = 16
    <2>1. p[i].op = "track" /\ p[i].what = Members("task") /\ Len(p) = 19
      BY <1>3, <1>9 DEF Track, Step
    <2> QED
      BY <1>9, <2>1 DEF Placed, p
  <1>10. CASE i = 17
    <2>1. p[i].op = "compose" /\ p[i].what = {} /\ Len(p) = 19
      BY <1>3, <1>10 DEF Compose, Step
    <2> QED
      BY <1>10, <2>1 DEF Placed, p
  <1>11. CASE i = 19
    <2>1. Steps("rabbitstream")[i] = Publish("rabbitstream") /\ i = Len(Steps("rabbitstream"))
      BY <1>3, <1>11 DEF p
    <2>2. ~Special("rabbitstream", i)
      BY <1>11 DEF Special
    <2> QED
      BY <2>1, <2>2, PublishPlaced
  <1> QED
    BY <1>1, <1>6, <1>7, <1>8, <1>9, <1>10, <1>11

LEMMA EveryPlaced ==
    ASSUME NEW s \in Names, NEW i \in 1..Len(Steps(s))
    PROVE  Placed(s, i)
  <1>1. i \in 1..Lengths(s)
    BY ProgramLength
  <1>2. CASE s = "valkey"
    BY <1>1, <1>2, GenericPlaced DEF Lengths
  <1>3. CASE s = "rabbitstream-standalone"
    <2>1. Len(Steps(s)) = 9 /\ Steps(s) = Standalone("task")
      BY <1>3, ProgramLength, Programs DEF Lengths
    <2> QED
      BY <1>1, <1>3, <2>1, StandalonePlaced
  <1>4. CASE s = "rabbitstream"
    <2>1. Len(Steps(s)) = 19 /\ \A j \in 1..9 : Steps(s)[j] = Standalone("single")[j]
      BY <1>4, Programs, ClusterProgram
    <2>2. i \in 1..9 \/ i \in 10..19
      BY <2>1
    <2>3. CASE i \in 1..9
      BY <1>4, <2>1, <2>3, StandalonePlaced
    <2>4. CASE i \in 10..19
      BY <1>4, <2>4, ClusterPlaced
    <2> QED
      BY <2>2, <2>3, <2>4
  <1> QED
    BY <1>2, <1>3, <1>4 DEF Names

\* The members are two containers, not tracked before.
LEMMA MembersAreSound ==
    /\ \A r \in Members("task") : r.kind = "container" /\ Sound(r)
    /\ \E r, q : Members("task") = {r, q} /\ r # q
  <1>1. PICK network, volume, default :
            network = Network("task", "network") /\ volume = Volume("task") /\ default = DefaultNetwork("task")
    OBVIOUS
  <1>2. PICK r, q : r = Container("task", "member", {network, volume})
                    /\ q = Resource("container", <<"task", "certgen">>, {default, volume}, {default})
    OBVIOUS
  <1>3. Members("task") = {r, q}
    BY <1>1, <1>2 DEF Members
  <1>4. /\ r.kind = "container" /\ r.name = <<"task", "member">>
        /\ q.kind = "container" /\ q.name = <<"task", "certgen">>
        /\ q.uses = {default, volume} /\ q.brings = {default}
    BY <1>2 DEF Container, Resource
  <1>5. /\ network.kind # "container" /\ volume.kind # "container" /\ default.kind # "container"
        /\ default.brings = {}
    BY <1>1 DEF Network, Volume, DefaultNetwork, Resource
  <1>6. Sound(r)
    <2>1. \A u \in {network, volume} : u.kind # "container"
      BY <1>5
    <2> QED
      BY <1>2, <2>1, ContainerIsSound
  <1>7. Sound(q)
    BY <1>4, <1>5 DEF Sound
  <1>8. r # q
    BY <1>4
  <1> QED
    BY <1>3, <1>4, <1>6, <1>7, <1>8

\* Only what a program creates or tracks is a container.
LEMMA ResourcesAreSound ==
    ASSUME NEW r \in Resources
    PROVE  /\ r.kind = "container" => Sound(r)
           /\ \A u \in r.brings : u.kind # "container"
  <1>1. ASSUME NEW s \in Names, NEW q \in Needed(s) PROVE Sound(q)
    <2>1. PICK i \in 1..Len(Steps(s)) : q \in Steps(s)[i].what
      BY <1>1 DEF Needed
    <2>2. Placed(s, i)
      BY EveryPlaced
    <2>3. Steps(s)[i].op \in {"create", "track"}
      BY <2>1, <2>2 DEF Placed
    <2>4. CASE Steps(s)[i].op = "create"
      BY <2>1, <2>2, <2>4 DEF Placed
    <2>5. CASE Steps(s)[i].op = "track"
      <3>1. q \in Members("task")
        BY <2>1, <2>2, <2>5 DEF Placed
      <3> QED
        BY <3>1, MembersAreSound
    <2> QED
      BY <2>3, <2>4, <2>5
  <1>2. PICK needed : needed = UNION {Needed(s) : s \in ToSet(Catalog)}
    OBVIOUS
  <1>3. \A q \in needed : Sound(q)
    BY <1>1, <1>2, CatalogNames
  <1>4. r \in needed \/ \E q \in needed : r \in q.brings /\ q \in needed
    BY <1>2 DEF Resources, Footprint, Brought
  <1> QED
    BY <1>3, <1>4 DEF Sound

LEMMA MembersAreNew ==
    ASSUME NEW r \in Whats("rabbitstream", 16)
    PROVE  r \notin Members("task")
  <1> DEFINE p == Steps("rabbitstream")
             New(x) == x.name[1] = "single" \/ x.name[2] \in {"network", "data", "proxy"}
  <1>1. PICK i \in 1..Len(p) : i < 16 /\ r \in p[i].what
    BY DEF Whats
  <1>2. "rabbitstream" \in Names /\ Len(p) = 19
    BY Programs, ClusterProgram DEF Names
  <1>3. i \in {1, 2, 3, 4, 5, 6, 7, 8, 9, 10, 11, 12, 13, 14, 15}
    BY <1>1, <1>2
  <1>4. PICK single, network :
            /\ single = Network("single", "") /\ network = Network("task", "network")
    OBVIOUS
  <1>5. /\ p[1] = Check /\ p[2] = Create(single)
        /\ p[3] = Create(Container("single", "proxy", {single})) /\ p[4] = Check
        /\ p[5] = Create(Container("single", "rabbit", {single})) /\ p[6] = Check
        /\ p[7] = Ready /\ p[8] = Check /\ p[9] = Publish("rabbitstream-standalone")
    <2>1. PICK q : q = Standalone("single")
      OBVIOUS
    <2>2. \A j \in 1..9 : p[j] = q[j]
      BY <2>1, Programs, ClusterProgram
    <2>3. /\ p[1] = q[1] /\ p[2] = q[2] /\ p[3] = q[3] /\ p[4] = q[4] /\ p[5] = q[5]
          /\ p[6] = q[6] /\ p[7] = q[7] /\ p[8] = q[8] /\ p[9] = q[9]
      BY <2>2
    <2>4. /\ q[1] = Check /\ q[2] = Create(single)
          /\ q[3] = Create(Container("single", "proxy", {single})) /\ q[4] = Check
          /\ q[5] = Create(Container("single", "rabbit", {single})) /\ q[6] = Check
          /\ q[7] = Ready /\ q[8] = Check /\ q[9] = Publish("rabbitstream-standalone")
      BY <1>4, <2>1, StandaloneProgram
    <2> QED
      BY <2>3, <2>4
  <1>6. /\ p[10] = Withdraw("rabbitstream-standalone") /\ p[11] = Check
        /\ p[12] = Create(network) /\ p[13] = Create(Volume("task"))
        /\ p[14] = Create(Container("task", "proxy", {network})) /\ p[15] = Check
    BY <1>4, Programs, ClusterProgram
  <1> HIDE DEF p
  <1>7. /\ Check.what = {} /\ Ready.what = {} /\ Publish("rabbitstream-standalone").what = {}
        /\ Withdraw("rabbitstream-standalone").what = {} /\ \A x : Create(x).what = {x}
    BY DEF Check, Ready, Publish, Withdraw, Create, Step
  <1>8. i \in {2, 3, 5, 12, 13, 14}
    BY <1>1, <1>3, <1>5, <1>6, <1>7
  <1>9. \/ r = single \/ r = Container("single", "proxy", {single}) \/ r = Container("single", "rabbit", {single})
        \/ r = network \/ r = Volume("task") \/ r = Container("task", "proxy", {network})
    BY <1>1, <1>5, <1>6, <1>7, <1>8
  <1>10. /\ \A part : Network("single", part).name[1] = "single"
         /\ \A part, uses : Container("single", part, uses).name[1] = "single"
         /\ network.name[2] = "network" /\ Volume("task").name[2] = "data"
         /\ \A uses : Container("task", "proxy", uses).name[2] = "proxy"
    BY <1>4 DEF Network, Volume, Container, Resource
  <1>11. New(r)
    BY <1>4, <1>9, <1>10
  <1>12. /\ \A uses : /\ Container("task", "member", uses).name[1] = "task"
                      /\ Container("task", "member", uses).name[2] = "member"
         /\ \A uses, brings : /\ Resource("container", <<"task", "certgen">>, uses, brings).name[1] = "task"
                              /\ Resource("container", <<"task", "certgen">>, uses, brings).name[2] = "certgen"
    BY DEF Container, Resource
  <1>13. \A x \in Members("task") : ~New(x)
    BY <1>12 DEF Members
  <1> QED
    BY <1>11, <1>13

-----------------------------------------------------------------------------
\* Sequences without repetitions.
Distinct(s) == \A i, j \in 1..Len(s) : s[i] = s[j] => i = j

OfKind(s, kind) == \A i \in 1..Len(s) : s[i].kind = kind

\* Containers go first.
Ordered(s) == \A i, j \in 1..Len(s) : i < j /\ s[j].kind = "container" => s[i].kind = "container"

LEMMA Members1 ==
    ASSUME NEW S, NEW s \in Seq(S)
    PROVE  \A x : x \in ToSet(s) <=> \E i \in 1..Len(s) : s[i] = x
  BY DEF ToSet

LEMMA Appended ==
    ASSUME NEW S, NEW s \in Seq(S), NEW x \in S
    PROVE  /\ Append(s, x) \in Seq(S)
           /\ ToSet(Append(s, x)) = ToSet(s) \cup {x}
           /\ Distinct(s) /\ x \notin ToSet(s) => Distinct(Append(s, x))
           /\ \A kind : OfKind(s, kind) /\ x.kind = kind => OfKind(Append(s, x), kind)
  <1> DEFINE t == Append(s, x)
  <1>1. /\ t \in Seq(S) /\ Len(t) = Len(s) + 1 /\ t[Len(s) + 1] = x
        /\ \A i \in 1..Len(s) : t[i] = s[i]
    OBVIOUS
  <1>2. \A i : i \in 1..Len(s) + 1 <=> i \in 1..Len(s) \/ i = Len(s) + 1
    OBVIOUS
  <1> HIDE DEF t
  <1>3. ToSet(t) = ToSet(s) \cup {x}
    <2>1. \A y : y \in ToSet(t) <=> \E i \in 1..Len(s) + 1 : t[i] = y
      BY <1>1, Members1
    <2>2. \A y : y \in ToSet(s) <=> \E i \in 1..Len(s) : s[i] = y
      BY Members1
    <2> QED
      BY <1>1, <1>2, <2>1, <2>2
  <1>4. Distinct(s) /\ x \notin ToSet(s) => Distinct(t)
    <2>1. \A y : y \in ToSet(s) <=> \E i \in 1..Len(s) : s[i] = y
      BY Members1
    <2> QED
      BY <1>1, <1>2, <2>1 DEF Distinct
  <1>5. \A kind : OfKind(s, kind) /\ x.kind = kind => OfKind(t, kind)
    BY <1>1, <1>2 DEF OfKind
  <1> QED
    BY <1>1, <1>3, <1>4, <1>5 DEF t

LEMMA Concatenated ==
    ASSUME NEW S, NEW s \in Seq(S), NEW t \in Seq(S)
    PROVE  /\ s \o t \in Seq(S)
           /\ ToSet(s \o t) = ToSet(s) \cup ToSet(t)
           /\ Distinct(s) /\ Distinct(t) /\ ToSet(s) \cap ToSet(t) = {} => Distinct(s \o t)
           /\ \A kind : OfKind(s, kind) /\ OfKind(t, kind) => OfKind(s \o t, kind)
           /\ OfKind(s, "container") /\ (\A i \in 1..Len(t) : t[i].kind # "container") => Ordered(s \o t)
           /\ \A kind : (\A i \in 1..Len(s) : s[i].kind # kind) /\ (\A i \in 1..Len(t) : t[i].kind # kind)
                            => \A i \in 1..Len(s \o t) : (s \o t)[i].kind # kind
  <1>1. PICK m, n, u : m = Len(s) /\ n = Len(t) /\ u = s \o t
    OBVIOUS
  <1>2. m \in Nat /\ n \in Nat /\ u \in Seq(S)
    BY <1>1
  <1>3. /\ Len(u) = m + n
        /\ \A i \in 1..m : u[i] = s[i]
        /\ \A i \in m + 1..m + n : u[i] = t[i - m]
    BY <1>1, Joined
  <1>4. \A i : i \in 1..m + n <=> i \in 1..m \/ i \in m + 1..m + n
    BY <1>2
  <1>5. \A i \in m + 1..m + n : i - m \in 1..n
    BY <1>2
  <1>6. \A i \in 1..n : i + m \in m + 1..m + n /\ (i + m) - m = i
    BY <1>2
  <1>7. \A i \in 1..n : u[i + m] = t[i]
    BY <1>3, <1>6
  <1>8. \A i \in 1..m, j \in m + 1..m + n : i # j /\ ~(j < i)
    BY <1>2
  <1>9. /\ \A x : x \in ToSet(s) <=> \E i \in 1..m : s[i] = x
        /\ \A x : x \in ToSet(t) <=> \E i \in 1..n : t[i] = x
        /\ \A x : x \in ToSet(u) <=> \E i \in 1..m + n : u[i] = x
    <2>1. \A x : x \in ToSet(s) <=> \E i \in 1..Len(s) : s[i] = x
      BY Members1
    <2>2. \A x : x \in ToSet(t) <=> \E i \in 1..Len(t) : t[i] = x
      BY Members1
    <2>3. \A x : x \in ToSet(u) <=> \E i \in 1..Len(u) : u[i] = x
      BY <1>2, Members1
    <2>4. Len(u) = m + n
      BY <1>3
    <2> QED
      BY <1>1, <2>1, <2>2, <2>3, <2>4, Zenon
  <1>10. ToSet(u) = ToSet(s) \cup ToSet(t)
    <2>1. \A x : x \in ToSet(u) => x \in ToSet(s) \cup ToSet(t)
      BY <1>3, <1>4, <1>5, <1>9
    <2>2. \A x : x \in ToSet(s) => x \in ToSet(u)
      BY <1>3, <1>4, <1>9
    <2>3. \A x : x \in ToSet(t) => x \in ToSet(u)
      BY <1>4, <1>6, <1>7, <1>9
    <2> QED
      BY <2>1, <2>2, <2>3
  <1>11. ASSUME Distinct(s), Distinct(t), ToSet(s) \cap ToSet(t) = {}
         PROVE  Distinct(u)
    <2>1. SUFFICES ASSUME NEW i \in 1..m + n, NEW j \in 1..m + n, u[i] = u[j]
                   PROVE  i = j
      BY <1>3 DEF Distinct
    <2>2. CASE i \in 1..m /\ j \in 1..m
      BY <1>1, <1>3, <1>11, <2>1, <2>2 DEF Distinct
    <2>3. CASE i \in m + 1..m + n /\ j \in m + 1..m + n
      <3>1. t[i - m] = t[j - m] /\ i - m \in 1..n /\ j - m \in 1..n
        BY <1>3, <1>5, <2>1, <2>3
      <3>2. i - m = j - m
        BY <1>1, <1>11, <3>1 DEF Distinct
      <3> QED
        BY <1>2, <2>3, <3>2
    <2>4. CASE i \in 1..m /\ j \in m + 1..m + n
      BY <1>3, <1>5, <1>9, <1>11, <2>1, <2>4
    <2>5. CASE j \in 1..m /\ i \in m + 1..m + n
      BY <1>3, <1>5, <1>9, <1>11, <2>1, <2>5
    <2> QED
      BY <1>4, <2>2, <2>3, <2>4, <2>5
  <1>12. \A kind : OfKind(s, kind) /\ OfKind(t, kind) => OfKind(u, kind)
    BY <1>1, <1>3, <1>4, <1>5 DEF OfKind
  <1>13. \A kind : (\A i \in 1..Len(s) : s[i].kind # kind) /\ (\A i \in 1..Len(t) : t[i].kind # kind)
                        => \A i \in 1..Len(u) : u[i].kind # kind
    BY <1>1, <1>3, <1>4, <1>5
  <1>14. ASSUME OfKind(s, "container"), \A i \in 1..Len(t) : t[i].kind # "container"
         PROVE  Ordered(u)
    <2>1. \A i \in 1..m + n : u[i].kind = "container" <=> i \in 1..m
      BY <1>1, <1>3, <1>4, <1>5, <1>8, <1>14 DEF OfKind
    <2>2. \A i, j \in 1..m + n : i < j /\ j \in 1..m => i \in 1..m
      BY <1>2
    <2> QED
      BY <1>3, <2>1, <2>2 DEF Ordered
  <1> QED
    BY <1>1, <1>2, <1>10, <1>11, <1>12, <1>13, <1>14

LEMMA Reversed ==
    ASSUME NEW S, NEW s \in Seq(S)
    PROVE  /\ Reverse(s) \in Seq(S)
           /\ ToSet(Reverse(s)) = ToSet(s)
           /\ Distinct(s) => Distinct(Reverse(s))
           /\ \A kind : OfKind(s, kind) => OfKind(Reverse(s), kind)
  <1>1. PICK n, t : n = Len(s) /\ t = Reverse(s)
    OBVIOUS
  <1>2. n \in Nat /\ \A i \in 1..n : s[i] \in S
    BY <1>1
  <1>3. \A i \in 1..n : (n - i) + 1 \in 1..n /\ (n - ((n - i) + 1)) + 1 = i
    BY <1>2
  <1>4. t = [i \in 1..n |-> s[(n - i) + 1]]
    BY <1>1 DEF Reverse
  <1>5. \A i \in 1..n : t[i] = s[(n - i) + 1]
    BY <1>4
  <1>6. t \in Seq(S) /\ Len(t) = n
    BY <1>2, <1>3, <1>4
  <1>7. \A i \in 1..n : s[i] = t[(n - i) + 1]
    BY <1>3, <1>5
  <1>8. ToSet(t) = ToSet(s)
    <2>1. /\ \A x : x \in ToSet(s) <=> \E i \in 1..n : s[i] = x
          /\ \A x : x \in ToSet(t) <=> \E i \in 1..n : t[i] = x
      BY <1>1, <1>6, Members1
    <2> QED
      BY <1>3, <1>5, <1>7, <2>1
  <1>9. ASSUME Distinct(s) PROVE Distinct(t)
    <2>1. SUFFICES ASSUME NEW i \in 1..n, NEW j \in 1..n, t[i] = t[j] PROVE i = j
      BY <1>6 DEF Distinct
    <2>2. (n - i) + 1 = (n - j) + 1
      BY <1>1, <1>3, <1>5, <1>9, <2>1 DEF Distinct
    <2> QED
      BY <1>2, <2>2
  <1>10. \A kind : OfKind(s, kind) => OfKind(t, kind)
    BY <1>1, <1>3, <1>5, <1>6 DEF OfKind
  <1> QED
    BY <1>1, <1>6, <1>8, <1>9, <1>10

\* What is left of a queue when its first element has been taken.
LEMMA Taken1 ==
    ASSUME NEW S, NEW s \in Seq(S), s # <<>>
    PROVE  /\ Head(s) \in S /\ Tail(s) \in Seq(S)
           /\ ToSet(s) = {Head(s)} \cup ToSet(Tail(s))
           /\ Distinct(s) => Distinct(Tail(s)) /\ Head(s) \notin ToSet(Tail(s))
           /\ Ordered(s) => Ordered(Tail(s))
           /\ Ordered(s) /\ Head(s).kind # "container" => \A x \in ToSet(s) : x.kind # "container"
  <1>1. PICK m, h, t : m = Len(s) - 1 /\ h = Head(s) /\ t = Tail(s)
    OBVIOUS
  <1>2. m \in Nat /\ Len(s) = m + 1 /\ h = s[1] /\ h \in S
    BY <1>1
  <1>3. t \in Seq(S) /\ Len(t) = m /\ \A i \in 1..m : t[i] = s[i + 1]
    BY <1>1
  <1>4. /\ \A i \in 1..m + 1 : i = 1 \/ (i - 1 \in 1..m /\ (i - 1) + 1 = i)
        /\ \A i \in 1..m : i + 1 \in 1..m + 1 /\ i + 1 # 1 /\ 1 < i + 1
        /\ 1 \in 1..m + 1
    BY <1>2
  <1>5. /\ \A x : x \in ToSet(s) <=> \E i \in 1..m + 1 : s[i] = x
        /\ \A x : x \in ToSet(t) <=> \E i \in 1..m : t[i] = x
    <2>1. \A x : x \in ToSet(s) <=> \E i \in 1..Len(s) : s[i] = x
      BY Members1
    <2>2. \A x : x \in ToSet(t) <=> \E i \in 1..Len(t) : t[i] = x
      BY <1>3, Members1
    <2> QED
      BY <1>2, <1>3, <2>1, <2>2, Zenon
  <1>6. ToSet(s) = {h} \cup ToSet(t)
    <2>1. \A x : x \in ToSet(s) => x \in {h} \cup ToSet(t)
      BY <1>2, <1>3, <1>4, <1>5
    <2>2. \A x : x \in {h} \cup ToSet(t) => x \in ToSet(s)
      BY <1>2, <1>3, <1>4, <1>5
    <2> QED
      BY <2>1, <2>2
  <1>7. ASSUME Distinct(s) PROVE Distinct(t) /\ h \notin ToSet(t)
    <2>1. \A i, j \in 1..m + 1 : s[i] = s[j] => i = j
      BY <1>2, <1>7 DEF Distinct
    <2>2. \A i, j \in 1..m : i + 1 = j + 1 => i = j
      BY <1>2
    <2>3. Distinct(t)
      BY <1>3, <1>4, <2>1, <2>2 DEF Distinct
    <2>4. h \notin ToSet(t)
      BY <1>2, <1>3, <1>4, <1>5, <2>1
    <2> QED
      BY <2>3, <2>4
  <1>8. ASSUME Ordered(s) PROVE Ordered(t)
    <2>1. \A i, j \in 1..m + 1 : i < j /\ s[j].kind = "container" => s[i].kind = "container"
      BY <1>2, <1>8 DEF Ordered
    <2>2. \A i, j \in 1..m : i < j => i + 1 < j + 1
      BY <1>2
    <2> QED
      BY <1>3, <1>4, <2>1, <2>2 DEF Ordered
  <1>9. ASSUME Ordered(s), h.kind # "container" PROVE \A x \in ToSet(s) : x.kind # "container"
    <2>1. \A i, j \in 1..m + 1 : i < j /\ s[j].kind = "container" => s[i].kind = "container"
      BY <1>2, <1>9 DEF Ordered
    <2>2. \A i \in 1..m + 1 : i = 1 \/ 1 < i
      BY <1>2
    <2> QED
      BY <1>2, <1>4, <1>5, <1>9, <2>1, <2>2
  <1> QED
    BY <1>1, <1>2, <1>3, <1>6, <1>7, <1>8, <1>9

\* The members as a list.
LEMMA Listed ==
    ASSUME NEW S, NEW r \in S, NEW q \in S, r # q
    PROVE  LET s == SetToSeq({r, q})
           IN  /\ s \in Seq(S) /\ ToSet(s) = {r, q} /\ Distinct(s)
               /\ \A kind : r.kind = kind /\ q.kind = kind => OfKind(s, kind)
  <1>1. Cardinality({r, q}) = 2
    <2>1. IsFiniteSet({r}) /\ Cardinality({r}) = 1
      BY FS_Singleton
    <2>2. Cardinality({r} \cup {q}) = 2
      BY <2>1, FS_AddElement
    <2>3. {r, q} = {r} \cup {q}
      OBVIOUS
    <2> QED
      BY <2>2, <2>3
  <1>2. PICK T : T = {r, q}
    OBVIOUS
  <1>3. \E f \in [1..2 -> T] : IsInjective(f)
    <2>1. PICK f : f = [i \in 1..2 |-> IF i = 1 THEN r ELSE q]
      OBVIOUS
    <2>2. f \in [1..2 -> T] /\ DOMAIN f = 1..2 /\ f[1] = r /\ f[2] = q
      BY <1>2, <2>1
    <2>3. \A i \in 1..2 : i = 1 \/ i = 2
      OBVIOUS
    <2> QED
      BY <2>2, <2>3 DEF IsInjective
  <1>4. PICK s : s = SetToSeq(T)
    OBVIOUS
  <1>5. s \in [1..2 -> T] /\ IsInjective(s)
    BY <1>1, <1>2, <1>3, <1>4 DEF SetToSeq
  <1>6. s \in Seq(S) /\ Len(s) = 2 /\ DOMAIN s = 1..2
    <2>1. s \in [1..2 -> S]
      BY <1>2, <1>5
    <2>2. s = [i \in 1..2 |-> s[i]] /\ \A i \in 1..2 : s[i] \in S
      BY <2>1
    <2> QED
      BY <2>1, <2>2
  <1>7. 1 \in 1..2 /\ 2 \in 1..2 /\ \A i \in 1..2 : i = 1 \/ i = 2
    OBVIOUS
  <1>8. s[1] \in T /\ s[2] \in T /\ s[1] # s[2]
    BY <1>5, <1>6, <1>7 DEF IsInjective
  <1>9. \A x : x \in ToSet(s) <=> \E i \in 1..2 : s[i] = x
    BY <1>6, Members1
  <1>10. ToSet(s) = {r, q}
    BY <1>2, <1>7, <1>8, <1>9
  <1>11. Distinct(s)
    BY <1>5, <1>6 DEF Distinct, IsInjective
  <1>12. \A kind : r.kind = kind /\ q.kind = kind => OfKind(s, kind)
    BY <1>2, <1>6, <1>7, <1>8 DEF OfKind
  <1> QED
    BY <1>2, <1>4, <1>6, <1>10, <1>11, <1>12

-----------------------------------------------------------------------------
(* The inductive invariant.                                                *)

\* What the services already started, and the operations of the current one
\* already made, have tracked.
All(s) == Whats(s, Len(Steps(s)) + 1)

Made(started, left, n) ==
    (UNION {All(s) : s \in started}) \cup (IF left = {} THEN {} ELSE Whats(First(left), n))

\* The current service is the cluster, at the operation `n`.
ClusterAt(left, at, n) == left # {} /\ First(left) = "rabbitstream" /\ at = n

Typed ==
    /\ TypeOK
    /\ faults \in [removals : SUBSET Resources, calls : 0..MaxFaults]

\* The lists of the lease have each tracked resource once, by kind.
Sorted ==
    /\ Distinct(containers) /\ Distinct(volumes) /\ Distinct(networks)
    /\ OfKind(containers, "container") /\ OfKind(volumes, "volume") /\ OfKind(networks, "network")

\* Docker has only tracked resources, what came with them, and what the call
\* that ended Start may have made.
Supported == daemon \subseteq Footprint(Tracked \cup Attempted)

\* While Start runs, and until the gate operation returns.
Opening ==
    /\ phase \in {"starting", "operating"} => once = "fresh"
    /\ once = "fresh" => closeErr = {}
    /\ "rabbitstream" \in pending => pending = selection
    /\ phase = "starting" =>
        /\ Tracked = Made(selection \ pending, pending, ip)
        /\ identities = (selection \ pending) \cup
                        (IF ClusterAt(pending, ip, 10) THEN {"rabbitstream-standalone"} ELSE {})
        /\ IF ClusterAt(pending, ip, 17) THEN daemon \cup Footprint(Members("task")) = Footprint(Tracked)
           ELSE daemon = Footprint(Tracked)
    /\ phase = "operating" =>
        /\ pending = {} /\ identities = selection
        /\ Tracked = Made(selection, {}, 1) /\ daemon = Footprint(Tracked)

\* While Close runs, and afterwards.
Closing ==
    /\ phase = "returned" => once = "done"
    /\ once # "fresh" => daemon \cap Tracked \subseteq ToSet(queue) \cup closeErr
    /\ once = "done" => queue = <<>>
    /\ once = "running" => Ordered(queue)
    /\ \A r \in closeErr : r.kind = "container" => r \in faults.removals
    /\ OnlyRealFailures

Inv == Typed /\ Sorted /\ Supported /\ Opening /\ Closing /\ OneAnswer

-----------------------------------------------------------------------------
(* The services, one operation after the other.                            *)

\* The program goes on: to its next operation, or to the next service.
Moves(asked, left, at, left2, at2) ==
    /\ asked \in SUBSET Names /\ left \in SUBSET asked /\ left # {}
    /\ at \in 1..Len(Steps(First(left)))
    /\ "rabbitstream" \in left => left = asked
    /\ at < Len(Steps(First(left))) => at2 = at + 1 /\ left2 = left
    /\ ~(at < Len(Steps(First(left)))) => at2 = 1 /\ left2 = left \ {First(left)}

LEMMA Moved ==
    ASSUME NEW asked, NEW left, NEW at, NEW left2, NEW at2, Moves(asked, left, at, left2, at2)
    PROVE  /\ left2 \in SUBSET asked /\ at2 \in Nat \ {0}
           /\ left2 # {} => at2 <= Len(Steps(First(left2)))
           /\ "rabbitstream" \in left2 => left2 = asked
           /\ Made(asked \ left2, left2, at2) = Made(asked \ left, left, at) \cup Steps(First(left))[at].what
           /\ ClusterAt(left2, at2, 10) <=> First(left) = "rabbitstream" /\ at = 9
           /\ ClusterAt(left2, at2, 17) <=> First(left) = "rabbitstream" /\ at = 16
           /\ at < Len(Steps(First(left))) => asked \ left2 = asked \ left
           /\ ~(at < Len(Steps(First(left)))) => asked \ left2 = (asked \ left) \cup {First(left)}
  <1> USE DEF Moves
  <1>1. PICK s : s = First(left)
    OBVIOUS
  <1>2. PICK n : n = Len(Steps(s))
    OBVIOUS
  <1>3. s \in left /\ s \in Names
    BY <1>1, FirstName
  <1>4. n = Lengths(s) /\ n \in {4, 9, 19}
    BY <1>2, <1>3, ProgramLength DEF Lengths
  <1>5. at \in 1..n
    BY <1>1, <1>2
  <1>6. "rabbitstream" \in left => s = "rabbitstream"
    BY <1>1, FirstName
  <1>7. Whats(s, at + 1) = Whats(s, at) \cup Steps(s)[at].what
    BY <1>2, <1>3, <1>5, WhatsGrow
  <1>8. CASE at < n
    <2>1. at2 = at + 1 /\ left2 = left
      BY <1>1, <1>2, <1>8
    <2>2. left2 \in SUBSET asked /\ at2 \in Nat \ {0} /\ at2 <= n
      BY <1>4, <1>5, <1>8, <2>1
    <2>3. Made(asked \ left2, left2, at2) = Made(asked \ left, left, at) \cup Steps(s)[at].what
      BY <1>1, <1>7, <2>1 DEF Made
    <2>4. /\ ClusterAt(left2, at2, 10) <=> s = "rabbitstream" /\ at = 9
          /\ ClusterAt(left2, at2, 17) <=> s = "rabbitstream" /\ at = 16
      BY <1>1, <1>5, <1>4, <2>1 DEF ClusterAt
    <2> QED
      BY <1>1, <1>2, <1>8, <2>1, <2>2, <2>3, <2>4
  <1>9. CASE ~(at < n)
    <2>1. at = n
      BY <1>4, <1>5, <1>9
    <2>2. at2 = 1 /\ left2 = left \ {s}
      BY <1>1, <1>2, <1>9
    <2>3. left2 \in SUBSET asked /\ at2 \in Nat \ {0} /\ "rabbitstream" \notin left2
      BY <1>6, <2>2
    <2>4. left2 # {} => First(left2) \in left2
      <3>1. left2 \in SUBSET Names
        BY <2>3
      <3> QED
        BY <3>1, FirstName
    <2>5. left2 # {} => at2 <= Len(Steps(First(left2)))
      <3>1. SUFFICES ASSUME left2 # {} PROVE at2 <= Len(Steps(First(left2)))
        OBVIOUS
      <3>2. First(left2) \in Names
        BY <2>3, <2>4, <3>1
      <3>3. Len(Steps(First(left2))) = Lengths(First(left2))
        BY <3>2, ProgramLength
      <3> QED
        BY <2>2, <3>3 DEF Lengths
    <2>6. Made(asked \ left2, left2, at2) = Made(asked \ left, left, at) \cup Steps(s)[at].what
      <3>1. Whats(First(left2), at2) = {}
        BY <2>2, WhatsBegin
      <3>2. All(s) = Whats(s, at) \cup Steps(s)[at].what
        BY <1>2, <1>7, <2>1 DEF All
      <3>3. asked \ left2 = (asked \ left) \cup {s}
        BY <1>3, <2>2
      <3>4. UNION {All(x) : x \in (asked \ left) \cup {s}} = (UNION {All(x) : x \in asked \ left}) \cup All(s)
        OBVIOUS
      <3> QED
        BY <1>1, <3>1, <3>2, <3>3, <3>4 DEF Made
    <2>7. ~ClusterAt(left2, at2, 10) /\ ~ClusterAt(left2, at2, 17)
      BY <2>2 DEF ClusterAt
    <2>8. s = "rabbitstream" => at # 9 /\ at # 16
      BY <1>4, <2>1 DEF Lengths
    <2>9. asked \ left2 = (asked \ left) \cup {s}
      BY <1>3, <2>2
    <2> QED
      BY <1>1, <1>2, <1>9, <2>3, <2>5, <2>6, <2>7, <2>8, <2>9
  <1> QED
    BY <1>8, <1>9

\* The operation at hand.
LEMMA Current ==
    ASSUME Inv, phase = "starting", pending # {}
    PROVE  /\ service \in pending /\ service \in Names
           /\ ip \in 1..Len(Steps(service)) /\ Placed(service, ip)
           /\ pending \in SUBSET selection /\ selection \in SUBSET Names
           /\ Whats(service, ip) \subseteq Tracked
           /\ once = "fresh" /\ closeErr = {}
  <1>1. pending \in SUBSET selection /\ selection \in SUBSET Names
    BY CatalogNames DEF Inv, Typed, TypeOK
  <1>2. service \in pending /\ service \in Names
    BY <1>1, FirstName DEF service
  <1>3. ip \in 1..Len(Steps(service))
    <2>1. Len(Steps(service)) \in Nat
      BY <1>2, ProgramLength DEF Lengths
    <2> QED
      BY <2>1 DEF Inv, Typed, TypeOK
  <1>4. Placed(service, ip)
    BY <1>2, <1>3, EveryPlaced
  <1>5. Tracked = Made(selection \ pending, pending, ip) /\ once = "fresh" /\ closeErr = {}
    BY DEF Inv, Opening
  <1>6. Whats(service, ip) \subseteq Made(selection \ pending, pending, ip)
    BY DEF Made, service
  <1> QED
    BY <1>1, <1>2, <1>3, <1>4, <1>5, <1>6

LEMMA OnwardMoves ==
    ASSUME Inv, phase = "starting", pending # {}, Onward
    PROVE  /\ selection' = selection /\ phase' = "starting" /\ operationErr' = operationErr
           /\ pending' \in SUBSET selection /\ ip' \in Nat \ {0}
           /\ pending' # {} => ip' <= Len(Steps(First(pending')))
           /\ "rabbitstream" \in pending' => pending' = selection
           /\ Made(selection \ pending', pending', ip') = Tracked \cup step.what
           /\ ClusterAt(pending', ip', 10) <=> service = "rabbitstream" /\ ip = 9
           /\ ClusterAt(pending', ip', 17) <=> service = "rabbitstream" /\ ip = 16
           /\ ip < Len(Steps(service)) => selection \ pending' = selection \ pending
           /\ ~(ip < Len(Steps(service))) => selection \ pending' = (selection \ pending) \cup {service}
  <1>1. /\ ip \in 1..Len(Steps(First(pending))) /\ pending \in SUBSET selection /\ selection \in SUBSET Names
    BY Current DEF service
  <1>2. "rabbitstream" \in pending => pending = selection
    BY DEF Inv, Opening
  <1>3. /\ ip < Len(Steps(First(pending))) => ip' = ip + 1 /\ pending' = pending
        /\ ~(ip < Len(Steps(First(pending)))) => ip' = 1 /\ pending' = pending \ {First(pending)}
    BY DEF Onward, service
  <1>4. selection' = selection /\ phase' = "starting" /\ operationErr' = operationErr
    BY DEF Onward
  <1>5. Tracked = Made(selection \ pending, pending, ip)
    BY DEF Inv, Opening
  <1>6. /\ pending' \in SUBSET selection /\ ip' \in Nat \ {0}
        /\ pending' # {} => ip' <= Len(Steps(First(pending')))
        /\ "rabbitstream" \in pending' => pending' = selection
        /\ Made(selection \ pending', pending', ip') =
              Made(selection \ pending, pending, ip) \cup Steps(First(pending))[ip].what
        /\ ClusterAt(pending', ip', 10) <=> First(pending) = "rabbitstream" /\ ip = 9
        /\ ClusterAt(pending', ip', 17) <=> First(pending) = "rabbitstream" /\ ip = 16
        /\ ip < Len(Steps(First(pending))) => selection \ pending' = selection \ pending
        /\ ~(ip < Len(Steps(First(pending)))) => selection \ pending' = (selection \ pending) \cup {First(pending)}
    <2>1. PICK asked, left, at, left2, at2 :
            /\ asked = selection /\ left = pending /\ at = ip /\ left2 = pending' /\ at2 = ip'
      OBVIOUS
    <2>2. Moves(asked, left, at, left2, at2)
      BY <1>1, <1>2, <1>3, <2>1, Zenon DEF Moves
    <2>3. /\ left2 \in SUBSET asked /\ at2 \in Nat \ {0}
          /\ left2 # {} => at2 <= Len(Steps(First(left2)))
          /\ "rabbitstream" \in left2 => left2 = asked
          /\ Made(asked \ left2, left2, at2) = Made(asked \ left, left, at) \cup Steps(First(left))[at].what
          /\ ClusterAt(left2, at2, 10) <=> First(left) = "rabbitstream" /\ at = 9
          /\ ClusterAt(left2, at2, 17) <=> First(left) = "rabbitstream" /\ at = 16
          /\ at < Len(Steps(First(left))) => asked \ left2 = asked \ left
          /\ ~(at < Len(Steps(First(left)))) => asked \ left2 = (asked \ left) \cup {First(left)}
      BY <2>2, Moved, Zenon
    <2> QED
      BY <2>1, <2>3, Zenon
  <1> QED
    BY <1>4, <1>5, <1>6 DEF service, step

-----------------------------------------------------------------------------
(* What the steps of Start have in common.                                 *)

\* Nobody closes the lease yet.
LEMMA NotClosing ==
    ASSUME Inv, once = "fresh", UNCHANGED closing, phase' # "returned"
    PROVE  Closing' /\ OneAnswer'
  <1>1. closeErr = {} /\ \A c \in Callers : answer[c] = None
    BY DEF Inv, Opening, OneAnswer
  <1>2. once' = "fresh" /\ closeErr' = {} /\ \A c \in Callers : answer'[c] = None
    BY <1>1 DEF closing
  <1> QED
    BY <1>2 DEF Closing, OneAnswer, OnlyRealFailures

LEMMA ListsKept ==
    ASSUME Inv, UNCHANGED lease
    PROVE  Sorted' /\ Tracked' = Tracked
  BY DEF Inv, Sorted, Tracked, lease, Distinct, OfKind

\* More resources have a larger footprint.
LEMMA FootprintGrows ==
    ASSUME NEW A, NEW B
    PROVE  /\ Footprint(A \cup B) = Footprint(A) \cup Footprint(B)
           /\ A \subseteq Footprint(A)
           /\ A \subseteq B => Footprint(A) \subseteq Footprint(B)
  BY DEF Footprint, Brought

\* What Start was creating is known until it has failed, and afterwards.
LEMMA AttemptedKept ==
    /\ phase = "starting" \/ pending = {} => Attempted = {}
    /\ UNCHANGED <<pending, ip>> /\ phase # "starting" /\ phase' # "starting" => Attempted' = Attempted
  BY DEF Attempted, step, service

LEMMA DockerKept ==
    ASSUME Inv, daemon' \subseteq daemon, Tracked \subseteq Tracked',
           phase = "starting" \/ pending = {} \/ (UNCHANGED <<pending, ip>> /\ phase' # "starting")
    PROVE  Supported'
  <1>1. Attempted \subseteq Attempted'
    BY AttemptedKept
  <1>2. Tracked \cup Attempted \subseteq (Tracked \cup Attempted)'
    BY <1>1
  <1>3. daemon \subseteq Footprint(Tracked \cup Attempted)
    BY DEF Inv, Supported
  <1>4. Footprint(Tracked \cup Attempted) \subseteq Footprint((Tracked \cup Attempted)')
    BY <1>2, FootprintGrows
  <1> QED
    BY <1>3, <1>4 DEF Supported

\* A start that fails.
LEMMA GivenUp ==
    ASSUME Inv, phase = "starting", pending # {}, Abandon, UNCHANGED closing
    PROVE  Opening'
  <1>1. /\ phase' = "failed" /\ pending' = pending /\ selection' = selection
        /\ once' = once /\ closeErr' = closeErr
    BY DEF Abandon, closing
  <1> QED
    BY <1>1 DEF Inv, Opening

LEMMA FaultsCounted ==
    ASSUME Inv, CallFails \/ UNCHANGED faults
    PROVE  faults' \in [removals : SUBSET Resources, calls : 0..MaxFaults]
  <1>1. MaxFaults \in Nat /\ faults \in [removals : SUBSET Resources, calls : 0..MaxFaults]
    BY LeaseAssumption DEF Inv, Typed
  <1>2. CASE UNCHANGED faults
    BY <1>1, <1>2
  <1>3. CASE faults.calls < MaxFaults /\ faults' = [faults EXCEPT !.calls = @ + 1]
    BY <1>1, <1>3
  <1> QED
    BY <1>2, <1>3 DEF CallFails

\* What the types ask of the variables Start leaves alone.
LEMMA StartTyped ==
    ASSUME Inv, phase = "starting", pending # {}, Abandon \/ Onward,
           attempt' \in 1..Attempts, UNCHANGED <<cancelled, closing>>,
           CallFails \/ UNCHANGED faults,
           daemon' \subseteq Resources, containers' \in Seq(Resources), volumes' \in Seq(Resources),
           networks' \in Seq(Resources), identities' \subseteq ToSet(Catalog)
    PROVE  Typed'
  <1>1. faults' \in [removals : SUBSET Resources, calls : 0..MaxFaults]
    BY FaultsCounted
  <1>2. faults'.removals \subseteq Resources /\ faults'.calls \in 0..MaxFaults
    BY <1>1
  <1>3. /\ cancelled' \in BOOLEAN /\ once' \in {"fresh", "running", "done"} /\ queue' \in Seq(Resources)
        /\ closeErr' \subseteq Resources
        /\ answer' \in [Callers -> (SUBSET Resources) \cup {None}]
    BY DEF Inv, Typed, TypeOK, closing
  <1>4. /\ selection' \subseteq ToSet(Catalog) /\ phase' \in {"starting", "failed"}
        /\ pending' \subseteq selection' /\ ip' \in Nat \ {0} /\ operationErr' \in BOOLEAN
        /\ pending' # {} => ip' <= Len(Steps(First(pending')))
    <2>1. CASE Abandon
      BY <2>1 DEF Inv, Typed, TypeOK, Abandon, service
    <2>2. CASE Onward
      <3>1. /\ selection' = selection /\ phase' = "starting" /\ operationErr' = operationErr
            /\ pending' \in SUBSET selection /\ ip' \in Nat \ {0}
            /\ pending' # {} => ip' <= Len(Steps(First(pending')))
        BY <2>2, OnwardMoves
      <3> QED
        BY <3>1 DEF Inv, Typed, TypeOK
    <2> QED
      BY <2>1, <2>2
  <1> QED
    BY <1>1, <1>2, <1>3, <1>4 DEF Typed, TypeOK, service

LEMMA CurrentTypes ==
    ASSUME Inv
    PROVE  /\ attempt \in 1..Attempts /\ daemon \subseteq Resources /\ containers \in Seq(Resources)
           /\ volumes \in Seq(Resources) /\ networks \in Seq(Resources)
           /\ identities \subseteq ToSet(Catalog) /\ queue \in Seq(Resources) /\ closeErr \subseteq Resources
           /\ answer \in [Callers -> (SUBSET Resources) \cup {None}]
  BY DEF Inv, Typed, TypeOK

LEMMA KnownAreResources == ASSUME Inv PROVE Tracked \cup Attempted \subseteq Resources
  <1>1. Tracked \subseteq Resources
    <2>1. containers \in Seq(Resources) /\ volumes \in Seq(Resources) /\ networks \in Seq(Resources)
      BY CurrentTypes
    <2> QED
      BY <2>1 DEF Tracked, ToSet
  <1>2. ASSUME pending # {} PROVE step.what \subseteq Resources
    <2>1. pending \in SUBSET Names
      BY CatalogNames DEF Inv, Typed, TypeOK
    <2>2. service \in Names
      BY <1>2, <2>1, FirstName DEF service
    <2>3. Len(Steps(service)) \in Nat
      BY <2>2, ProgramLength DEF Lengths
    <2>4. ip \in 1..Len(Steps(service))
      BY <1>2, <2>3 DEF Inv, Typed, TypeOK
    <2> QED
      BY <2>2, <2>4, WhatIsResource DEF step
  <1> QED
    BY <1>1, <1>2 DEF Attempted

\* An operation that fails and changes nothing but, perhaps, docker.
LEMMA FailedStep ==
    ASSUME Inv, phase = "starting", pending # {}, Abandon, UNCHANGED <<cancelled, lease, closing>>,
           CallFails \/ UNCHANGED faults, daemon' \subseteq Resources, Supported'
    PROVE  Inv'
  <1>1. Typed'
    BY StartTyped, CurrentTypes DEF lease, Abandon
  <1>2. Sorted'
    BY ListsKept
  <1>3. Opening'
    BY GivenUp
  <1>4. once = "fresh" /\ phase' # "returned"
    BY Current DEF Abandon
  <1>5. Closing' /\ OneAnswer'
    BY <1>4, NotClosing
  <1> QED
    BY <1>1, <1>2, <1>3, <1>5 DEF Inv

\* An operation that changes nothing in docker and nothing in the lease.
LEMMA CheckedStep ==
    ASSUME Inv, phase = "starting", pending # {}, step.op \in {"check", "ready"}, Onward,
           attempt' \in 1..Attempts, UNCHANGED <<cancelled, daemon, lease, closing, faults>>
    PROVE  Inv'
  <1>1. Typed'
    BY StartTyped, CurrentTypes DEF lease
  <1>2. Sorted' /\ Tracked' = Tracked
    BY ListsKept
  <1>3. Supported'
    BY <1>2, DockerKept
  <1>4. once = "fresh" /\ phase' # "returned"
    BY Current, OnwardMoves
  <1>5. Closing' /\ OneAnswer'
    BY <1>4, NotClosing
  <1>6. /\ step.what = {} /\ ip < Len(Steps(service))
        /\ ~(service = "rabbitstream" /\ ip \in {9, 10, 16, 17})
    BY Current, ProgramLength DEF Placed, step, Lengths
  <1>7. /\ Tracked' = Made(selection' \ pending', pending', ip')
        /\ ~ClusterAt(pending', ip', 10) /\ ~ClusterAt(pending', ip', 17)
        /\ selection' \ pending' = selection \ pending
        /\ "rabbitstream" \in pending' => pending' = selection'
        /\ phase' = "starting"
    BY <1>2, <1>6, OnwardMoves
  <1>8. ~ClusterAt(pending, ip, 10) /\ ~ClusterAt(pending, ip, 17)
    BY <1>6 DEF ClusterAt, service
  <1>9. identities = selection \ pending /\ daemon = Footprint(Tracked)
    BY <1>8 DEF Inv, Opening
  <1>10. identities' = identities /\ daemon' = daemon /\ once' = "fresh" /\ closeErr' = {}
    BY <1>4, Current DEF lease, closing
  <1>11. Opening'
    BY <1>2, <1>7, <1>9, <1>10 DEF Opening
  <1> QED
    BY <1>1, <1>2, <1>3, <1>5, <1>11 DEF Inv

-----------------------------------------------------------------------------
(* The operations of a program.                                            *)

LEMMA CheckPreserves == ASSUME Inv, CheckStep PROVE Inv'
  <1>1. phase = "starting" /\ pending # {} /\ step.op = "check"
    BY DEF CheckStep, At
  <1>2. CASE Succeeds /\ Advance
    <2>1. Onward /\ attempt' \in 1..Attempts /\ UNCHANGED <<cancelled, daemon, lease, closing, faults>>
      BY <1>2, CurrentTypes DEF CheckStep, Succeeds, Advance
    <2> QED
      BY <1>1, <2>1, CheckedStep
  <1>3. CASE CallFails /\ Abandon
    <2>1. UNCHANGED <<cancelled, lease, closing>> /\ daemon' = daemon
      BY DEF CheckStep
    <2>2. daemon' \subseteq Resources /\ Supported'
      BY <1>1, <2>1, CurrentTypes, ListsKept, DockerKept
    <2> QED
      BY <1>1, <1>3, <2>1, <2>2, FailedStep
  <1> QED
    BY <1>2, <1>3 DEF CheckStep

LEMMA ReadyPreserves == ASSUME Inv, ReadyStep PROVE Inv'
  <1>1. phase = "starting" /\ pending # {} /\ step.op = "ready"
    BY DEF ReadyStep, At
  <1>2. UNCHANGED <<cancelled, daemon, lease, closing>>
    BY DEF ReadyStep
  <1>3. Sorted' /\ Tracked' = Tracked /\ Supported'
    BY <1>1, <1>2, ListsKept, DockerKept DEF lease
  <1>4. CASE Succeeds /\ Onward /\ attempt' = 1
    <2>1. attempt' \in 1..Attempts /\ UNCHANGED faults
      BY <1>4, LeaseAssumption DEF Succeeds
    <2> QED
      BY <1>1, <1>2, <1>4, <2>1, CheckedStep
  <1>5. CASE ~cancelled /\ attempt < Attempts /\ attempt' = attempt + 1
                /\ UNCHANGED <<selection, pending, phase, ip, operationErr, faults>>
    <2>1. attempt' \in 1..Attempts
      BY <1>5, CurrentTypes, LeaseAssumption
    <2>2. Typed'
      BY <1>2, <1>5, <2>1 DEF Inv, Typed, TypeOK, lease, closing, service
    <2>3. Opening'
      BY <1>2, <1>3, <1>5 DEF Inv, Opening, lease, closing
    <2>4. Closing' /\ OneAnswer'
      BY <1>1, <1>2, <1>5, Current, NotClosing
    <2> QED
      BY <1>3, <2>2, <2>3, <2>4 DEF Inv
  <1>6. CASE Abandon /\ UNCHANGED faults
    <2>1. daemon' \subseteq Resources
      BY <1>2, CurrentTypes
    <2> QED
      BY <1>1, <1>2, <1>3, <1>6, <2>1, FailedStep
  <1> QED
    BY <1>4, <1>5, <1>6 DEF ReadyStep

LEMMA PublishPreserves == ASSUME Inv, PublishStep \/ WithdrawStep PROVE Inv'
  <1>1. phase = "starting" /\ pending # {} /\ step.op \in {"publish", "withdraw"}
    BY DEF PublishStep, WithdrawStep, At
  <1>2. /\ Onward /\ attempt' = attempt
        /\ UNCHANGED <<cancelled, daemon, containers, volumes, networks, closing, faults>>
    BY DEF PublishStep, WithdrawStep, Advance
  <1>3. Tracked' = Tracked /\ Sorted'
    BY <1>2 DEF Inv, Sorted, Tracked, Distinct, OfKind
  <1>4. Supported'
    BY <1>1, <1>2, <1>3, DockerKept
  <1>5. once = "fresh" /\ closeErr = {} /\ phase' = "starting"
    BY <1>1, <1>2, Current, OnwardMoves
  <1>6. Closing' /\ OneAnswer'
    BY <1>2, <1>5, NotClosing
  <1>7. /\ service \in Names /\ service \in pending /\ pending \in SUBSET selection /\ selection \in SUBSET Names
        /\ Placed(service, ip)
    BY <1>1, Current
  <1>8. Len(Steps(service)) = Lengths(service)
    BY <1>7, ProgramLength
  <1>9. /\ step.what = {}
        /\ ~ClusterAt(pending, ip, 17) /\ ~(service = "rabbitstream" /\ ip = 16)
    BY <1>1, <1>7 DEF Placed, step, ClusterAt, service
  <1>10. /\ Tracked' = Made(selection' \ pending', pending', ip')
         /\ ~ClusterAt(pending', ip', 17) /\ daemon' = Footprint(Tracked')
         /\ "rabbitstream" \in pending' => pending' = selection'
         /\ selection' = selection
    <2>1. daemon = Footprint(Tracked)
      BY <1>1, <1>9 DEF Inv, Opening
    <2> QED
      BY <1>1, <1>2, <1>3, <1>9, <2>1, OnwardMoves
  <1>11. /\ identities' \subseteq ToSet(Catalog)
         /\ identities' = (selection \ pending') \cup
                          (IF ClusterAt(pending', ip', 10) THEN {"rabbitstream-standalone"} ELSE {})
    <2>1. identities = (selection \ pending) \cup
                       (IF ClusterAt(pending, ip, 10) THEN {"rabbitstream-standalone"} ELSE {})
      BY <1>1 DEF Inv, Opening
    <2>2. ClusterAt(pending, ip, 10) <=> service = "rabbitstream" /\ ip = 10
      BY <1>1 DEF ClusterAt, service
    <2>3. ClusterAt(pending', ip', 10) <=> service = "rabbitstream" /\ ip = 9
      BY <1>1, <1>2, OnwardMoves
    <2>4. service = "rabbitstream" => selection \ pending = {} /\ Len(Steps(service)) = 19
      BY <1>7, <1>8 DEF Inv, Opening, Lengths
    <2>8. ASSUME service = "rabbitstream", ip \in {9, 10} PROVE selection \ pending' = {}
      <3>1. PICK n : n = Len(Steps(service))
        OBVIOUS
      <3>2. n = 19
        BY <2>4, <2>8, <3>1
      <3>3. ip < n
        BY <2>8, <3>2
      <3>4. ip < n => selection \ pending' = selection \ pending
        BY <1>1, <1>2, <3>1, OnwardMoves, Zenon
      <3> QED
        BY <2>4, <2>8, <3>3, <3>4
    <2>5. CASE step.op = "withdraw"
      <3>1. service = "rabbitstream" /\ ip = 10 /\ step.service = "rabbitstream-standalone"
        BY <1>7, <2>5 DEF Placed, step
      <3>2. identities' = identities \ {"rabbitstream-standalone"}
        BY <2>5, <3>1 DEF PublishStep, WithdrawStep, At
      <3>3. selection \ pending' = {}
        BY <2>8, <3>1
      <3> QED
        BY <2>1, <2>3, <2>4, <3>1, <3>2, <3>3
    <2>6. CASE step.op = "publish" /\ service = "rabbitstream" /\ ip = 9
      <3>1. step.service = "rabbitstream-standalone"
        BY <1>7, <2>4, <2>6 DEF Placed, step
      <3>2. identities' = identities \cup {"rabbitstream-standalone"}
        BY <2>6, <3>1 DEF PublishStep, WithdrawStep, At
      <3>3. selection \ pending' = {}
        BY <2>6, <2>8
      <3>4. "rabbitstream-standalone" \in ToSet(Catalog)
        BY CatalogNames DEF Names
      <3>5. ~ClusterAt(pending, ip, 10)
        BY <2>2, <2>6
      <3> QED
        BY <2>1, <2>3, <2>4, <2>6, <3>2, <3>3, <3>4, <3>5
    <2>7. CASE step.op = "publish" /\ ~(service = "rabbitstream" /\ ip = 9)
      <3>1. step.service = service /\ ip = Len(Steps(service)) /\ ~(service = "rabbitstream" /\ ip = 10)
        BY <1>7, <2>7 DEF Placed, step
      <3>2. identities' = identities \cup {service}
        BY <2>7, <3>1 DEF PublishStep, WithdrawStep, At
      <3>3. ~(ip < Len(Steps(service)))
        BY <1>8, <3>1 DEF Lengths
      <3>4. selection \ pending' = (selection \ pending) \cup {service}
        BY <1>1, <1>2, <3>3, OnwardMoves
      <3> QED
        BY <1>7, <2>1, <2>2, <2>3, <2>7, <3>1, <3>2, <3>4, CatalogNames
    <2> QED
      BY <1>1, <2>5, <2>6, <2>7
  <1>12. Opening'
    <2>1. once' = "fresh" /\ closeErr' = {}
      BY <1>2, <1>5 DEF closing
    <2> QED
      BY <1>5, <1>10, <1>11, <2>1 DEF Opening
  <1>13. Typed'
    BY <1>1, <1>2, <1>11, StartTyped, CurrentTypes
  <1> QED
    BY <1>3, <1>4, <1>6, <1>12, <1>13 DEF Inv

\* A resource that docker created is listed with its kind.
LEMMA CreatedStep ==
    ASSUME Inv, phase = "starting", pending # {}, step.op = "create", Advance,
           NEW r, step.what = {r}, ~Taken(r), daemon' = daemon \cup Footprint({r}),
           containers' = IF r.kind = "container" THEN Append(containers, r) ELSE containers,
           volumes' = IF r.kind = "volume" THEN Append(volumes, r) ELSE volumes,
           networks' = IF r.kind = "network" THEN Append(networks, r) ELSE networks,
           UNCHANGED <<identities, cancelled, closing, faults>>
    PROVE  Inv'
  <1>1. /\ service \in Names /\ Placed(service, ip) /\ ip \in 1..Len(Steps(service))
        /\ Whats(service, ip) \subseteq Tracked /\ once = "fresh" /\ closeErr = {}
    BY Current
  <1>2. Onward /\ attempt' = attempt
    BY DEF Advance
  <1>3. /\ Sound(r) /\ r \in Resources /\ Footprint({r}) \subseteq Resources
        /\ ip # Len(Steps(service)) /\ ~(service = "rabbitstream" /\ ip \in {9, 10, 16, 17})
    <2>1. \E q : step.what = {q} /\ Sound(q)
      BY <1>1 DEF Placed, step
    <2>2. r \in Steps(service)[ip].what
      BY DEF step
    <2> QED
      BY <1>1, <2>1, <2>2, WhatIsResource DEF Placed, step
  <1>4. ~ClusterAt(pending, ip, 10) /\ ~ClusterAt(pending, ip, 17)
    BY <1>3 DEF ClusterAt, service
  <1>5. daemon = Footprint(Tracked) /\ identities = selection \ pending
    BY <1>4 DEF Inv, Opening
  <1>6. r \notin ToSet(containers) /\ r \notin ToSet(volumes) /\ r \notin ToSet(networks)
    BY <1>5, FootprintGrows DEF Taken, Tracked
  <1>7. r.kind \in {"container", "volume", "network"}
    BY <1>3 DEF Sound
  <1>8. containers \in Seq(Resources) /\ volumes \in Seq(Resources) /\ networks \in Seq(Resources)
    BY CurrentTypes
  <1>9. /\ containers' \in Seq(Resources) /\ Distinct(containers') /\ OfKind(containers', "container")
        /\ ToSet(containers') = ToSet(containers) \cup (IF r.kind = "container" THEN {r} ELSE {})
    <2>1. Distinct(containers) /\ OfKind(containers, "container")
      BY DEF Inv, Sorted
    <2>2. CASE r.kind = "container"
      BY <1>3, <1>6, <1>8, <2>1, <2>2, Appended
    <2>3. CASE r.kind # "container"
      BY <1>8, <2>1, <2>3
    <2> QED
      BY <2>2, <2>3
  <1>10. /\ volumes' \in Seq(Resources) /\ Distinct(volumes') /\ OfKind(volumes', "volume")
         /\ ToSet(volumes') = ToSet(volumes) \cup (IF r.kind = "volume" THEN {r} ELSE {})
    <2>1. Distinct(volumes) /\ OfKind(volumes, "volume")
      BY DEF Inv, Sorted
    <2>2. CASE r.kind = "volume"
      BY <1>3, <1>6, <1>8, <2>1, <2>2, Appended
    <2>3. CASE r.kind # "volume"
      BY <1>8, <2>1, <2>3
    <2> QED
      BY <2>2, <2>3
  <1>11. /\ networks' \in Seq(Resources) /\ Distinct(networks') /\ OfKind(networks', "network")
         /\ ToSet(networks') = ToSet(networks) \cup (IF r.kind = "network" THEN {r} ELSE {})
    <2>1. Distinct(networks) /\ OfKind(networks, "network")
      BY DEF Inv, Sorted
    <2>2. CASE r.kind = "network"
      BY <1>3, <1>6, <1>8, <2>1, <2>2, Appended
    <2>3. CASE r.kind # "network"
      BY <1>8, <2>1, <2>3
    <2> QED
      BY <2>2, <2>3
  <1>12. Tracked' = Tracked \cup {r}
    BY <1>7, <1>9, <1>10, <1>11 DEF Tracked
  <1>13. Sorted'
    BY <1>9, <1>10, <1>11 DEF Sorted
  <1>14. daemon' = Footprint(Tracked') /\ Supported'
    <2>1. daemon' = Footprint(Tracked')
      BY <1>5, <1>12, FootprintGrows
    <2> QED
      BY <2>1, FootprintGrows DEF Supported
  <1>15. phase' = "starting"
    BY <1>2, OnwardMoves
  <1>16. Closing' /\ OneAnswer'
    BY <1>1, <1>15, NotClosing
  <1>17. ip < Len(Steps(service))
    BY <1>1, <1>3, ProgramLength DEF Lengths
  <1>18. /\ selection' = selection /\ selection \ pending' = selection \ pending
         /\ ~ClusterAt(pending', ip', 10) /\ ~ClusterAt(pending', ip', 17)
         /\ "rabbitstream" \in pending' => pending' = selection'
         /\ Made(selection' \ pending', pending', ip') = Tracked'
    BY <1>2, <1>3, <1>12, <1>17, OnwardMoves
  <1>19. identities' = identities /\ once' = "fresh" /\ closeErr' = {}
    BY <1>1 DEF closing
  <1>20. Opening'
    BY <1>5, <1>14, <1>15, <1>18, <1>19 DEF Opening
  <1>21. Typed'
    <2>1. attempt' \in 1..Attempts /\ daemon' \subseteq Resources /\ identities' \subseteq ToSet(Catalog)
      BY <1>2, <1>3, CurrentTypes
    <2> QED
      BY <1>2, <1>9, <1>10, <1>11, <2>1, StartTyped
  <1> QED
    BY <1>13, <1>14, <1>16, <1>20, <1>21 DEF Inv

LEMMA CreatePreserves == ASSUME Inv, CreateStep PROVE Inv'
  <1>1. phase = "starting" /\ pending # {} /\ step.op = "create" /\ UNCHANGED <<identities, cancelled, closing>>
    BY DEF CreateStep, At
  <1>2. PICK r \in step.what :
          \/ /\ Succeeds /\ ~Taken(r)
             /\ daemon' = daemon \cup Footprint({r})
             /\ containers' = IF r.kind = "container" THEN Append(containers, r) ELSE containers
             /\ volumes' = IF r.kind = "volume" THEN Append(volumes, r) ELSE volumes
             /\ networks' = IF r.kind = "network" THEN Append(networks, r) ELSE networks
             /\ Advance
          \/ /\ CallFails \/ UNCHANGED faults
             /\ daemon' = daemon \/ daemon' = daemon \cup Footprint({r})
             /\ Abandon
             /\ UNCHANGED <<containers, volumes, networks>>
    BY DEF CreateStep
  <1>3. step.what = {r} /\ Footprint({r}) \subseteq Resources
    <2>1. step.what = {r}
      BY <1>1, <1>2, Current DEF Placed, step
    <2>2. service \in Names /\ ip \in 1..Len(Steps(service)) /\ r \in Steps(service)[ip].what
      BY <1>1, <1>2, Current DEF step
    <2> QED
      BY <2>1, <2>2, WhatIsResource
  <1>4. CASE Abandon /\ (CallFails \/ UNCHANGED faults) /\ UNCHANGED <<containers, volumes, networks>>
             /\ (daemon' = daemon \/ daemon' = daemon \cup Footprint({r}))
    <2>1. UNCHANGED lease /\ Tracked' = Tracked
      BY <1>1, <1>4, ListsKept DEF lease
    <2>2. daemon' \subseteq Resources
      BY <1>3, <1>4, CurrentTypes
    <2>3. Attempted' = {r}
      BY <1>1, <1>3, <1>4 DEF Abandon, Attempted, step, service
    <2>4. daemon' \subseteq Footprint(Tracked \cup {r})
      <3>1. daemon \subseteq Footprint(Tracked)
        BY <1>1, AttemptedKept DEF Inv, Supported
      <3> QED
        BY <1>4, <3>1, FootprintGrows
    <2>5. Supported'
      BY <2>1, <2>3, <2>4 DEF Supported
    <2> QED
      BY <1>1, <1>4, <2>1, <2>2, <2>5, FailedStep
  <1>5. CASE Succeeds /\ ~Taken(r) /\ daemon' = daemon \cup Footprint({r})
             /\ containers' = (IF r.kind = "container" THEN Append(containers, r) ELSE containers)
             /\ volumes' = (IF r.kind = "volume" THEN Append(volumes, r) ELSE volumes)
             /\ networks' = (IF r.kind = "network" THEN Append(networks, r) ELSE networks)
             /\ Advance
    <2>1. UNCHANGED faults
      BY <1>5 DEF Succeeds
    <2> QED
      BY <1>1, <1>3, <1>5, <2>1, CreatedStep
  <1> QED
    BY <1>2, <1>4, <1>5

LEMMA TrackPreserves == ASSUME Inv, TrackStep PROVE Inv'
  <1>1. /\ phase = "starting" /\ pending # {} /\ step.op = "track" /\ Onward /\ attempt' = attempt
        /\ containers' = containers \o SetToSeq(step.what)
        /\ UNCHANGED <<cancelled, daemon, volumes, networks, identities, closing, faults>>
    BY DEF TrackStep, At, Advance
  <1>2. /\ service \in Names /\ Placed(service, ip) /\ service \in pending
        /\ ip \in 1..Len(Steps(service)) /\ once = "fresh" /\ closeErr = {}
    BY <1>1, Current
  <1>3. service = "rabbitstream" /\ ip = 16 /\ step.what = Members("task")
    BY <1>1, <1>2 DEF Placed, step
  <1>4. /\ pending = selection /\ Tracked = Whats("rabbitstream", 16) /\ daemon = Footprint(Tracked)
        /\ identities = {}
    <2>1. ~ClusterAt(pending, ip, 10) /\ ~ClusterAt(pending, ip, 17)
      BY <1>3 DEF ClusterAt
    <2>2. pending = selection
      BY <1>2, <1>3 DEF Inv, Opening
    <2>3. Made({}, pending, ip) = Whats("rabbitstream", 16)
      BY <1>1, <1>3 DEF Made, service
    <2>4. selection \ pending = {}
      BY <2>2
    <2> QED
      BY <1>1, <2>1, <2>2, <2>3, <2>4 DEF Inv, Opening
  <1>5. PICK r, q : Members("task") = {r, q} /\ r # q
    BY MembersAreSound
  <1>6. r \in Resources /\ q \in Resources /\ r.kind = "container" /\ q.kind = "container"
    <2>1. {r, q} = Steps(service)[ip].what
      BY <1>3, <1>5 DEF step
    <2> QED
      BY <1>2, <1>5, <2>1, WhatIsResource, MembersAreSound
  <1>7. PICK s : s = SetToSeq({r, q})
    OBVIOUS
  <1>8. s \in Seq(Resources) /\ ToSet(s) = {r, q} /\ Distinct(s) /\ OfKind(s, "container")
    BY <1>5, <1>6, <1>7, Listed
  <1>9. ToSet(containers) \cap ToSet(s) = {}
    BY <1>4, <1>5, <1>8, MembersAreNew DEF Tracked
  <1>10. containers \in Seq(Resources) /\ Distinct(containers) /\ OfKind(containers, "container")
    BY CurrentTypes DEF Inv, Sorted
  <1>11. containers' = containers \o s
    BY <1>1, <1>3, <1>5, <1>7
  <1>12. /\ containers' \in Seq(Resources) /\ Distinct(containers') /\ OfKind(containers', "container")
         /\ ToSet(containers') = ToSet(containers) \cup {r, q}
    BY <1>8, <1>9, <1>10, <1>11, Concatenated
  <1>13. Sorted'
    BY <1>1, <1>12 DEF Inv, Sorted, Distinct, OfKind
  <1>14. Tracked' = Tracked \cup Members("task")
    BY <1>1, <1>5, <1>12 DEF Tracked
  <1>15. Supported'
    BY <1>1, <1>14, DockerKept
  <1>16. phase' = "starting"
    BY <1>1, OnwardMoves
  <1>17. Closing' /\ OneAnswer'
    BY <1>1, <1>2, <1>16, NotClosing
  <1>18. /\ selection' = selection /\ pending' = pending
         /\ ~ClusterAt(pending', ip', 10) /\ ClusterAt(pending', ip', 17)
         /\ Made(selection' \ pending', pending', ip') = Tracked'
    <2>1. PICK n : n = Len(Steps(service))
      OBVIOUS
    <2>2. n = 19
      BY <1>3, <2>1, Programs, ClusterProgram
    <2>3. ip < n
      BY <1>3, <2>2
    <2>4. pending' = pending
      BY <1>1, <2>1, <2>3 DEF Onward
    <2>5. /\ selection' = selection /\ Made(selection \ pending', pending', ip') = Tracked \cup step.what
          /\ ClusterAt(pending', ip', 10) <=> service = "rabbitstream" /\ ip = 9
          /\ ClusterAt(pending', ip', 17) <=> service = "rabbitstream" /\ ip = 16
      BY <1>1, OnwardMoves
    <2>6. ip # 9 /\ ip = 16 /\ service = "rabbitstream"
      BY <1>3
    <2>7. Made(selection' \ pending', pending', ip') = Tracked'
      BY <1>3, <1>14, <2>5
    <2> QED
      BY <2>4, <2>5, <2>6, <2>7
  <1>19. Opening'
    <2>1. once' = "fresh" /\ closeErr' = {} /\ identities' = {} /\ daemon' = Footprint(Tracked)
      BY <1>1, <1>2, <1>4 DEF closing
    <2> QED
      BY <1>4, <1>14, <1>16, <1>18, <2>1, FootprintGrows DEF Opening
  <1>20. Typed'
    BY <1>1, <1>12, StartTyped, CurrentTypes
  <1> QED
    BY <1>13, <1>15, <1>17, <1>19, <1>20 DEF Inv

LEMMA ComposePreserves == ASSUME Inv, ComposeStep PROVE Inv'
  <1>1. phase = "starting" /\ pending # {} /\ step.op = "compose" /\ UNCHANGED <<cancelled, lease, closing>>
    BY DEF ComposeStep, At
  <1>2. /\ service \in Names /\ Placed(service, ip) /\ service \in pending
        /\ ip \in 1..Len(Steps(service)) /\ once = "fresh" /\ closeErr = {}
    BY <1>1, Current
  <1>3. service = "rabbitstream" /\ ip = 17 /\ step.what = {}
    BY <1>1, <1>2 DEF Placed, step
  <1>4. Sorted' /\ Tracked' = Tracked
    BY <1>1, ListsKept
  <1>5. daemon \cup Footprint(Members("task")) = Footprint(Tracked) /\ pending = selection /\ identities = {}
    <2>1. ClusterAt(pending, ip, 17) /\ ~ClusterAt(pending, ip, 10)
      BY <1>1, <1>3 DEF ClusterAt, service
    <2>2. pending = selection
      BY <1>2, <1>3 DEF Inv, Opening
    <2> QED
      BY <1>1, <2>1, <2>2 DEF Inv, Opening
  <1>6. Footprint(Tracked) \subseteq Resources
    <2>1. /\ Footprint(Members("task")) \subseteq Resources /\ daemon \subseteq Resources
      <3>1. Members("task") \subseteq Steps("rabbitstream")[16].what /\ 16 \in 1..Len(Steps("rabbitstream"))
        <4>1. PICK p : p = Steps("rabbitstream")
          OBVIOUS
        <4>2. p[16] = Track(Members("task")) /\ Len(p) = 19
          BY <4>1, Programs, ClusterProgram
        <4> QED
          BY <4>1, <4>2 DEF Track, Step
      <3>2. \A r \in Members("task") : Footprint({r}) \subseteq Resources
        BY <3>1, WhatIsResource DEF Names
      <3> QED
        BY <3>2, CurrentTypes DEF Footprint, Brought
    <2> QED
      BY <1>5, <2>1
  <1>8. ASSUME NEW some \in SUBSET Footprint(Members("task")), daemon' = daemon \cup some
        PROVE  daemon' \subseteq Resources /\ Supported'
    <2>1. daemon' \subseteq Footprint(Tracked)
      BY <1>5, <1>8
    <2>2. Footprint(Tracked) \subseteq Footprint((Tracked \cup Attempted)')
      BY <1>4, FootprintGrows
    <2> QED
      BY <1>6, <2>1, <2>2 DEF Supported
  <1>9. CASE Succeeds /\ daemon' = daemon \cup Footprint(Members("task")) /\ Advance
    <2>1. Onward /\ attempt' = attempt /\ UNCHANGED faults
      BY <1>9 DEF Succeeds, Advance
    <2>2. daemon' \subseteq Resources /\ Supported'
      BY <1>8, <1>9
    <2>3. phase' = "starting" /\ selection' = selection
      BY <1>1, <2>1, OnwardMoves
    <2>4. Closing' /\ OneAnswer'
      BY <1>1, <1>2, <2>3, NotClosing
    <2>5. /\ pending' = pending /\ ~ClusterAt(pending', ip', 10) /\ ~ClusterAt(pending', ip', 17)
          /\ Made(selection' \ pending', pending', ip') = Tracked'
      <3>1. PICK n : n = Len(Steps(service))
        OBVIOUS
      <3>2. n = 19
        BY <1>3, <3>1, Programs, ClusterProgram
      <3>3. ip < n
        BY <1>3, <3>2
      <3>4. pending' = pending
        BY <2>1, <3>1, <3>3 DEF Onward
      <3>5. /\ selection' = selection /\ Made(selection \ pending', pending', ip') = Tracked \cup step.what
            /\ ClusterAt(pending', ip', 10) <=> service = "rabbitstream" /\ ip = 9
            /\ ClusterAt(pending', ip', 17) <=> service = "rabbitstream" /\ ip = 16
        BY <1>1, <2>1, OnwardMoves
      <3>6. ip # 9 /\ ip # 16
        BY <1>3
      <3>7. Made(selection' \ pending', pending', ip') = Tracked'
        BY <1>3, <1>4, <3>5
      <3> QED
        BY <3>4, <3>5, <3>6, <3>7
    <2>6. Opening'
      <3>1. once' = "fresh" /\ closeErr' = {} /\ identities' = {} /\ daemon' = Footprint(Tracked')
        BY <1>1, <1>2, <1>4, <1>5, <1>9 DEF lease, closing
      <3> QED
        BY <1>5, <2>3, <2>5, <3>1 DEF Opening
    <2>7. Typed'
      BY <1>1, <2>1, <2>2, StartTyped, CurrentTypes DEF lease
    <2> QED
      BY <1>4, <2>2, <2>4, <2>6, <2>7 DEF Inv
  <1>10. CASE CallFails /\ Abandon /\ \E some \in SUBSET Footprint(Members("task")) : daemon' = daemon \cup some
    BY <1>1, <1>8, <1>10, FailedStep
  <1> QED
    BY <1>9, <1>10 DEF ComposeStep

-----------------------------------------------------------------------------
(* The gate operation, and the cleanup.                                    *)

LEMMA StartedPreserves == ASSUME Inv, Started PROVE Inv'
  <1>1. /\ phase = "starting" /\ pending = {} /\ phase' = "operating"
        /\ UNCHANGED <<selection, pending, ip, attempt, cancelled, daemon, lease, closing, operationErr, faults>>
    BY DEF Started
  <1>2. Sorted' /\ Tracked' = Tracked /\ Supported'
    BY <1>1, ListsKept, DockerKept
  <1>3. once = "fresh" /\ closeErr = {}
    BY <1>1 DEF Inv, Opening
  <1>4. Closing' /\ OneAnswer'
    BY <1>1, <1>3, NotClosing
  <1>5. Typed'
    BY <1>1 DEF Inv, Typed, TypeOK, lease, closing, service
  <1>6. Tracked = Made(selection, {}, 1) /\ identities = selection /\ daemon = Footprint(Tracked)
    <2>1. ~ClusterAt(pending, ip, 10) /\ ~ClusterAt(pending, ip, 17)
      BY <1>1 DEF ClusterAt
    <2>2. selection \ pending = selection
      BY <1>1
    <2>3. Made(selection, {}, ip) = Made(selection, {}, 1)
      BY DEF Made
    <2> QED
      BY <1>1, <2>1, <2>2, <2>3 DEF Inv, Opening
  <1>7. Opening'
    BY <1>1, <1>2, <1>3, <1>6 DEF Opening, lease, closing
  <1> QED
    BY <1>2, <1>4, <1>5, <1>7 DEF Inv

LEMMA OperatePreserves == ASSUME Inv, Operate PROVE Inv'
  <1>1. /\ phase = "operating" /\ phase' = "closing" /\ operationErr' \in BOOLEAN
        /\ UNCHANGED <<selection, pending, ip, attempt, cancelled, daemon, lease, closing, faults>>
    BY DEF Operate
  <1>2. Sorted' /\ Tracked' = Tracked /\ Supported'
    BY <1>1, ListsKept, DockerKept
  <1>3. once = "fresh" /\ closeErr = {}
    BY <1>1 DEF Inv, Opening
  <1>4. Closing' /\ OneAnswer'
    BY <1>1, <1>3, NotClosing
  <1>5. Typed'
    BY <1>1 DEF Inv, Typed, TypeOK, lease, closing, service
  <1>6. Opening'
    BY <1>1, <1>3 DEF Inv, Opening, closing
  <1> QED
    BY <1>2, <1>4, <1>5, <1>6 DEF Inv

\* A step beside the cleanup changes nothing of what it reports and why.
LEMMA ReportKept ==
    ASSUME Inv, UNCHANGED <<pending, ip, closeErr, faults>>, phase = "starting" \/ phase' # "starting"
    PROVE  OnlyRealFailures'
  <1>1. CASE phase = "starting"
    <2>1. closeErr' = {}
      BY <1>1 DEF Inv, Opening
    <2> QED
      BY <2>1 DEF OnlyRealFailures
  <1>2. CASE phase # "starting"
    <2>1. Attempted' = Attempted
      BY <1>2, AttemptedKept
    <2> QED
      BY <2>1 DEF Inv, Closing, OnlyRealFailures
  <1> QED
    BY <1>1, <1>2

\* Close is called in no other phase.
LEMMA ClosingPhases == ASSUME NEW c, MayClose(c) PROVE phase \in {"failed", "closing", "returned"}
  BY DEF MayClose

LEMMA EnterPreserves == ASSUME Inv, NEW c \in Callers, Enter(c) PROVE Inv'
  <1>1. /\ MayClose(c) /\ once = "fresh" /\ once' = "running"
        /\ queue' = Reverse(containers) \o Reverse(volumes) \o Reverse(networks)
        /\ UNCHANGED <<starting, cancelled, daemon, lease, closeErr, answer, operationErr, faults>>
    BY DEF Enter
  <1>2. Sorted' /\ Tracked' = Tracked /\ Supported'
    BY <1>1, ListsKept, DockerKept DEF starting
  <1>3. closeErr = {} /\ phase # "returned" /\ \A x \in Callers : answer[x] = None
    BY <1>1 DEF Inv, Opening, Closing, OneAnswer
  <1>4. phase' \in {"failed", "closing"} /\ closeErr' = {}
    BY <1>1, <1>3, ClosingPhases DEF starting
  <1>5. PICK cs, vs, ns : cs = Reverse(containers) /\ vs = Reverse(volumes) /\ ns = Reverse(networks)
    OBVIOUS
  <1>6. /\ cs \in Seq(Resources) /\ vs \in Seq(Resources) /\ ns \in Seq(Resources)
        /\ Distinct(cs) /\ Distinct(vs) /\ Distinct(ns)
        /\ OfKind(cs, "container") /\ OfKind(vs, "volume") /\ OfKind(ns, "network")
        /\ ToSet(cs) = ToSet(containers) /\ ToSet(vs) = ToSet(volumes) /\ ToSet(ns) = ToSet(networks)
    <2>1. containers \in Seq(Resources) /\ volumes \in Seq(Resources) /\ networks \in Seq(Resources)
      BY CurrentTypes
    <2>2. cs \in Seq(Resources) /\ Distinct(cs) /\ OfKind(cs, "container") /\ ToSet(cs) = ToSet(containers)
      BY <1>5, <2>1, Reversed DEF Inv, Sorted
    <2>3. vs \in Seq(Resources) /\ Distinct(vs) /\ OfKind(vs, "volume") /\ ToSet(vs) = ToSet(volumes)
      BY <1>5, <2>1, Reversed DEF Inv, Sorted
    <2>4. ns \in Seq(Resources) /\ Distinct(ns) /\ OfKind(ns, "network") /\ ToSet(ns) = ToSet(networks)
      BY <1>5, <2>1, Reversed DEF Inv, Sorted
    <2> QED
      BY <2>2, <2>3, <2>4
  <1>7. /\ \A x \in ToSet(cs) : x.kind = "container"
        /\ \A x \in ToSet(vs) : x.kind = "volume"
        /\ \A x \in ToSet(ns) : x.kind = "network"
    <2>1. \A x \in ToSet(cs) : x.kind = "container"
      BY <1>6, Members1 DEF OfKind
    <2>2. \A x \in ToSet(vs) : x.kind = "volume"
      BY <1>6, Members1 DEF OfKind
    <2>3. \A x \in ToSet(ns) : x.kind = "network"
      BY <1>6, Members1 DEF OfKind
    <2> QED
      BY <2>1, <2>2, <2>3
  <1>8. PICK fs : fs = cs \o vs
    OBVIOUS
  <1>9. fs \in Seq(Resources) /\ Distinct(fs) /\ ToSet(fs) = ToSet(cs) \cup ToSet(vs)
    <2>1. ToSet(cs) \cap ToSet(vs) = {}
      BY <1>7
    <2> QED
      BY <1>6, <1>8, <2>1, Concatenated
  <1>10. queue' = fs \o ns
    BY <1>1, <1>5, <1>8
  <1>11. /\ queue' \in Seq(Resources) /\ Distinct(queue')
         /\ ToSet(queue') = ToSet(cs) \cup ToSet(vs) \cup ToSet(ns)
    <2>1. ToSet(fs) \cap ToSet(ns) = {}
      BY <1>7, <1>9
    <2> QED
      BY <1>6, <1>9, <1>10, <2>1, Concatenated
  <1>12. Ordered(queue')
    <2>1. PICK rs : rs = vs \o ns
      OBVIOUS
    <2>2. rs \in Seq(Resources) /\ \A i \in 1..Len(rs) : rs[i].kind # "container"
      <3>1. /\ \A i \in 1..Len(vs) : vs[i].kind # "container"
            /\ \A i \in 1..Len(ns) : ns[i].kind # "container"
        BY <1>6 DEF OfKind
      <3> QED
        BY <1>6, <2>1, <3>1, Concatenated
    <2>3. queue' = cs \o rs
      BY <1>6, <1>8, <1>10, <2>1
    <2> QED
      BY <1>6, <2>2, <2>3, Concatenated
  <1>13. (daemon \cap Tracked)' \subseteq ToSet(queue')
    BY <1>2, <1>6, <1>11 DEF Tracked
  <1>14. Closing'
    BY <1>1, <1>4, <1>11, <1>12, <1>13 DEF Closing, OnlyRealFailures
  <1>15. Opening'
    <2>1. phase' \notin {"starting", "operating"} /\ once' # "fresh"
      BY <1>1, <1>4
    <2> QED
      BY <1>1, <2>1 DEF Inv, Opening, starting
  <1>16. OneAnswer'
    BY <1>1, <1>3 DEF OneAnswer
  <1>17. Typed'
    BY <1>1, <1>11 DEF Inv, Typed, TypeOK, starting, lease, service
  <1> QED
    BY <1>2, <1>14, <1>15, <1>16, <1>17 DEF Inv

\* One removal: the resource goes, or it is reported.
LEMMA RemovePreserves == ASSUME Inv, RemoveNext PROVE Inv'
  <1>1. PICK r : r = Head(queue)
    OBVIOUS
  <1>2. /\ once = "running" /\ queue # <<>> /\ queue' = Tail(queue)
        /\ UNCHANGED <<starting, cancelled, lease, once, answer, operationErr>>
        /\ \/ /\ ~InUse(r) /\ daemon' = daemon \ {r} /\ UNCHANGED <<closeErr, faults>>
           \/ /\ InUse(r) /\ closeErr' = closeErr \cup {r} /\ UNCHANGED <<daemon, faults>>
           \/ /\ faults.calls < MaxFaults
              /\ closeErr' = closeErr \cup {r}
              /\ faults' = [removals |-> faults.removals \cup {r}, calls |-> faults.calls + 1]
              /\ daemon' = daemon \/ daemon' = daemon \ {r}
    BY <1>1 DEF RemoveNext
  <1>3. /\ r \in Resources /\ queue' \in Seq(Resources)
        /\ ToSet(queue) = {r} \cup ToSet(queue') /\ Ordered(queue')
        /\ r.kind # "container" => \A x \in ToSet(queue) : x.kind # "container"
    <2>1. queue \in Seq(Resources) /\ Ordered(queue)
      BY <1>2, CurrentTypes DEF Inv, Closing
    <2> QED
      BY <1>1, <1>2, <2>1, Taken1
  <1>4. /\ phase \notin {"starting", "operating", "returned"}
        /\ daemon \cap Tracked \subseteq ToSet(queue) \cup closeErr
        /\ \A x \in closeErr : x.kind = "container" => x \in faults.removals
        /\ closeErr \subseteq faults.removals \cup UNION {q.uses : q \in faults.removals \cup Attempted}
    BY <1>2 DEF Inv, Opening, Closing, OnlyRealFailures
  <1>5. daemon' \subseteq daemon
    BY <1>2
  <1>6. Sorted' /\ Tracked' = Tracked /\ Supported' /\ Attempted' = Attempted
    BY <1>2, <1>4, <1>5, ListsKept, DockerKept, AttemptedKept DEF starting
  <1>7. OneAnswer'
    BY <1>2 DEF Inv, OneAnswer
  <1>8. Opening'
    <2>1. phase' = phase /\ pending' = pending /\ selection' = selection /\ once' # "fresh"
      BY <1>2 DEF starting
    <2> QED
      BY <1>4, <2>1 DEF Inv, Opening
  <1>9. faults \in [removals : SUBSET Resources, calls : 0..MaxFaults] /\ MaxFaults \in Nat
    BY LeaseAssumption DEF Inv, Typed
  <1>10. /\ faults' \in [removals : SUBSET Resources, calls : 0..MaxFaults]
         /\ faults.removals \subseteq faults'.removals
    <2>1. CASE UNCHANGED faults
      BY <1>9, <2>1
    <2>2. CASE faults.calls < MaxFaults
               /\ faults' = [removals |-> faults.removals \cup {r}, calls |-> faults.calls + 1]
      BY <1>3, <1>9, <2>2
    <2> QED
      BY <1>2, <2>1, <2>2
  <1>11. Typed'
    <2>1. faults'.removals \subseteq Resources /\ faults'.calls \in 0..MaxFaults
      BY <1>10
    <2>2. closeErr' \subseteq Resources /\ daemon' \subseteq Resources
      BY <1>2, <1>3, <1>5, CurrentTypes
    <2> QED
      BY <1>2, <1>3, <1>10, <2>1, <2>2 DEF Inv, Typed, TypeOK, starting, lease, service
  \* What is in use and no container is used by one that docker kept.
  <1>12. InUse(r) => r.kind # "container" /\ r \in UNION {q.uses : q \in faults.removals \cup Attempted}
    <2>1. SUFFICES ASSUME NEW q \in daemon, q.kind = "container", r \in q.uses
                   PROVE  r.kind # "container" /\ r \in UNION {x.uses : x \in faults.removals \cup Attempted}
      BY DEF InUse
    <2>2. Sound(q)
      BY <2>1, CurrentTypes, ResourcesAreSound
    <2>3. r.kind # "container" /\ q \notin ToSet(queue)
      BY <1>3, <2>1, <2>2 DEF Sound
    <2>4. q \in Tracked \cup Attempted
      <3>1. PICK known : known = Tracked \cup Attempted
        OBVIOUS
      <3>2. q \in Footprint(known) /\ known \subseteq Resources
        BY <3>1, KnownAreResources DEF Inv, Supported
      <3>3. \A x \in known : q \notin x.brings
        BY <2>1, <3>2, ResourcesAreSound
      <3> QED
        BY <3>1, <3>2, <3>3 DEF Footprint, Brought
    <2>5. q \in Tracked => q \in faults.removals
      BY <1>4, <2>1, <2>3
    <2> QED
      BY <2>1, <2>3, <2>4, <2>5
  <1>13. Closing'
    <2>1. (daemon \cap Tracked)' \subseteq ToSet(queue') \cup closeErr'
      BY <1>2, <1>3, <1>4, <1>6
    <2>2. \A x \in closeErr' : x.kind = "container" => x \in faults'.removals
      BY <1>2, <1>4, <1>10, <1>12
    <2>3. OnlyRealFailures'
      BY <1>2, <1>4, <1>6, <1>10, <1>12 DEF OnlyRealFailures
    <2> QED
      BY <1>2, <1>3, <1>4, <2>1, <2>2, <2>3 DEF Closing, starting
  <1> QED
    BY <1>6, <1>7, <1>8, <1>11, <1>13 DEF Inv

LEMMA ClosedPreserves == ASSUME Inv, Closed PROVE Inv'
  <1>1. /\ once = "running" /\ queue = <<>> /\ once' = "done"
        /\ UNCHANGED <<starting, cancelled, daemon, lease, queue, closeErr, answer, operationErr, faults>>
    BY DEF Closed
  <1>2. Sorted' /\ Tracked' = Tracked /\ Supported'
    BY <1>1, ListsKept, DockerKept DEF starting
  <1>3. Opening'
    BY <1>1 DEF Inv, Opening, starting
  <1>4. Closing'
    <2>1. OnlyRealFailures'
      BY <1>1, ReportKept DEF starting
    <2> QED
      BY <1>1, <1>2, <2>1 DEF Inv, Closing, starting
  <1>5. OneAnswer'
    BY <1>1 DEF Inv, OneAnswer
  <1>6. Typed'
    BY <1>1 DEF Inv, Typed, TypeOK, starting, lease, service
  <1> QED
    BY <1>2, <1>3, <1>4, <1>5, <1>6 DEF Inv

LEMMA AnswerPreserves == ASSUME Inv, NEW c \in Callers, Answer(c) PROVE Inv'
  <1>1. /\ once = "done" /\ answer' = [answer EXCEPT ![c] = closeErr]
        /\ UNCHANGED <<starting, cancelled, daemon, lease, once, queue, closeErr, operationErr, faults>>
    BY DEF Answer
  <1>2. Sorted' /\ Tracked' = Tracked /\ Supported'
    BY <1>1, ListsKept, DockerKept DEF starting
  <1>3. Opening'
    BY <1>1, <1>2 DEF Inv, Opening, starting, lease
  <1>4. Closing'
    <2>1. OnlyRealFailures'
      BY <1>1, ReportKept DEF starting
    <2> QED
      BY <1>1, <1>2, <2>1 DEF Inv, Closing, starting
  <1>5. /\ answer' \in [Callers -> (SUBSET Resources) \cup {None}]
        /\ \A x \in Callers : answer'[x] = answer[x] \/ answer'[x] = closeErr
    BY <1>1, CurrentTypes
  <1>6. OneAnswer'
    BY <1>1, <1>5 DEF Inv, OneAnswer
  <1>7. Typed'
    BY <1>1, <1>5 DEF Inv, Typed, TypeOK, starting, lease, service
  <1> QED
    BY <1>2, <1>3, <1>4, <1>6, <1>7 DEF Inv

LEMMA ReturnPreserves == ASSUME Inv, Return PROVE Inv'
  <1>1. /\ phase \in {"failed", "closing"} /\ answer[Main] # None /\ phase' = "returned"
        /\ UNCHANGED <<selection, pending, ip, attempt, cancelled, daemon, lease, closing, operationErr, faults>>
    BY DEF Return
  <1>2. Sorted' /\ Tracked' = Tracked /\ Supported'
    BY <1>1, ListsKept, DockerKept
  <1>3. once = "done"
    BY <1>1, LeaseAssumption DEF Inv, OneAnswer
  <1>4. Opening'
    BY <1>1, <1>3 DEF Inv, Opening, closing
  <1>5. Closing'
    <2>1. OnlyRealFailures'
      BY <1>1, ReportKept DEF closing
    <2> QED
      BY <1>1, <1>2, <1>3, <2>1 DEF Inv, Closing, closing
  <1>6. OneAnswer'
    BY <1>1 DEF Inv, OneAnswer, closing
  <1>7. Typed'
    BY <1>1 DEF Inv, Typed, TypeOK, lease, closing, service
  <1> QED
    BY <1>2, <1>4, <1>5, <1>6, <1>7 DEF Inv

\* Nothing happens but, perhaps, the gate's cancellation.
LEMMA CancelPreserves == ASSUME Inv, Cancel \/ UNCHANGED vars PROVE Inv'
  <1>1. /\ cancelled' \in BOOLEAN
        /\ UNCHANGED <<starting, daemon, lease, closing, operationErr, faults>>
    BY DEF Cancel, vars, starting, lease, closing, Inv, Typed, TypeOK
  <1>2. Sorted' /\ Tracked' = Tracked /\ Supported'
    BY <1>1, ListsKept, DockerKept DEF starting
  <1>3. Opening'
    BY <1>1, <1>2 DEF Inv, Opening, starting, lease, closing
  <1>4. Closing'
    <2>1. OnlyRealFailures'
      BY <1>1, ReportKept DEF starting, closing
    <2> QED
      BY <1>1, <1>2, <2>1 DEF Inv, Closing, starting, closing
  <1>5. OneAnswer'
    BY <1>1 DEF Inv, OneAnswer, closing
  <1>6. Typed'
    BY <1>1 DEF Inv, Typed, TypeOK, starting, lease, closing, service
  <1> QED
    BY <1>2, <1>3, <1>4, <1>5, <1>6 DEF Inv

LEMMA InitInv == Init => Inv
  <1>1. SUFFICES ASSUME Init PROVE Inv
    OBVIOUS
  <1>2. /\ selection \in SUBSET Names /\ selection # {} /\ pending = selection /\ ip = 1
        /\ daemon = {} /\ containers = <<>> /\ volumes = <<>> /\ networks = <<>> /\ identities = {}
        /\ queue = <<>> /\ closeErr = {} /\ answer = [c \in Callers |-> None] /\ once = "fresh"
        /\ phase = "starting" /\ attempt = 1 /\ cancelled = FALSE /\ operationErr = FALSE
        /\ faults = [removals |-> {}, calls |-> 0]
    BY <1>1, CatalogNames DEF Init
  <1>3. First(selection) \in selection
    BY <1>2, FirstName
  <1>4. 1 <= Len(Steps(First(selection)))
    <2>1. First(selection) \in Names
      BY <1>2, <1>3
    <2>2. Len(Steps(First(selection))) = Lengths(First(selection))
      BY <2>1, ProgramLength
    <2> QED
      BY <2>2 DEF Lengths
  <1>5. Typed
    <2>1. /\ faults \in [removals : SUBSET Resources, calls : 0..MaxFaults]
          /\ faults.removals \subseteq Resources /\ faults.calls \in 0..MaxFaults
      BY <1>2, LeaseAssumption
    <2>2. /\ containers \in Seq(Resources) /\ volumes \in Seq(Resources) /\ networks \in Seq(Resources)
          /\ queue \in Seq(Resources)
      BY <1>2
    <2>3. answer \in [Callers -> (SUBSET Resources) \cup {None}]
      BY <1>2
    <2>4. attempt \in 1..Attempts
      BY <1>2, LeaseAssumption
    <2>5. ip <= Len(Steps(service)) /\ ip \in Nat \ {0}
      BY <1>2, <1>4 DEF service
    <2>6. selection \subseteq ToSet(Catalog) /\ pending \subseteq selection /\ identities \subseteq ToSet(Catalog)
      BY <1>2, CatalogNames
    <2> QED
      BY <1>2, <2>1, <2>2, <2>3, <2>4, <2>5, <2>6 DEF Typed, TypeOK
  <1>6. Tracked = {}
    BY <1>2 DEF Tracked, ToSet
  <1>7. Sorted
    BY <1>2 DEF Sorted, Distinct, OfKind
  <1>8. Supported
    BY <1>2 DEF Supported
  <1>9. Opening
    <2>1. ~ClusterAt(pending, ip, 10) /\ ~ClusterAt(pending, ip, 17)
      BY <1>2 DEF ClusterAt
    <2>2. Made(selection \ pending, pending, ip) = {}
      <3>1. Whats(First(pending), ip) = {}
        BY <1>2, WhatsBegin
      <3>2. selection \ pending = {}
        BY <1>2
      <3> QED
        BY <3>1, <3>2 DEF Made
    <2> QED
      BY <1>2, <1>6, <2>1, <2>2 DEF Opening, Footprint, Brought
  <1>10. Closing /\ OneAnswer
    BY <1>2 DEF Closing, OneAnswer, OnlyRealFailures
  <1> QED
    BY <1>5, <1>7, <1>8, <1>9, <1>10 DEF Inv

LEMMA NextInv == Inv /\ [Next]_vars => Inv'
  <1>1. SUFFICES ASSUME Inv, [Next]_vars PROVE Inv'
    OBVIOUS
  <1>2. ASSUME CreateStep PROVE Inv'
    BY <1>1, <1>2, CreatePreserves
  <1>3. ASSUME CheckStep PROVE Inv'
    BY <1>1, <1>3, CheckPreserves
  <1>4. ASSUME TrackStep PROVE Inv'
    BY <1>1, <1>4, TrackPreserves
  <1>5. ASSUME ComposeStep PROVE Inv'
    BY <1>1, <1>5, ComposePreserves
  <1>6. ASSUME ReadyStep PROVE Inv'
    BY <1>1, <1>6, ReadyPreserves
  <1>7. ASSUME PublishStep \/ WithdrawStep PROVE Inv'
    BY <1>1, <1>7, PublishPreserves
  <1>8. ASSUME Started PROVE Inv'
    BY <1>1, <1>8, StartedPreserves
  <1>9. ASSUME Operate PROVE Inv'
    BY <1>1, <1>9, OperatePreserves
  <1>10. ASSUME NEW c \in Callers, Enter(c) PROVE Inv'
    BY <1>1, <1>10, EnterPreserves
  <1>11. ASSUME RemoveNext PROVE Inv'
    BY <1>1, <1>11, RemovePreserves
  <1>12. ASSUME Closed PROVE Inv'
    BY <1>1, <1>12, ClosedPreserves
  <1>13. ASSUME NEW c \in Callers, Answer(c) PROVE Inv'
    BY <1>1, <1>13, AnswerPreserves
  <1>14. ASSUME Return PROVE Inv'
    BY <1>1, <1>14, ReturnPreserves
  <1>15. ASSUME Cancel \/ UNCHANGED vars PROVE Inv'
    BY <1>1, <1>15, CancelPreserves
  <1>16. Main \in Callers
    BY LeaseAssumption
  <1> QED
    BY <1>1, <1>2, <1>3, <1>4, <1>5, <1>6, <1>7, <1>8, <1>9, <1>10, <1>11, <1>12, <1>13, <1>14, <1>15,
       <1>16 DEF Next, Go, Others

-----------------------------------------------------------------------------
(* The theorems.                                                           *)

\* The inductive invariant: what each operation of each program has tracked,
\* what docker has of it, and what each removal has left or reported.
THEOREM InvariantHolds == Spec => []Inv
  <1>1. Init => Inv
    BY InitInv
  <1>2. Inv /\ [Next]_vars => Inv'
    BY NextInv
  <1> QED
    BY <1>1, <1>2, PTL DEF Spec

\* However far Start came, whatever docker has is listed in the lease, came with
\* what is, or was made by the one call that failed; and withModuleServices
\* returns with the lease closed (services.go:221-276, gates/services.go:83-87).
THEOREM LeaseKnowsAll == Spec => []LeaseInv
  <1>1. Inv => LeaseInv
    BY DEF Inv, Typed, Supported, Closing, LeaseInv
  <1> QED
    BY <1>1, InvariantHolds, PTL

\* After the cleanup all that docker still has of the lease's tracked resources is
\* in the report of Close; other leftovers came with one, or with the call that
\* failed (services.go:368-389).
THEOREM CleanupIsReported == Spec => []LeftoversReported
  <1>1. Inv => LeftoversReported
    <2>1. SUFFICES ASSUME Inv, once = "done"
                   PROVE  /\ daemon \cap Tracked \subseteq closeErr
                          /\ daemon \subseteq closeErr \cup Brought(Tracked) \cup Footprint(Attempted)
      BY DEF LeftoversReported
    <2>2. ToSet(queue) = {}
      BY <2>1 DEF Inv, Closing, ToSet
    <2>3. daemon \cap Tracked \subseteq closeErr
      BY <2>1, <2>2 DEF Inv, Closing
    <2>4. daemon \subseteq Footprint(Tracked) \cup Footprint(Attempted)
      BY <2>1, FootprintGrows DEF Inv, Supported
    <2> QED
      BY <2>3, <2>4 DEF Footprint
  <1> QED
    BY <1>1, InvariantHolds, PTL

\* The order of the removals defeats none of them: what is reported failed, or
\* is used by a container that failed or that nobody knew (services.go:368-389).
THEOREM CleanupOrderIsRight == Spec => []OnlyRealFailures
  <1>1. Inv => OnlyRealFailures
    BY DEF Inv, Closing
  <1> QED
    BY <1>1, InvariantHolds, PTL

\* Every caller of Close gets the result of the one cleanup, after it
\* (services.go:329-366).
THEOREM CloseAnswersOnce == Spec => []OneAnswer
  <1>1. Inv => OneAnswer
    BY DEF Inv
  <1> QED
    BY <1>1, InvariantHolds, PTL

\* A gate operation has every service it asked for, under its own identity, with
\* all its resources and what docker made with them (services.go:214-226, rabbitstream_full.go:60-100).
THEOREM GatesRunOnCompleteLeases == Spec => []OperatingIsComplete
  <1>1. Inv => OperatingIsComplete
    <2>1. SUFFICES ASSUME Inv, phase = "operating"
                   PROVE  /\ identities = selection /\ daemon = Footprint(Tracked)
                          /\ \A s \in selection : \A i \in 1..Len(Steps(s)) :
                                Steps(s)[i].op \in {"create", "track"} => Steps(s)[i].what \subseteq daemon
      BY DEF OperatingIsComplete
    <2>2. identities = selection /\ daemon = Footprint(Tracked) /\ Tracked = Made(selection, {}, 1)
      BY <2>1 DEF Inv, Opening
    <2>3. ASSUME NEW s \in selection, NEW i \in 1..Len(Steps(s)) PROVE Steps(s)[i].what \subseteq daemon
      <3>1. s \in Names
        BY <2>1, CatalogNames DEF Inv, Typed, TypeOK
      <3>2. PICK n : n = Len(Steps(s))
        OBVIOUS
      <3>3. n \in Nat /\ i \in 1..n
        BY <3>1, <3>2, ProgramLength DEF Lengths
      <3>4. i < n + 1
        BY <3>3
      <3>5. \A r \in Steps(s)[i].what : r \in All(s)
        BY <3>1, <3>2, <3>4, WhatIsResource DEF All, Whats
      <3>6. All(s) \subseteq Made(selection, {}, 1)
        BY DEF Made
      <3> QED
        BY <2>2, <3>5, <3>6, FootprintGrows
    <2> QED
      BY <2>2, <2>3
  <1> QED
    BY <1>1, InvariantHolds, PTL

-----------------------------------------------------------------------------
(* The programs and removals as the steps of a lease.                      *)

\* Operations of Start take nothing away, and are seen by no closing caller.
LEMMA StartOnlyGrows ==
    ASSUME CreateStep \/ CheckStep \/ TrackStep \/ ComposeStep \/ ReadyStep \/ PublishStep \/ WithdrawStep
    PROVE  /\ phase = "starting" /\ phase' \in {"starting", "failed"}
           /\ selection' = selection /\ daemon \subseteq daemon' /\ UNCHANGED closing
  <1>1. ASSUME Advance \/ Abandon \/ Onward PROVE phase' \in {phase, "failed"} /\ selection' = selection
    BY <1>1 DEF Advance, Onward, Abandon
  <1>2. CASE CreateStep
    <2>1. phase = "starting" /\ UNCHANGED closing /\ (Advance \/ Abandon) /\ daemon \subseteq daemon'
      BY <1>2 DEF CreateStep, At
    <2> QED
      BY <1>1, <2>1
  <1>3. CASE ComposeStep
    <2>1. phase = "starting" /\ UNCHANGED closing /\ (Advance \/ Abandon) /\ daemon \subseteq daemon'
      BY <1>3 DEF ComposeStep, At
    <2> QED
      BY <1>1, <2>1
  <1>4. CASE CheckStep \/ TrackStep \/ PublishStep \/ WithdrawStep
    <2>1. phase = "starting" /\ UNCHANGED closing /\ (Advance \/ Abandon) /\ daemon' = daemon
      BY <1>4 DEF CheckStep, TrackStep, PublishStep, WithdrawStep, At
    <2> QED
      BY <1>1, <2>1
  <1>5. CASE ReadyStep
    <2>1. /\ phase = "starting" /\ UNCHANGED closing /\ daemon' = daemon
          /\ Onward \/ Abandon \/ UNCHANGED <<selection, pending, phase, ip, operationErr, faults>>
      BY <1>5 DEF ReadyStep, At
    <2> QED
      BY <1>1, <2>1
  <1> QED
    BY <1>2, <1>3, <1>4, <1>5

\* Nor is anything forgotten.
LEMMA StartTracksMore ==
    ASSUME Inv, Inv',
           CreateStep \/ CheckStep \/ TrackStep \/ ComposeStep \/ ReadyStep \/ PublishStep \/ WithdrawStep
    PROVE  Tracked \subseteq Tracked'
  <1>1. phase = "starting" /\ pending # {}
    BY DEF CreateStep, CheckStep, TrackStep, ComposeStep, ReadyStep, PublishStep, WithdrawStep, At
  <1>2. Onward \/ UNCHANGED <<containers, volumes, networks>>
    BY DEF CreateStep, CheckStep, TrackStep, ComposeStep, ReadyStep, PublishStep, WithdrawStep, Advance, lease
  <1>3. CASE Onward
    <2>1. /\ phase' = "starting" /\ selection' = selection
          /\ Made(selection \ pending', pending', ip') = Tracked \cup step.what
      BY <1>1, <1>3, OnwardMoves
    <2>2. Tracked' = Made(selection' \ pending', pending', ip')
      BY <2>1 DEF Inv, Opening
    <2> QED
      BY <2>1, <2>2
  <1>4. CASE UNCHANGED <<containers, volumes, networks>>
    BY <1>4 DEF Tracked
  <1> QED
    BY <1>2, <1>3, <1>4

\* What a running cleanup or a caller sees of the stage.
LEMMA StageWhileClosing ==
    ASSUME Inv, once # "fresh"
    PROVE  /\ phase \in {"failed", "closing", "returned"}
           /\ once = "running" => Stage = "closing" /\ phase # "returned"
           /\ once = "done" => Stage \in {"closed", "returned"}
  BY DEF Inv, Typed, TypeOK, Opening, Closing, Stage

LEMMA StageKept ==
    ASSUME UNCHANGED <<phase, once>>
    PROVE  Stage' = Stage
  BY DEF Stage

LEMMA InitMapped == Init => Abstract!Init
  BY DEF Init, Abstract!Init, Stage, Reported

LEMMA StartMapped ==
    ASSUME Inv, Inv',
           CreateStep \/ CheckStep \/ TrackStep \/ ComposeStep \/ ReadyStep \/ PublishStep \/ WithdrawStep
    PROVE  Abstract!Acquire \/ Abstract!GiveUp
  <1>1. /\ phase = "starting" /\ phase' \in {"starting", "failed"}
        /\ selection' = selection /\ daemon \subseteq daemon' /\ UNCHANGED closing
    BY StartOnlyGrows
  <1>2. once = "fresh" /\ once' = "fresh" /\ answer' = answer
    BY <1>1 DEF Inv, Opening, closing
  <1>3. daemon \cap Tracked \subseteq (daemon \cap Tracked)' /\ (daemon \cap Tracked)' \subseteq Resources
    BY <1>1, StartTracksMore DEF Inv, Typed, TypeOK
  <1>4. Stage = "acquiring" /\ Stage' \in {"acquiring", "closing"} /\ Reported' = Reported
    BY <1>1, <1>2 DEF Stage, Reported
  <1> QED
    BY <1>1, <1>2, <1>3, <1>4 DEF Abstract!Acquire, Abstract!GiveUp, Abstract!Grows

LEMMA StartedMapped == ASSUME Inv, Inv', Started PROVE Abstract!Grant
  <1>1. /\ phase = "starting" /\ phase' = "operating"
        /\ UNCHANGED <<selection, daemon, once, closeErr, answer>> /\ Tracked' = Tracked
    BY DEF Started, closing, lease, Tracked
  <1>2. Stage = "acquiring" /\ Stage' = "granted" /\ Reported' = Reported
    BY <1>1 DEF Stage, Reported
  <1>3. daemon \cap Tracked = Made(selection, {}, 1)
    BY <1>1, FootprintGrows DEF Inv, Opening
  <1>4. ASSUME NEW s \in selection PROVE s \in ToSet(Catalog) /\ Needed(s) \subseteq daemon \cap Tracked
    <2>1. s \in Names /\ s \in ToSet(Catalog)
      BY CatalogNames DEF Inv, Typed, TypeOK
    <2>2. ASSUME NEW i \in 1..Len(Steps(s)) PROVE Steps(s)[i].what \subseteq All(s)
      <3>1. Len(Steps(s)) \in Nat
        BY <2>1, ProgramLength DEF Lengths
      <3>2. i < Len(Steps(s)) + 1
        BY <3>1
      <3> QED
        BY <2>1, <3>2, WhatIsResource DEF All, Whats
    <2>3. All(s) \subseteq daemon \cap Tracked
      BY <1>3 DEF Made
    <2> QED
      BY <2>1, <2>2, <2>3 DEF Needed
  <1> QED
    BY <1>1, <1>2, <1>4 DEF Abstract!Grant

LEMMA OperateMapped == ASSUME Inv, Operate PROVE Abstract!Release
  <1>1. /\ phase = "operating" /\ phase' = "closing" /\ once = "fresh" /\ once' = once
        /\ UNCHANGED <<selection, daemon, closeErr, answer>> /\ Tracked' = Tracked
    BY DEF Operate, closing, lease, Tracked, Inv, Opening
  <1>2. Stage = "granted" /\ Stage' = "closing" /\ Reported' = Reported
    BY <1>1 DEF Stage, Reported
  <1> QED
    BY <1>1, <1>2 DEF Abstract!Release

\* Whoever enters begins the cleanup: the fixtures are being closed already.
LEMMA EnterMapped == ASSUME Inv, NEW c \in Callers, Enter(c) PROVE UNCHANGED Abstract!leaseVars
  <1>1. /\ MayClose(c) /\ once = "fresh" /\ once' = "running"
        /\ UNCHANGED <<selection, phase, daemon, closeErr, answer>> /\ Tracked' = Tracked
    BY DEF Enter, starting, lease, Tracked
  <1>2. phase \in {"failed", "closing"}
    BY <1>1, ClosingPhases DEF Inv, Closing
  <1>3. Stage = "closing" /\ Stage' = "closing" /\ Reported' = Reported
    BY <1>1, <1>2 DEF Stage, Reported
  <1> QED
    BY <1>1, <1>3 DEF Abstract!leaseVars

LEMMA RemoveMapped == ASSUME Inv, RemoveNext PROVE Abstract!Remove
  <1>1. /\ once = "running" /\ once' = once /\ daemon' \subseteq daemon
        /\ UNCHANGED <<selection, phase, answer>> /\ Tracked' = Tracked
    BY DEF RemoveNext, starting, lease, Tracked
  <1>2. Stage = "closing" /\ Stage' = Stage
    BY <1>1, StageWhileClosing, StageKept
  <1>3. Reported' = Reported
    BY <1>1 DEF Reported
  <1> QED
    BY <1>1, <1>2, <1>3 DEF Abstract!Remove

LEMMA ClosedMapped == ASSUME Inv, Inv', Closed PROVE Abstract!Settle
  <1>1. /\ once = "running" /\ once' = "done" /\ queue = <<>>
        /\ UNCHANGED <<selection, phase, daemon, closeErr, answer>> /\ Tracked' = Tracked
    BY DEF Closed, starting, lease, Tracked
  <1>2. Stage = "closing" /\ phase \in {"failed", "closing"}
    BY <1>1, StageWhileClosing
  <1>3. Stage' = "closed"
    BY <1>1, <1>2 DEF Stage
  <1>4. ToSet(queue) = {}
    BY <1>1 DEF ToSet
  <1>5. daemon \cap Tracked \subseteq closeErr /\ closeErr \subseteq Resources
    BY <1>1, <1>4 DEF Inv, Closing, Typed, TypeOK
  <1>6. Reported' = closeErr
    BY <1>1 DEF Reported
  <1> QED
    BY <1>1, <1>2, <1>3, <1>5, <1>6 DEF Abstract!Settle

LEMMA AnswerMapped == ASSUME Inv, NEW c \in Callers, Answer(c) PROVE Abstract!Tell(c)
  <1>1. /\ answer[c] = None /\ once = "done" /\ answer' = [answer EXCEPT ![c] = closeErr]
        /\ UNCHANGED <<selection, phase, daemon, once, closeErr>> /\ Tracked' = Tracked
    BY DEF Answer, starting, lease, Tracked
  <1>2. Stage \in {"closed", "returned"} /\ Stage' = Stage
    BY <1>1, StageWhileClosing, StageKept
  <1>3. Reported = closeErr /\ Reported' = Reported
    BY <1>1 DEF Reported
  <1> QED
    BY <1>1, <1>2, <1>3 DEF Abstract!Tell

LEMMA ReturnMapped == ASSUME Inv, Inv', Return PROVE Abstract!Return
  <1>1. /\ phase \in {"failed", "closing"} /\ answer[Main] # None /\ phase' = "returned"
        /\ UNCHANGED <<selection, daemon, once, closeErr, answer>> /\ Tracked' = Tracked
    BY DEF Return, closing, lease, Tracked
  <1>2. once = "done"
    BY <1>1, LeaseAssumption DEF Inv, OneAnswer
  <1>3. Stage = "closed" /\ Stage' = "returned" /\ Reported' = Reported
    BY <1>1, <1>2 DEF Stage, Reported
  <1> QED
    BY <1>1, <1>3 DEF Abstract!Return

LEMMA CancelMapped == ASSUME Cancel \/ UNCHANGED vars PROVE UNCHANGED Abstract!leaseVars
  <1>1. UNCHANGED <<selection, phase, daemon, once, closeErr, answer>> /\ Tracked' = Tracked
    BY DEF Cancel, vars, starting, closing, lease, Tracked
  <1>2. Stage' = Stage /\ Reported' = Reported
    BY <1>1, StageKept DEF Reported
  <1> QED
    BY <1>1, <1>2 DEF Abstract!leaseVars

LEMMA NextMapped ==
    ASSUME Inv, Inv', [Next]_vars PROVE [Abstract!Next]_(Abstract!leaseVars)
  <1>1. ASSUME CreateStep \/ CheckStep \/ TrackStep \/ ComposeStep \/ ReadyStep \/ PublishStep \/ WithdrawStep
        PROVE  Abstract!Next
    BY <1>1, StartMapped DEF Abstract!Next
  <1>2. ASSUME Started PROVE Abstract!Next
    BY <1>2, StartedMapped DEF Abstract!Next
  <1>3. ASSUME Operate PROVE Abstract!Next
    BY <1>3, OperateMapped DEF Abstract!Next
  <1>4. ASSUME NEW c \in Callers, Enter(c) PROVE UNCHANGED Abstract!leaseVars
    BY <1>4, EnterMapped
  <1>5. ASSUME RemoveNext PROVE Abstract!Next
    BY <1>5, RemoveMapped DEF Abstract!Next
  <1>6. ASSUME Closed PROVE Abstract!Next
    BY <1>6, ClosedMapped DEF Abstract!Next
  <1>7. ASSUME NEW c \in Callers, Answer(c) PROVE Abstract!Next
    BY <1>7, AnswerMapped DEF Abstract!Next
  <1>8. ASSUME Return PROVE Abstract!Next
    BY <1>8, ReturnMapped DEF Abstract!Next
  <1>9. ASSUME Cancel \/ UNCHANGED vars PROVE UNCHANGED Abstract!leaseVars
    BY <1>9, CancelMapped
  <1>10. Main \in Callers
    BY LeaseAssumption
  <1> QED
    BY <1>1, <1>2, <1>3, <1>4, <1>5, <1>6, <1>7, <1>8, <1>9, <1>10 DEF Next, Go, Others

\* Start, the gate operation and Close are a lease: all the gate asked for while
\* it runs, and one report with all that is left of it, told to every caller
\* after the cleanup (services.go:213-226, 359-389, gates/services.go:59-88).
THEOREM LeaseRefinement == Spec => ImplementsFixture
  <1>1. Init => Abstract!Init
    BY InitMapped
  <1>2. Inv /\ Inv' /\ [Next]_vars => [Abstract!Next]_(Abstract!leaseVars)
    BY NextMapped
  <1> QED
    BY <1>1, <1>2, InvariantHolds, PTL DEF Spec, ImplementsFixture, Abstract!Spec

-----------------------------------------------------------------------------
(* What is left to do shrinks, whatever docker leaves behind.              *)

\* The types of what is counted.
Counted ==
    /\ selection \in SUBSET Names /\ pending \in SUBSET selection
    /\ ip \in Nat \ {0} /\ (pending # {} => ip <= Len(Steps(service)))
    /\ attempt \in 1..Attempts
    /\ phase \in {"starting", "failed", "operating", "closing", "returned"}
    /\ once \in {"fresh", "running", "done"}
    /\ containers \in Seq(Resources) /\ volumes \in Seq(Resources) /\ networks \in Seq(Resources)
    /\ queue \in Seq(Resources)
    /\ answer = [c \in Callers |-> answer[c]]
    /\ cancelled \in BOOLEAN

LEMMA Shrinks ==
    ASSUME NEW a1, NEW a2, NEW a3, NEW a4, NEW a5, NEW a6, NEW a7, NEW a8,
           NEW b1, NEW b2, NEW b3, NEW b4, NEW b5, NEW b6, NEW b7, NEW b8,
           \/ b1 < a1
           \/ b1 = a1 /\ b2 < a2
           \/ b1 = a1 /\ b2 = a2 /\ b3 < a3
           \/ b1 = a1 /\ b2 = a2 /\ b3 = a3 /\ b4 < a4
           \/ b1 = a1 /\ b2 = a2 /\ b3 = a3 /\ b4 = a4 /\ b5 < a5
           \/ b1 = a1 /\ b2 = a2 /\ b3 = a3 /\ b4 = a4 /\ b5 = a5 /\ b6 < a6
           \/ b1 = a1 /\ b2 = a2 /\ b3 = a3 /\ b4 = a4 /\ b5 = a5 /\ b6 = a6 /\ b7 < a7
           \/ b1 = a1 /\ b2 = a2 /\ b3 = a3 /\ b4 = a4 /\ b5 = a5 /\ b6 = a6 /\ b7 = a7 /\ b8 < a8
    PROVE  LessWork(<<b1, b2, b3, b4, b5, b6, b7, b8>>, <<a1, a2, a3, a4, a5, a6, a7, a8>>)
  <1> DEFINE a == <<a1, a2, a3, a4, a5, a6, a7, a8>>
             b == <<b1, b2, b3, b4, b5, b6, b7, b8>>
  <1>1. /\ DOMAIN a = 1..8
        /\ a[1] = a1 /\ a[2] = a2 /\ a[3] = a3 /\ a[4] = a4 /\ a[5] = a5 /\ a[6] = a6 /\ a[7] = a7 /\ a[8] = a8
        /\ b[1] = b1 /\ b[2] = b2 /\ b[3] = b3 /\ b[4] = b4 /\ b[5] = b5 /\ b[6] = b6 /\ b[7] = b7 /\ b[8] = b8
    OBVIOUS
  <1> HIDE DEF a, b
  <1>2. \E i \in 1..8 : b[i] < a[i] /\ \A j \in 1..8 : j < i => b[j] = a[j]
    <2>1. \A j \in 1..8 : j = 1 \/ j = 2 \/ j = 3 \/ j = 4 \/ j = 5 \/ j = 6 \/ j = 7 \/ j = 8
      OBVIOUS
    <2> QED
      BY <1>1, <2>1
  <1>3. \A i \in 1..8 : \A j \in 1..i - 1 : j \in 1..8 /\ j < i
    OBVIOUS
  <1>4. LessWork(b, a)
    BY <1>1, <1>2, <1>3 DEF LessWork
  <1> QED
    BY <1>4 DEF a, b

\* A step with fewer phases, services, operations, attempts, removals, callers left.
LEMMA WorkIsLess ==
    ASSUME \/ PhasesLeft' < PhasesLeft
           \/ PhasesLeft' = PhasesLeft /\ Cardinality(pending') < Cardinality(pending)
           \/ PhasesLeft' = PhasesLeft /\ pending' = pending /\ OperationsLeft' < OperationsLeft
           \/ /\ PhasesLeft' = PhasesLeft /\ pending' = pending /\ OperationsLeft' = OperationsLeft
              /\ \/ Attempts - attempt' < Attempts - attempt
                 \/ /\ attempt' = attempt
                    /\ \/ CleanupLeft' < CleanupLeft
                       \/ CleanupLeft' = CleanupLeft /\ Len(queue') < Len(queue)
                       \/ /\ CleanupLeft' = CleanupLeft /\ queue' = queue
                          /\ Cardinality(Unanswered') < Cardinality(Unanswered)
                       \/ /\ CleanupLeft' = CleanupLeft /\ queue' = queue /\ Unanswered' = Unanswered
                          /\ cancelled = FALSE /\ cancelled' = TRUE
    PROVE  LessWork(Remaining', Remaining)
  <1>1. cancelled = FALSE /\ cancelled' = TRUE
            => (IF cancelled' THEN 0 ELSE 1) < (IF cancelled THEN 0 ELSE 1)
    OBVIOUS
  <1>2. Unanswered' = Unanswered => Cardinality(Unanswered') = Cardinality(Unanswered)
    OBVIOUS
  <1> HIDE DEF PhasesLeft, OperationsLeft, CleanupLeft, Unanswered
  <1> QED
    BY <1>1, <1>2, Shrinks DEF Remaining

LEMMA NamesFinite == ASSUME NEW names \in SUBSET Names PROVE IsFiniteSet(names)
  <1>1. IsFiniteSet(Names)
    <2>1. IsFiniteSet({"rabbitstream"})
      BY FS_Singleton
    <2>2. IsFiniteSet({"rabbitstream"} \cup {"rabbitstream-standalone"})
      BY <2>1, FS_AddElement
    <2>3. IsFiniteSet(({"rabbitstream"} \cup {"rabbitstream-standalone"}) \cup {"valkey"})
      BY <2>2, FS_AddElement
    <2>4. Names = ({"rabbitstream"} \cup {"rabbitstream-standalone"}) \cup {"valkey"}
      BY DEF Names
    <2> QED
      BY <2>3, <2>4
  <1> QED
    BY <1>1, FS_Subset

LEMMA RemainingIsCounted == Counted => Remaining \in Seq(Nat)
  <1>1. SUFFICES ASSUME Counted PROVE Remaining \in Seq(Nat)
    OBVIOUS
  <1>2. Cardinality(pending) \in Nat
    <2>1. IsFiniteSet(pending)
      BY <1>1, NamesFinite DEF Counted
    <2> QED
      BY <2>1, FS_CardinalityType
  <1>3. Cardinality(Unanswered) \in Nat
    <2>1. IsFiniteSet(Unanswered)
      <3>1. Unanswered \in SUBSET Callers
        BY DEF Unanswered
      <3> QED
        BY <3>1, LeaseAssumption, FS_Subset
    <2> QED
      BY <2>1, FS_CardinalityType
  <1>4. OperationsLeft \in Nat
    <2>1. CASE pending = {}
      BY <2>1 DEF OperationsLeft
    <2>2. CASE pending # {}
      <3>1. service \in Names
        BY <1>1, <2>2, FirstName DEF Counted, service
      <3>2. Len(Steps(service)) \in Nat
        BY <3>1, ProgramLength DEF Lengths
      <3>3. PICK n : n = Len(Steps(service))
        OBVIOUS
      <3>4. n \in Nat /\ ip \in Nat /\ ip <= n
        BY <1>1, <2>2, <3>2, <3>3 DEF Counted
      <3> QED
        BY <2>2, <3>3, <3>4 DEF OperationsLeft
    <2> QED
      BY <2>1, <2>2
  <1>5. Attempts - attempt \in Nat
    BY <1>1, LeaseAssumption DEF Counted
  <1>6. Len(queue) \in Nat
    BY <1>1 DEF Counted
  <1>7. PhasesLeft \in Nat /\ CleanupLeft \in Nat
    BY DEF PhasesLeft, CleanupLeft
  <1>8. (IF cancelled THEN 0 ELSE 1) \in Nat
    OBVIOUS
  <1> QED
    BY <1>2, <1>3, <1>4, <1>5, <1>6, <1>7, <1>8 DEF Remaining

\* What the programs count on.
LEMMA Counting ==
    ASSUME Counted, phase = "starting", pending # {}
    PROVE  /\ service \in Names /\ service \in pending
           /\ Len(Steps(service)) \in Nat /\ ip \in 1..Len(Steps(service))
           /\ Placed(service, ip)
  <1>1. service \in Names /\ service \in pending
    BY FirstName DEF Counted, service
  <1>2. Len(Steps(service)) \in Nat
    BY <1>1, ProgramLength DEF Lengths
  <1>3. ip \in 1..Len(Steps(service))
    BY <1>2 DEF Counted
  <1> QED
    BY <1>1, <1>2, <1>3, EveryPlaced

LEMMA NoProgramIsEmpty == ASSUME NEW s \in Names PROVE 1 <= Len(Steps(s))
  <1>1. Len(Steps(s)) = Lengths(s)
    BY ProgramLength
  <1> QED
    BY <1>1 DEF Lengths

\* To the next operation, or to the next service.
LEMMA OnwardShrinks ==
    ASSUME Counted, phase = "starting", pending # {}, Onward,
           attempt' \in 1..Attempts, UNCHANGED <<cancelled, closing>>,
           containers' \in Seq(Resources), volumes' \in Seq(Resources), networks' \in Seq(Resources)
    PROVE  Counted' /\ LessWork(Remaining', Remaining)
  <1>1. /\ service \in Names /\ service \in pending
        /\ Len(Steps(service)) \in Nat /\ ip \in 1..Len(Steps(service))
    BY Counting
  <1>2. phase' = phase /\ selection' = selection /\ PhasesLeft' = PhasesLeft
    BY DEF Onward, PhasesLeft
  <1>3. CASE ip < Len(Steps(service))
    <2>1. ip' = ip + 1 /\ pending' = pending /\ service' = service
      BY <1>3 DEF Onward, service
    <2>2. PICK n : n = Len(Steps(service))
      OBVIOUS
    <2>3. n \in Nat /\ ip \in Nat /\ ip < n /\ ip + 1 <= n /\ ip + 1 \in Nat \ {0} /\ n - (ip + 1) < n - ip
      BY <1>1, <1>3, <2>2
    <2>4. OperationsLeft' < OperationsLeft
      BY <2>1, <2>2, <2>3 DEF OperationsLeft
    <2>5. Counted'
      BY <1>2, <2>1, <2>2, <2>3 DEF Counted, closing
    <2> QED
      BY <1>2, <2>1, <2>4, <2>5, WorkIsLess
  <1>4. CASE ~(ip < Len(Steps(service)))
    <2>1. ip' = 1 /\ pending' = pending \ {service}
      BY <1>4 DEF Onward
    <2>2. pending \in SUBSET Names /\ pending' \in SUBSET Names
      BY <2>1 DEF Counted
    <2>3. pending' # {} => 1 <= Len(Steps(First(pending')))
      <3>1. SUFFICES ASSUME pending' # {} PROVE 1 <= Len(Steps(First(pending')))
        OBVIOUS
      <3>2. First(pending') \in Names
        BY <2>2, <3>1, FirstName
      <3> QED
        BY <3>2, NoProgramIsEmpty
    <2>4. Counted'
      BY <1>2, <2>1, <2>3 DEF Counted, closing, service
    <2>5. Cardinality(pending') < Cardinality(pending)
      <3>1. IsFiniteSet(pending)
        BY <2>2, NamesFinite
      <3>2. Cardinality(pending') = Cardinality(pending) - 1 /\ Cardinality(pending) \in Nat
        BY <1>1, <2>1, <3>1, FS_RemoveElement, FS_CardinalityType
      <3> QED
        BY <3>2
    <2> QED
      BY <1>2, <2>4, <2>5, WorkIsLess
  <1> QED
    BY <1>3, <1>4

LEMMA AbandonShrinks ==
    ASSUME Counted, phase = "starting", Abandon, UNCHANGED <<cancelled, closing>>,
           containers' = containers, volumes' = volumes, networks' = networks
    PROVE  Counted' /\ LessWork(Remaining', Remaining)
  <1>1. phase' = "failed" /\ UNCHANGED <<selection, pending, ip, attempt>>
    BY DEF Abandon
  <1>2. PhasesLeft' < PhasesLeft
    BY <1>1 DEF PhasesLeft
  <1>3. Counted'
    BY <1>1 DEF Counted, closing, service
  <1> QED
    BY <1>2, <1>3, WorkIsLess

LEMMA StartShrinks ==
    ASSUME Counted,
           CreateStep \/ CheckStep \/ TrackStep \/ ComposeStep \/ ReadyStep \/ PublishStep \/ WithdrawStep
    PROVE  Counted' /\ LessWork(Remaining', Remaining)
  <1>1. phase = "starting" /\ pending # {} /\ UNCHANGED <<cancelled, closing>>
    BY DEF CreateStep, CheckStep, TrackStep, ComposeStep, ReadyStep, PublishStep, WithdrawStep, At
  <1>2. /\ service \in Names /\ ip \in 1..Len(Steps(service)) /\ Placed(service, ip)
    BY <1>1, Counting
  <1>3. /\ attempt \in 1..Attempts
        /\ containers \in Seq(Resources) /\ volumes \in Seq(Resources) /\ networks \in Seq(Resources)
    BY DEF Counted
  <1>4. CASE CreateStep
    <2>1. PICK r \in step.what :
             \/ /\ containers' = IF r.kind = "container" THEN Append(containers, r) ELSE containers
                /\ volumes' = IF r.kind = "volume" THEN Append(volumes, r) ELSE volumes
                /\ networks' = IF r.kind = "network" THEN Append(networks, r) ELSE networks
                /\ Advance
             \/ Abandon /\ UNCHANGED <<containers, volumes, networks>>
      BY <1>4 DEF CreateStep
    <2>2. r \in Resources
      BY <1>2, WhatIsResource DEF step
    <2>3. CASE Abandon /\ UNCHANGED <<containers, volumes, networks>>
      BY <1>1, <2>3, AbandonShrinks
    <2>4. CASE /\ containers' = IF r.kind = "container" THEN Append(containers, r) ELSE containers
               /\ volumes' = IF r.kind = "volume" THEN Append(volumes, r) ELSE volumes
               /\ networks' = IF r.kind = "network" THEN Append(networks, r) ELSE networks
               /\ Advance
      <3>1. containers' \in Seq(Resources) /\ volumes' \in Seq(Resources) /\ networks' \in Seq(Resources)
        BY <1>3, <2>2, <2>4
      <3>2. Onward /\ attempt' = attempt
        BY <2>4 DEF Advance
      <3> QED
        BY <1>1, <1>3, <3>1, <3>2, OnwardShrinks
    <2> QED
      BY <2>1, <2>3, <2>4
  <1>5. CASE TrackStep
    <2>1. /\ step.op = "track" /\ containers' = containers \o SetToSeq(step.what)
          /\ Onward /\ attempt' = attempt /\ volumes' = volumes /\ networks' = networks
      BY <1>5 DEF TrackStep, At, Advance
    <2>2. step.what = Members("task")
      BY <1>2, <2>1 DEF Placed, step
    <2>3. PICK r, q : Members("task") = {r, q} /\ r # q
      BY MembersAreSound
    <2>4. {r, q} = Steps(service)[ip].what
      BY <2>2, <2>3 DEF step
    <2>5. r \in Resources /\ q \in Resources
      BY <1>2, <2>4, WhatIsResource
    <2>6. PICK listed : listed = SetToSeq({r, q})
      OBVIOUS
    <2>7. listed \in Seq(Resources)
      BY <2>3, <2>5, <2>6, Listed
    <2>8. containers' = containers \o listed
      BY <2>1, <2>2, <2>3, <2>6
    <2>9. containers' \in Seq(Resources)
      BY <1>3, <2>7, <2>8
    <2> QED
      BY <1>1, <1>3, <2>1, <2>9, OnwardShrinks
  <1>6. CASE CheckStep \/ ComposeStep \/ PublishStep \/ WithdrawStep
    <2>1. /\ (Onward /\ attempt' = attempt) \/ Abandon
          /\ containers' = containers /\ volumes' = volumes /\ networks' = networks
      BY <1>6 DEF CheckStep, ComposeStep, PublishStep, WithdrawStep, Advance, lease
    <2>2. CASE Abandon
      BY <1>1, <2>1, <2>2, AbandonShrinks
    <2>3. CASE Onward /\ attempt' = attempt
      BY <1>1, <1>3, <2>1, <2>3, OnwardShrinks
    <2> QED
      BY <2>1, <2>2, <2>3
  <1>7. CASE ReadyStep
    <2>1. /\ containers' = containers /\ volumes' = volumes /\ networks' = networks
          /\ \/ Onward /\ attempt' = 1
             \/ attempt < Attempts /\ attempt' = attempt + 1 /\ UNCHANGED <<selection, pending, phase, ip>>
             \/ Abandon
      BY <1>7 DEF ReadyStep, lease
    <2>2. CASE Abandon
      BY <1>1, <2>1, <2>2, AbandonShrinks
    <2>3. CASE Onward /\ attempt' = 1
      <3>1. attempt' \in 1..Attempts
        BY <2>3, LeaseAssumption
      <3> QED
        BY <1>1, <1>3, <2>1, <2>3, <3>1, OnwardShrinks
    <2>4. CASE attempt < Attempts /\ attempt' = attempt + 1 /\ UNCHANGED <<selection, pending, phase, ip>>
      <3>1. attempt + 1 \in 1..Attempts /\ Attempts - (attempt + 1) < Attempts - attempt
        BY <1>3, <2>4, LeaseAssumption
      <3>2. Attempts - attempt' < Attempts - attempt /\ attempt' \in 1..Attempts
        BY <2>4, <3>1
      <3>3. Counted'
        BY <1>1, <2>1, <2>4, <3>2 DEF Counted, closing, service
      <3>4. PhasesLeft' = PhasesLeft /\ OperationsLeft' = OperationsLeft
        BY <2>4 DEF PhasesLeft, OperationsLeft, service
      <3> QED
        BY <2>4, <3>2, <3>3, <3>4, WorkIsLess
    <2> QED
      BY <2>1, <2>2, <2>3, <2>4
  <1> QED
    BY <1>4, <1>5, <1>6, <1>7

LEMMA EnterShrinks ==
    ASSUME Counted, NEW c \in Callers, Enter(c)
    PROVE  Counted' /\ LessWork(Remaining', Remaining)
  <1>1. /\ once = "fresh" /\ once' = "running"
        /\ queue' = Reverse(containers) \o Reverse(volumes) \o Reverse(networks)
        /\ UNCHANGED <<starting, cancelled, lease, answer>>
    BY DEF Enter
  <1>2. queue' \in Seq(Resources)
    <2>1. PICK cs, vs, ns : cs = Reverse(containers) /\ vs = Reverse(volumes) /\ ns = Reverse(networks)
      OBVIOUS
    <2>2. containers \in Seq(Resources) /\ volumes \in Seq(Resources) /\ networks \in Seq(Resources)
      BY DEF Counted
    <2>3. cs \in Seq(Resources) /\ vs \in Seq(Resources) /\ ns \in Seq(Resources)
      BY <2>1, <2>2, Reversed
    <2>4. cs \o vs \o ns \in Seq(Resources)
      BY <2>3
    <2> QED
      BY <1>1, <2>1, <2>4
  <1>3. Counted'
    BY <1>1, <1>2 DEF Counted, starting, lease, service
  <1>4. /\ PhasesLeft' = PhasesLeft /\ OperationsLeft' = OperationsLeft /\ CleanupLeft' < CleanupLeft
        /\ pending' = pending /\ attempt' = attempt
    BY <1>1 DEF PhasesLeft, OperationsLeft, CleanupLeft, starting, service
  <1> QED
    BY <1>3, <1>4, WorkIsLess

LEMMA RemoveShrinks ==
    ASSUME Counted, RemoveNext
    PROVE  Counted' /\ LessWork(Remaining', Remaining)
  <1>1. /\ queue # <<>> /\ queue' = Tail(queue)
        /\ UNCHANGED <<starting, cancelled, lease, once, answer>>
    BY DEF RemoveNext
  <1>2. queue \in Seq(Resources)
    BY DEF Counted
  <1>3. queue' \in Seq(Resources) /\ Len(queue') < Len(queue)
    BY <1>1, <1>2
  <1>4. Counted'
    BY <1>1, <1>3 DEF Counted, starting, lease, service
  <1>5. /\ PhasesLeft' = PhasesLeft /\ OperationsLeft' = OperationsLeft /\ CleanupLeft' = CleanupLeft
        /\ pending' = pending /\ attempt' = attempt
    BY <1>1 DEF PhasesLeft, OperationsLeft, CleanupLeft, starting, service
  <1> QED
    BY <1>3, <1>4, <1>5, WorkIsLess

LEMMA ClosedShrinks ==
    ASSUME Counted, Closed
    PROVE  Counted' /\ LessWork(Remaining', Remaining)
  <1>1. /\ once = "running" /\ once' = "done"
        /\ UNCHANGED <<starting, cancelled, lease, queue, answer>>
    BY DEF Closed
  <1>2. Counted'
    BY <1>1 DEF Counted, starting, lease, service
  <1>3. /\ PhasesLeft' = PhasesLeft /\ OperationsLeft' = OperationsLeft /\ CleanupLeft' < CleanupLeft
        /\ pending' = pending /\ attempt' = attempt
    BY <1>1 DEF PhasesLeft, OperationsLeft, CleanupLeft, starting, service
  <1> QED
    BY <1>2, <1>3, WorkIsLess

LEMMA AnswerShrinks ==
    ASSUME Counted, NEW c \in Callers, Answer(c), vars' # vars
    PROVE  Counted' /\ LessWork(Remaining', Remaining)
  <1>1. /\ answer[c] = None /\ answer' = [answer EXCEPT ![c] = closeErr]
        /\ UNCHANGED <<starting, cancelled, daemon, lease, once, queue, closeErr, operationErr, faults>>
    BY DEF Answer
  <1>2. answer = [x \in Callers |-> answer[x]]
    BY DEF Counted
  <1>3. /\ answer' = [x \in Callers |-> answer'[x]]
        /\ answer'[c] = closeErr /\ \A x \in Callers \ {c} : answer'[x] = answer[x]
    BY <1>1, <1>2
  <1>4. closeErr # None
    <2>1. SUFFICES ASSUME closeErr = None PROVE FALSE
      OBVIOUS
    <2>2. \A x \in Callers : answer'[x] = answer[x]
      BY <1>1, <1>3, <2>1
    <2>3. answer' = answer
      BY <1>2, <1>3, <2>2
    <2> QED
      BY <1>1, <2>3 DEF vars, starting, lease
  <1>5. Unanswered' = Unanswered \ {c} /\ c \in Unanswered
    BY <1>1, <1>3, <1>4 DEF Unanswered
  <1>6. Cardinality(Unanswered') < Cardinality(Unanswered)
    <2>1. IsFiniteSet(Unanswered)
      <3>1. Unanswered \in SUBSET Callers
        BY DEF Unanswered
      <3> QED
        BY <3>1, LeaseAssumption, FS_Subset
    <2>2. Cardinality(Unanswered') = Cardinality(Unanswered) - 1 /\ Cardinality(Unanswered) \in Nat
      BY <1>5, <2>1, FS_RemoveElement, FS_CardinalityType
    <2> QED
      BY <2>2
  <1>7. Counted'
    BY <1>1, <1>3 DEF Counted, starting, lease, service
  <1>8. /\ PhasesLeft' = PhasesLeft /\ OperationsLeft' = OperationsLeft /\ CleanupLeft' = CleanupLeft
        /\ pending' = pending /\ attempt' = attempt /\ queue' = queue
    BY <1>1 DEF PhasesLeft, OperationsLeft, CleanupLeft, starting, service
  <1> QED
    BY <1>6, <1>7, <1>8, WorkIsLess

\* The gate begins, ends and returns.
LEMMA PhaseShrinks ==
    ASSUME Counted, Started \/ Operate \/ Return
    PROVE  Counted' /\ LessWork(Remaining', Remaining)
  <1>1. /\ \/ phase = "starting" /\ phase' = "operating"
           \/ phase = "operating" /\ phase' = "closing"
           \/ phase \in {"failed", "closing"} /\ phase' = "returned"
        /\ UNCHANGED <<selection, pending, ip, attempt, cancelled, lease, closing>>
    BY DEF Started, Operate, Return
  <1>2. Counted'
    BY <1>1 DEF Counted, lease, closing, service
  <1>3. PhasesLeft' < PhasesLeft
    BY <1>1 DEF PhasesLeft
  <1> QED
    BY <1>2, <1>3, WorkIsLess

LEMMA CancelShrinks ==
    ASSUME Counted, Cancel
    PROVE  Counted' /\ LessWork(Remaining', Remaining)
  <1>1. /\ ~cancelled /\ cancelled' = TRUE /\ UNCHANGED <<starting, lease, closing>>
    BY DEF Cancel
  <1>2. cancelled = FALSE
    BY <1>1 DEF Counted
  <1>3. Counted'
    BY <1>1 DEF Counted, starting, lease, closing, service
  <1>4. /\ PhasesLeft' = PhasesLeft /\ OperationsLeft' = OperationsLeft /\ CleanupLeft' = CleanupLeft
        /\ pending' = pending /\ attempt' = attempt /\ queue' = queue /\ Unanswered' = Unanswered
    BY <1>1 DEF PhasesLeft, OperationsLeft, CleanupLeft, Unanswered, starting, closing, service
  <1> QED
    BY <1>1, <1>2, <1>3, <1>4, WorkIsLess

LEMMA InitCounted == Init => Counted
  <1>1. SUFFICES ASSUME Init PROVE Counted
    OBVIOUS
  <1>2. Inv
    BY <1>1, InitInv
  <1>3. answer = [c \in Callers |-> None]
    BY <1>1 DEF Init
  <1>4. answer = [c \in Callers |-> answer[c]]
    BY <1>3
  <1> QED
    BY <1>2, <1>4, CatalogNames DEF Inv, Typed, TypeOK, Counted

LEMMA NextShrinks ==
    Counted /\ [Next]_vars => Counted' /\ [LessWork(Remaining', Remaining)]_vars
  <1>1. SUFFICES ASSUME Counted, [Next]_vars PROVE Counted' /\ [LessWork(Remaining', Remaining)]_vars
    OBVIOUS
  <1> DEFINE Done == Counted' /\ LessWork(Remaining', Remaining)
  <1>2. CASE UNCHANGED vars
    BY <1>1, <1>2 DEF vars, Counted, service
  <1>3. CASE Next /\ vars' # vars
    <2>1. ASSUME CreateStep \/ CheckStep \/ TrackStep \/ ComposeStep \/ ReadyStep \/ PublishStep \/ WithdrawStep
          PROVE  Done
      BY <1>1, <2>1, StartShrinks
    <2>2. ASSUME Started \/ Operate \/ Return PROVE Done
      BY <1>1, <2>2, PhaseShrinks
    <2>3. ASSUME NEW c \in Callers, Enter(c) PROVE Done
      BY <1>1, <2>3, EnterShrinks
    <2>4. ASSUME NEW c \in Callers, Answer(c) PROVE Done
      BY <1>1, <1>3, <2>4, AnswerShrinks
    <2>5. ASSUME RemoveNext PROVE Done
      BY <1>1, <2>5, RemoveShrinks
    <2>6. ASSUME Closed PROVE Done
      BY <1>1, <2>6, ClosedShrinks
    <2>7. ASSUME Cancel PROVE Done
      BY <1>1, <2>7, CancelShrinks
    <2>8. Main \in Callers
      BY LeaseAssumption
    <2> HIDE DEF Done
    <2>9. Done
      BY <1>3, <2>1, <2>2, <2>3, <2>4, <2>5, <2>6, <2>7, <2>8 DEF Next, Go, Others
    <2> QED
      BY <2>9 DEF Done
  <1> QED
    BY <1>1, <1>2, <1>3

\* No start, gate or cleanup goes on forever, whatever docker answers, leaves
\* behind or fails and however many callers close: every step leaves less of
\* finitely much to do (services.go:213-228, 337-359, 368-389).
THEOREM EveryLeaseEnds == Spec => WorkShrinks
  <1>1. Init => Counted
    BY InitCounted
  <1>2. Counted /\ [Next]_vars => Counted' /\ [LessWork(Remaining', Remaining)]_vars
    BY NextShrinks
  <1>3. Counted => Remaining \in Seq(Nat)
    BY RemainingIsCounted
  <1> QED
    BY <1>1, <1>2, <1>3, PTL DEF Spec, WorkShrinks
==============================================================================
