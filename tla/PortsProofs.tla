----------------------------- MODULE PortsProofs -----------------------------
(* Proofs about Ports: whatever numbers the kernel hands out again, the     *)
(* lists of the bound sockets stay true, the process exits only when        *)
(* nothing of a port that it still has is left, and an event call reports   *)
(* what is ready of the application's descriptors, in the right number.     *)
EXTENDS Ports, TLAPS, FiniteSetTheorems, SequenceTheorems, WellFoundedInduction

-----------------------------------------------------------------------------
(* Induction.  The handlers' loops are functions defined by recursion over  *)
(* the positions of a list.                                                 *)

LEMMA Least ==
    ASSUME NEW S \in SUBSET Nat, S # {}
    PROVE  \E m \in S : \A k \in S : m <= k
<1>1. PICK m \in S : \A k \in S : <<k, m>> \notin OpToRel(<, Nat)
  BY NatLessThanWellFounded, WFMin
<1>2. \A k \in S : k \in Nat /\ m \in Nat /\ ~ k < m
  BY <1>1 DEF OpToRel
<1> QED
  BY <1>2

(* What holds at first, and after each step if before it, holds at last.    *)
LEMMA Persists ==
    ASSUME NEW N \in Nat, NEW S, NEW f, f[0] \in S,
           \A k \in 1..N : f[k - 1] \in S => f[k] \in S
    PROVE  \A k \in 0..N : f[k] \in S
<1> SUFFICES ASSUME NEW n \in 0..N, f[n] \notin S
             PROVE  FALSE
  OBVIOUS
<1> DEFINE Bad == {k \in 0..N : f[k] \notin S}
<1>1. PICK m \in Bad : \A k \in Bad : m <= k
  <2> Bad \in SUBSET Nat /\ Bad # {}
    OBVIOUS
  <2> HIDE DEF Bad
  <2> QED
    BY Least
<1>2. m \in 1..N
  OBVIOUS
<1>3. m - 1 \in 0..N /\ m - 1 \notin Bad
  BY <1>1, <1>2
<1> QED
  BY <1>2, <1>3

(* A function that repeats a step, which stays in S, exists.                *)
Repeats(f, n, s, g) == f = [k \in 0..n |-> IF k = 0 THEN s ELSE g[<<k, f[k - 1]>>]]

LEMMA Repetition ==
    ASSUME NEW N \in Nat, NEW S, NEW s \in S, NEW g \in [(1..N) \X S -> S]
    PROVE  \E f \in [0..N -> S] : Repeats(f, N, s, g)
<1> USE DEF Repeats
<1> DEFINE Up(n, f) == Repeats(f, n, s, g)
           Good == {n \in 0..N : \E f \in [0..n -> S] : Up(n, f)}
<1> SUFFICES N \in Good
  OBVIOUS
<1>1. 0 \in Good
  <2> DEFINE f == [k \in 0..0 |-> s]
  <2>1. f \in [0..0 -> S]
    OBVIOUS
  <2>2. \A k \in 0..0 : f[k] = IF k = 0 THEN s ELSE g[<<k, f[k - 1]>>]
    OBVIOUS
  <2>3. Up(0, f)
    BY <2>2, Zenon
  <2> HIDE DEF f
  <2> QED
    BY <2>1, <2>3
<1>2. ASSUME NEW n \in 1..N, n - 1 \in Good
      PROVE  n \in Good
  <2>1. PICK f \in [0..(n - 1) -> S] : Up(n - 1, f)
    BY <1>2
  <2> DEFINE h == [k \in 0..n |-> IF k = n THEN g[<<n, f[n - 1]>>] ELSE f[k]]
  <2>2. f[n - 1] \in S /\ g[<<n, f[n - 1]>>] \in S
    OBVIOUS
  <2>3. h \in [0..n -> S]
    BY <2>2
  <2> HIDE DEF Good
  <2>4. ASSUME NEW k \in 0..n
        PROVE  h[k] = IF k = 0 THEN s ELSE g[<<k, h[k - 1]>>]
    <3>1. CASE k = n
      <4>1. n \in 0..n /\ n - 1 \in 0..n /\ n - 1 # n /\ n # 0
        OBVIOUS
      <4>2. h[n] = g[<<n, f[n - 1]>>] /\ h[n - 1] = f[n - 1]
        BY <4>1
      <4> HIDE DEF h
      <4> QED
        BY <3>1, <4>1, <4>2
    <3>2. CASE k # n
      <4>1. k \in 0..(n - 1) /\ h[k] = f[k] /\ (k # 0 => h[k - 1] = f[k - 1])
        BY <3>2
      <4>2. f[k] = IF k = 0 THEN s ELSE g[<<k, f[k - 1]>>]
        BY <2>1, <4>1
      <4> QED
        BY <3>2, <4>1, <4>2
    <3> QED
      BY <3>1, <3>2
  <2>5. Up(n, h)
    BY <2>4, Zenon
  <2> HIDE DEF h, Up
  <2> QED
    BY <2>3, <2>5 DEF Good
<1> DEFINE Bad == (0..N) \ Good
<1>3. ASSUME Bad # {}
      PROVE  FALSE
  <2> Bad \in SUBSET Nat
    OBVIOUS
  <2>1. PICK m \in Bad : \A k \in Bad : m <= k
    <3> HIDE DEF Bad
    <3> QED
      BY <1>3, Least
  <2> HIDE DEF Good
  <2>2. m \in 1..N /\ m - 1 \in 0..N
    BY <1>1
  <2>3. m - 1 \in Good
    BY <2>1, <2>2
  <2> QED
    BY <1>2, <2>2, <2>3
<1> QED
  BY <1>3 DEF Bad


-----------------------------------------------------------------------------
(* Numbers and sequences.                                                   *)

LEMMA LeastIsMin ==
    ASSUME NEW S \in SUBSET Nat, S # {}
    PROVE  Min(S) \in S
BY Least DEF Min

LEMMA LowestFree ==
    ASSUME NEW t, FreeNumbers(t) # {}
    PROVE  Lowest(t) \in Number /\ t[Lowest(t)] = None
<1> FreeNumbers(t) \in SUBSET Nat
  BY DEF FreeNumbers, Number
<1> Lowest(t) \in FreeNumbers(t)
  BY LeastIsMin DEF Lowest
<1> QED
  BY DEF FreeNumbers

LEMMA Removed ==
    ASSUME NEW T, NEW s \in Seq(T), NEW i \in 1..Len(s)
    PROVE  /\ RemoveAt(s, i) \in Seq(T)
           /\ Len(RemoveAt(s, i)) = Len(s) - 1
           /\ \A j \in 1..(Len(s) - 1) : RemoveAt(s, i)[j] = s[IF j < i THEN j ELSE j + 1]
<1> DEFINE l == SubSeq(s, 1, i - 1)
           r == SubSeq(s, i + 1, Len(s))
<1>1. l \in Seq(T) /\ Len(l) = i - 1 /\ \A j \in 1..(i - 1) : l[j] = s[j]
  OBVIOUS
<1>2. r \in Seq(T) /\ Len(r) = Len(s) - i /\ \A j \in 1..(Len(s) - i) : r[j] = s[j + i]
  OBVIOUS
<1>3. RemoveAt(s, i) = l \o r
  BY DEF RemoveAt
<1> HIDE DEF l, r
<1>4. l \o r \in Seq(T) /\ Len(l \o r) = Len(s) - 1
  <2>1. Len(s) \in Nat
    OBVIOUS
  <2>2. l \o r \in Seq(T) /\ Len(l \o r) = Len(l) + Len(r)
    BY <1>1, <1>2, ConcatProperties
  <2> QED
    BY <1>1, <1>2, <2>1, <2>2
<1>5. ASSUME NEW j \in 1..(Len(s) - 1)
      PROVE  (l \o r)[j] = s[IF j < i THEN j ELSE j + 1]
  <2>1. CASE j < i
    BY <1>1, <1>2, <2>1
  <2>2. CASE ~ j < i
    <3>1. (l \o r)[j] = r[j - (i - 1)]
      BY <1>1, <1>2, <2>2
    <3>2. j - (i - 1) \in 1..(Len(s) - i) /\ j - (i - 1) + i = j + 1
      BY <2>2
    <3>3. r[j - (i - 1)] = s[j + 1]
      BY <1>2, <3>2
    <3> QED
      BY <2>2, <3>1, <3>3
  <2> QED
    BY <2>1, <2>2
<1> QED
  BY <1>3, <1>4, <1>5

(* Removing what occurs at most once.                                       *)
LEMMA RemovedFirst ==
    ASSUME NEW T, NEW s \in Seq(T), NEW e, IsInjective(s)
    PROVE  /\ RemoveFirst(s, e) \in Seq(T)
           /\ ToSet(RemoveFirst(s, e)) = ToSet(s) \ {e}
           /\ IsInjective(RemoveFirst(s, e))
<1>1. CASE \E j \in 1..Len(s) : s[j] = e
  <2> DEFINE I == {j \in 1..Len(s) : s[j] = e}
             i == SelectInSeq(s, LAMBDA v : v = e)
             r == RemoveAt(s, i)
  <2>1. i = Min(I)
    BY <1>1 DEF SelectInSeq
  <2>2. I \in SUBSET Nat /\ I # {}
    BY <1>1
  <2>3. Min(I) \in I
    <3> HIDE DEF I
    <3> QED
      BY <2>2, LeastIsMin
  <2>4. i \in 1..Len(s) /\ s[i] = e
    BY <2>1, <2>3
  <2> HIDE DEF i
  <2>5. RemoveFirst(s, e) = r
    BY <1>1 DEF RemoveFirst, i
  <2>6. /\ r \in Seq(T) /\ Len(r) = Len(s) - 1
        /\ \A j \in 1..(Len(s) - 1) : r[j] = s[IF j < i THEN j ELSE j + 1]
    BY <2>4, Removed
  <2> HIDE DEF r
  <2>7. \A j, k \in 1..Len(s) : s[j] = s[k] => j = k
    BY DEF IsInjective
  <2>8. IsInjective(r)
    BY <2>4, <2>6, <2>7 DEF IsInjective
  <2>9. ASSUME NEW v \in ToSet(r)
        PROVE  v \in ToSet(s) \ {e}
    <3>1. PICK j \in 1..(Len(s) - 1) : v = r[j]
      BY <2>6 DEF ToSet
    <3> DEFINE k == IF j < i THEN j ELSE j + 1
    <3>2. k \in 1..Len(s) /\ k # i
      BY <2>4, <3>1
    <3> v = s[k]
      BY <2>6, <3>1
    <3> HIDE DEF k
    <3>3. v \in ToSet(s)
      BY <3>2 DEF ToSet
    <3>4. v # e
      BY <2>4, <2>7, <3>2
    <3> QED
      BY <3>3, <3>4
  <2>10. ASSUME NEW v \in ToSet(s), v # e
         PROVE  v \in ToSet(r)
    <3>1. PICK k \in 1..Len(s) : s[k] = v
      BY DEF ToSet
    <3>2. k # i
      BY <2>4, <2>10, <3>1
    <3>3. CASE k < i
      <4> k \in 1..(Len(s) - 1) /\ r[k] = v
        BY <2>4, <2>6, <3>1, <3>3
      <4> QED
        BY <2>6 DEF ToSet
    <3>4. CASE k > i
      <4> k - 1 \in 1..(Len(s) - 1) /\ ~ k - 1 < i /\ (k - 1) + 1 = k
        BY <2>4, <3>1, <3>4
      <4> r[k - 1] = v
        BY <2>6, <3>1
      <4> QED
        BY <2>6 DEF ToSet
    <3> QED
      BY <2>4, <3>2, <3>3, <3>4
  <2> QED
    BY <2>5, <2>6, <2>8, <2>9, <2>10
<1>2. CASE ~ \E j \in 1..Len(s) : s[j] = e
  BY <1>2 DEF RemoveFirst, ToSet
<1> QED
  BY <1>1, <1>2

(* Appending what is not there yet.                                         *)
LEMMA Appended ==
    ASSUME NEW T, NEW s \in Seq(T), NEW e \in T
    PROVE  /\ Append(s, e) \in Seq(T)
           /\ ToSet(Append(s, e)) = ToSet(s) \cup {e}
           /\ IsInjective(s) /\ e \notin ToSet(s) => IsInjective(Append(s, e))
<1>1. Append(s, e) \in Seq(T) /\ Len(Append(s, e)) = Len(s) + 1 /\ DOMAIN Append(s, e) = 1..(Len(s) + 1)
  OBVIOUS
<1>2. /\ \A j \in 1..Len(s) : Append(s, e)[j] = s[j]
      /\ Append(s, e)[Len(s) + 1] = e
  OBVIOUS
<1> DEFINE a == Append(s, e)
<1> HIDE DEF a
<1>3. ToSet(a) = ToSet(s) \cup {e}
  BY <1>1, <1>2 DEF ToSet, a
<1>4. IsInjective(s) /\ e \notin ToSet(s) => IsInjective(a)
  BY <1>1, <1>2 DEF IsInjective, ToSet, a
<1> QED
  BY <1>1, <1>3, <1>4 DEF a

LEMMA Flattened ==
    ASSUME NEW T, NEW q \in Seq(Seq(T))
    PROVE  FlattenSeq(q) \in Seq(T)
<1>1. CASE Len(q) = 0
  BY <1>1 DEF FlattenSeq
<1>2. CASE Len(q) # 0
  <2> DEFINE N == Len(q) - 1
             g == [x \in (1..N) \X Seq(T) |-> x[2] \o q[x[1] + 1]]
             Joined(f) == f = [i \in 1..Len(q) |-> IF i = 1 THEN q[i] ELSE f[i - 1] \o q[i]]
             flatten == CHOOSE f : Joined(f)
  <2>1. N \in Nat /\ q[1] \in Seq(T) /\ \A k \in 1..N : k + 1 \in 1..Len(q) /\ q[k + 1] \in Seq(T)
    BY <1>2
  <2>2. g \in [(1..N) \X Seq(T) -> Seq(T)]
    BY <2>1
  <2>3. PICK f \in [0..N -> Seq(T)] : Repeats(f, N, q[1], g)
    <3> HIDE DEF g, N
    <3> QED
      BY <2>1, <2>2, Repetition, Zenon
  <2> DEFINE h == [i \in 1..Len(q) |-> f[i - 1]]
  <2>4. ASSUME NEW i \in 1..Len(q)
        PROVE  h[i] = IF i = 1 THEN q[i] ELSE h[i - 1] \o q[i]
    <3>1. i - 1 \in 0..N /\ h[i] = f[i - 1]
      BY <1>2
    <3>2. CASE i = 1
      <4> f[0] = q[1]
        BY <2>1, <2>3 DEF Repeats
      <4> QED
        BY <3>1, <3>2
    <3>3. CASE i # 1
      <4>1. i - 1 \in 1..N /\ i - 1 # 0 /\ i - 2 \in 0..N /\ (i - 1) - 1 = i - 2 /\ (i - 1) + 1 = i
        BY <3>1, <3>3
      <4>2. f[i - 2] \in Seq(T) /\ f[i - 1] = g[<<i - 1, f[i - 2]>>]
        BY <2>3, <3>1, <4>1 DEF Repeats
      <4>3. g[<<i - 1, f[i - 2]>>] = f[i - 2] \o q[i]
        BY <4>1, <4>2
      <4>4. h[i - 1] = f[i - 2]
        BY <3>1, <4>1
      <4> QED
        BY <3>1, <3>3, <4>2, <4>3, <4>4
    <3> QED
      BY <3>2, <3>3
  <2> HIDE DEF h
  <2>5. Joined(h)
    <3> h = [i \in 1..Len(q) |-> h[i]]
      BY DEF h
    <3> QED
      BY <2>4, Zenon
  <2>6. Joined(flatten)
    BY <2>5, Zenon
  <2>7. FlattenSeq(q) = flatten[Len(q)]
    BY <1>2 DEF FlattenSeq
  <2> HIDE DEF flatten
  <2> DEFINE e == [k \in 0..N |-> flatten[k + 1]]
  <2>8. e[0] \in Seq(T)
    BY <1>2, <2>1, <2>6
  <2>9. ASSUME NEW k \in 1..N, e[k - 1] \in Seq(T)
        PROVE  e[k] \in Seq(T)
    <3> k + 1 \in 1..Len(q) /\ k + 1 # 1 /\ (k + 1) - 1 = k
      OBVIOUS
    <3> flatten[k + 1] = flatten[k] \o q[k + 1]
      BY <2>6
    <3> k - 1 \in 0..N /\ (k - 1) + 1 = k
      OBVIOUS
    <3> k \in 0..N
      OBVIOUS
    <3> e[k - 1] = flatten[k] /\ e[k] = flatten[k + 1]
      BY DEF e
    <3> q[k + 1] \in Seq(T) /\ flatten[k] \in Seq(T)
      BY <2>1, <2>9
    <3> HIDE DEF e
    <3> QED
      OBVIOUS
  <2>10. e[N] \in Seq(T)
    <3> HIDE DEF e, N
    <3> N \in 0..N
      BY <2>1
    <3> QED
      BY <2>1, <2>8, <2>9, Persists
  <2> QED
    BY <2>1, <2>7, <2>10
<1> QED
  BY <1>1, <1>2

-----------------------------------------------------------------------------
(* What the steps of an event call leave true.                              *)

Table == [Number -> Object \cup {None}]
RequestState == {"away", "queued", "accepted", "sent", "answered", "closed", "gone"}
Finished == {"answered", "closed", "gone"}
EventType == [fd : Number \cup {-1}, of : Object]
Events == {h \in SUBSET EventType : IsFiniteSet(h)}

WorkType == [table : Table, binds : Seq(BindType), request : [Requester -> RequestState],
             gave : [Requester -> SUBSET Object], hot : Events, corr : Int]

Sessions(t, p) == {n \in Number : \E c \in Client : t[n] = Session(c) /\ door[c] = p}
Peers(t, p) == {n \in Number : \E r \in Requester : t[n] = Conn(r) /\ asks[r] = p}

(* ListsTrue of one bound socket.  A listener that is not monitored is      *)
(* closed, and no listener is opened later; a list has a number once.       *)
ListTrue(t, b) ==
    /\ t[b.shadowfd] = Tcp(b.port)
    /\ IF b.monitoring THEN t[b.comfd] = Com(b.port) ELSE \A p \in Port : t[b.comfd] \notin {Com(p), Tcp(p)}
    /\ t[b.fd] \in {Tcp(b.port), Unbound}
    /\ b.fds = Sessions(t, b.port)
    /\ ToSet(b.comfds) = Peers(t, b.port)
    /\ IsInjective(b.comfds)
    /\ b.version = Version(b.port)

Distinct(bs) ==
    \A i, j \in DOMAIN bs : bs[i].port = bs[j].port \/ bs[i].fd = bs[j].fd => i = j

Lists(t, bs) == Distinct(bs) /\ \A i \in DOMAIN bs : ListTrue(t, bs[i])

(* A requester of a port that is not monitored has got its answer, which is *)
(* the sockets of the port.                                                 *)
Handed(rq, gv, bs) ==
    /\ \A r \in Requester : /\ gv[r] \subseteq {Tcp(asks[r]), Com(asks[r])}
                            /\ gv[r] # {} => rq[r] \in Finished
    /\ \A i \in DOMAIN bs, r \in Requester :
          ~bs[i].monitoring /\ asks[r] = bs[i].port => rq[r] \in Finished

(* Who has its answer keeps it.                                             *)
Lasting(rq, rs) == \A r \in Requester : rq[r] \in Finished => rs[r] \in Finished

(* Nothing but connections of requesters is opened or closed.               *)
Passing == {Conn(r) : r \in Requester} \cup {None}
SameBut(t, u) == \A n \in Number : u[n] = t[n] \/ (u[n] \in Passing /\ t[n] \in Passing)
SameBinds(bs, cs) ==
    /\ DOMAIN cs = DOMAIN bs
    /\ \A i \in DOMAIN bs : cs[i] = [bs[i] EXCEPT !.comfds = cs[i].comfds]

AcceptOf(s, i, r, n) ==
    [s EXCEPT !.table = [s.table EXCEPT ![n] = Conn(r)], !.binds[i].comfds = Append(@, n),
              !.request[r] = "accepted"]

LEMMA ImageFinite ==
    ASSUME NEW S, IsFiniteSet(S), NEW f, DOMAIN f = S
    PROVE  IsFiniteSet({f[x] : x \in S})
<1> DEFINE T == {f[x] : x \in S}
           h == [x \in S |-> f[x]]
<1> h \in Surjection(S, T)
  BY DEF Surjection
<1> QED
  BY FS_Surjection

LEMMA Kinds ==
    /\ \A o \in Object : o[1] = "com" => \E p \in Port : o = Com(p) /\ o[2] = p
    /\ \A r \in Requester : Conn(r) \in Object /\ Conn(r)[2] = r
    /\ None \notin Object
BY NoneAssumption DEF Object, Tcp, Com, Conn, Session, File, Unbound, Memory

LEMMA BindAt ==
    ASSUME NEW bs \in Seq(BindType), NEW i \in DOMAIN bs
    PROVE  /\ bs[i] \in BindType
           /\ {bs[i].fd, bs[i].shadowfd, bs[i].comfd} \subseteq Number
           /\ bs[i].port \in Port /\ bs[i].comfds \in Seq(Number) /\ bs[i].monitoring \in BOOLEAN
<1>1. bs[i] \in BindType
  OBVIOUS
<1> QED
  BY <1>1 DEF BindType

LEMMA AcceptEffect ==
    ASSUME NEW s \in WorkType, NEW i \in DOMAIN s.binds, AcceptOn(s, i) # s
    PROVE  \E r \in Requester, n \in Number :
              /\ s.table[n] = None
              /\ s.table[s.binds[i].comfd] = Com(asks[r])
              /\ s.request[r] = "queued"
              /\ AcceptOn(s, i) = AcceptOf(s, i, r, n)
<1> DEFINE b == s.binds[i]
           o == s.table[b.comfd]
           rs == {r \in Requester : s.request[r] = "queued" /\ asks[r] = o[2]}
           r == CHOOSE r \in rs : TRUE
           n == Lowest(s.table)
<1>1. s.table \in Table /\ s.binds \in Seq(BindType) /\ s.request \in [Requester -> RequestState]
  BY DEF WorkType
<1>2. b \in BindType /\ b.comfd \in Number
  BY <1>1, BindAt
<1>3. o # None /\ o[1] = "com" /\ rs # {} /\ FreeNumbers(s.table) # {}
  BY DEF AcceptOn
<1>4. o \in Object /\ o = Com(o[2])
  BY <1>1, <1>2, <1>3, Kinds DEF Table
<1>5. r \in rs
  BY <1>3
<1>6. n \in Number /\ s.table[n] = None
  BY <1>3, LowestFree
<1>7. AcceptOn(s, i) = AcceptOf(s, i, r, n)
  BY <1>3 DEF AcceptOn, AcceptOf, Opened
<1> HIDE DEF r, n
<1> QED
  BY <1>4, <1>5, <1>6, <1>7

LEMMA PassingApart ==
    /\ \A o \in Passing, p \in Port : o # Tcp(p) /\ o # Com(p)
    /\ \A o \in Passing, c \in Client : o # Session(c)
    /\ Unbound \notin Passing /\ File \notin Passing /\ Memory \notin Passing
<1>1. \A p \in Port : None # Tcp(p) /\ None # Com(p)
  BY NoneAssumption DEF Object
<1>2. \A c \in Client : None # Session(c)
  BY NoneAssumption DEF Object
<1>3. None # Unbound /\ None # File /\ None # Memory
  BY NoneAssumption DEF Object
<1>4. \A r, x : Conn(r) # Tcp(x) /\ Conn(r) # Com(x) /\ Conn(r) # Session(x)
  BY DEF Conn, Tcp, Com, Session
<1>5. \A r : Conn(r) # Unbound /\ Conn(r) # File /\ Conn(r) # Memory
  BY DEF Conn, Unbound, File, Memory
<1> QED
  BY <1>1, <1>2, <1>3, <1>4, <1>5 DEF Passing

(* Connections come and go: the lists stay true if those of the connections *)
(* do.                                                                      *)
LEMMA PassingTrue ==
    ASSUME NEW t, NEW u, NEW bs, NEW cs,
           SameBut(t, u), SameBinds(bs, cs), Lists(t, bs), bs \in Seq(BindType),
           \A j \in DOMAIN bs : /\ ToSet(cs[j].comfds) = Peers(u, bs[j].port)
                                /\ IsInjective(cs[j].comfds)
    PROVE  Lists(u, cs)
<1>1. ASSUME NEW j \in DOMAIN bs
      PROVE  /\ cs[j].port = bs[j].port /\ cs[j].fd = bs[j].fd
             /\ cs[j].shadowfd = bs[j].shadowfd /\ cs[j].comfd = bs[j].comfd
             /\ cs[j].fds = bs[j].fds /\ cs[j].monitoring = bs[j].monitoring
             /\ cs[j].version = bs[j].version
  <2>1. bs[j] \in BindType /\ cs[j] = [bs[j] EXCEPT !.comfds = cs[j].comfds]
    BY BindAt DEF SameBinds
  <2> QED
    BY <2>1 DEF BindType
<1>2. Distinct(cs)
  BY <1>1 DEF Distinct, Lists, SameBinds
<1>3. ASSUME NEW j \in DOMAIN bs
      PROVE  ListTrue(u, cs[j])
  <2>1. ListTrue(t, bs[j]) /\ {bs[j].fd, bs[j].shadowfd, bs[j].comfd} \subseteq Number
    BY BindAt DEF Lists
  <2>2. ASSUME NEW n \in Number
        PROVE  /\ \A p \in Port : /\ u[n] = Tcp(p) <=> t[n] = Tcp(p)
                                  /\ u[n] = Com(p) <=> t[n] = Com(p)
               /\ u[n] = Unbound <=> t[n] = Unbound
               /\ \A c \in Client : u[n] = Session(c) <=> t[n] = Session(c)
    <3>1. u[n] = t[n] \/ (u[n] \in Passing /\ t[n] \in Passing)
      BY DEF SameBut
    <3> QED
      BY <3>1, PassingApart
  <2>3. Sessions(u, bs[j].port) = Sessions(t, bs[j].port)
    BY <2>2 DEF Sessions
  <2>4. bs[j].port \in Port
    BY BindAt
  <2>5. /\ u[cs[j].shadowfd] = Tcp(cs[j].port)
        /\ u[cs[j].fd] \in {Tcp(cs[j].port), Unbound}
    BY <1>1, <2>1, <2>2, <2>4 DEF ListTrue
  <2>6. IF cs[j].monitoring THEN u[cs[j].comfd] = Com(cs[j].port)
        ELSE \A p \in Port : u[cs[j].comfd] \notin {Com(p), Tcp(p)}
    BY <1>1, <2>1, <2>2, <2>4 DEF ListTrue
  <2> QED
    BY <1>1, <2>1, <2>3, <2>5, <2>6 DEF ListTrue
<1> QED
  BY <1>2, <1>3 DEF Lists, SameBinds

(* A requester is accepted on the listener of the port that it asks for.    *)
LEMMA AcceptTrue ==
    ASSUME asks \in [Requester -> Port],
           NEW s \in WorkType, NEW i \in DOMAIN s.binds, NEW r \in Requester, NEW n \in Number,
           Lists(s.table, s.binds), s.table[n] = None, s.request[r] = "queued",
           s.table[s.binds[i].comfd] = Com(asks[r]),
           NEW u, u = AcceptOf(s, i, r, n)
    PROVE  /\ u \in WorkType /\ Lists(u.table, u.binds)
           /\ SameBut(s.table, u.table) /\ SameBinds(s.binds, u.binds)
           /\ Handed(s.request, s.gave, s.binds) => Handed(u.request, u.gave, u.binds)
           /\ Lasting(s.request, u.request)
<1> DEFINE b == s.binds[i]
           new == Append(b.comfds, n)
<1>1. /\ s.table \in Table /\ s.binds \in Seq(BindType) /\ s.request \in [Requester -> RequestState]
      /\ s.gave \in [Requester -> SUBSET Object] /\ s.hot \in Events /\ s.corr \in Int
  BY DEF WorkType
<1>2. b \in BindType /\ b.comfds \in Seq(Number) /\ b.comfd \in Number /\ ListTrue(s.table, b)
  BY <1>1, BindAt DEF Lists
<1>3. b.monitoring /\ b.port = asks[r]
  BY <1>2 DEF ListTrue, Com
<1>4. n \notin ToSet(b.comfds)
  BY <1>2, Kinds DEF ListTrue, Peers
<1>5. new \in Seq(Number) /\ ToSet(new) = ToSet(b.comfds) \cup {n} /\ IsInjective(new)
  BY <1>2, <1>4, Appended DEF ListTrue
<1> HIDE DEF new
<1>6. /\ u = [table |-> u.table, binds |-> u.binds, request |-> u.request, gave |-> u.gave,
              hot |-> u.hot, corr |-> u.corr]
      /\ u.gave = s.gave /\ u.hot = s.hot /\ u.corr = s.corr
      /\ u.table = [s.table EXCEPT ![n] = Conn(r)]
      /\ u.binds = [s.binds EXCEPT ![i] = [b EXCEPT !.comfds = new]]
      /\ u.request = [s.request EXCEPT ![r] = "accepted"]
  <2>1. s = [table |-> s.table, binds |-> s.binds, request |-> s.request, gave |-> s.gave,
             hot |-> s.hot, corr |-> s.corr]
    BY DEF WorkType
  <2>2. u.table = [s.table EXCEPT ![n] = Conn(r)]
    BY <2>1 DEF AcceptOf
  <2>3. u.binds = [s.binds EXCEPT ![i] = [b EXCEPT !.comfds = new]]
    BY <2>1 DEF AcceptOf, new
  <2>4. u.request = [s.request EXCEPT ![r] = "accepted"]
    BY <2>1 DEF AcceptOf
  <2>5. u.gave = s.gave /\ u.hot = s.hot /\ u.corr = s.corr
    BY <2>1 DEF AcceptOf
  <2>6. u = [table |-> u.table, binds |-> u.binds, request |-> u.request, gave |-> u.gave,
             hot |-> u.hot, corr |-> u.corr]
    BY <2>1 DEF AcceptOf
  <2> QED
    BY <2>2, <2>3, <2>4, <2>5, <2>6
<1>7. u.table \in Table
  BY <1>1, <1>6, Kinds DEF Table
<1>8. [b EXCEPT !.comfds = new] \in BindType /\ [b EXCEPT !.comfds = new].comfds = new
  BY <1>2, <1>5 DEF BindType
<1>9. u.binds \in Seq(BindType) /\ DOMAIN u.binds = DOMAIN s.binds
  BY <1>1, <1>6, <1>8
<1>10. u.request \in [Requester -> RequestState]
  BY <1>1, <1>6 DEF RequestState
<1>11. u \in WorkType
  BY <1>1, <1>6, <1>7, <1>9, <1>10 DEF WorkType
<1>12. SameBut(s.table, u.table)
  BY <1>1, <1>6 DEF SameBut, Passing, Table
<1>13. SameBinds(s.binds, u.binds)
  <2> SUFFICES ASSUME NEW j \in DOMAIN s.binds
               PROVE  u.binds[j] = [s.binds[j] EXCEPT !.comfds = u.binds[j].comfds]
    BY <1>9 DEF SameBinds
  <2>1. CASE j = i
    BY <1>1, <1>6, <1>8, <2>1
  <2>2. CASE j # i
    <3> s.binds[j] \in BindType /\ u.binds[j] = s.binds[j]
      BY <1>1, <1>6, <2>2, BindAt
    <3> QED
      BY DEF BindType
  <2> QED
    BY <2>1, <2>2
<1>14. ASSUME NEW j \in DOMAIN s.binds
       PROVE  /\ ToSet(u.binds[j].comfds) = Peers(u.table, s.binds[j].port)
              /\ IsInjective(u.binds[j].comfds)
  <2>1. ListTrue(s.table, s.binds[j]) /\ s.binds[j] \in BindType
    BY <1>1, BindAt DEF Lists
  <2>2. \A m \in Number : u.table[m] = IF m = n THEN Conn(r) ELSE s.table[m]
    BY <1>1, <1>6 DEF Table
  <2>3. CASE j = i
    <3>1. u.binds[j].comfds = new
      BY <1>1, <1>6, <1>8, <2>3
    <3>2. Peers(u.table, b.port) = Peers(s.table, b.port) \cup {n}
      BY <1>3, <2>2 DEF Peers
    <3> QED
      BY <1>2, <1>5, <2>3, <3>1, <3>2 DEF ListTrue
  <2>4. CASE j # i
    <3>1. u.binds[j] = s.binds[j]
      BY <1>1, <1>6, <2>4
    <3>2. s.binds[j].port # asks[r]
      BY <1>3, <2>4 DEF Lists, Distinct
    <3>3. Peers(u.table, s.binds[j].port) = Peers(s.table, s.binds[j].port)
      <4>1. \A q \in Requester : Conn(q) = Conn(r) => q = r
        BY DEF Conn
      <4>2. s.table[n] = None /\ \A q \in Requester : Conn(q) # None
        BY Kinds
      <4> QED
        BY <2>2, <3>2, <4>1, <4>2 DEF Peers
    <3> QED
      BY <2>1, <3>1, <3>3 DEF ListTrue
  <2> QED
    BY <2>3, <2>4
<1>15. Lists(u.table, u.binds)
  BY <1>1, <1>12, <1>13, <1>14, PassingTrue
<1>16. ASSUME Handed(s.request, s.gave, s.binds)
       PROVE  Handed(u.request, u.gave, u.binds)
  <2>1. \A q \in Requester : u.request[q] = IF q = r THEN "accepted" ELSE s.request[q]
    BY <1>1, <1>6
  <2>2. s.gave[r] = {}
    BY <1>16 DEF Handed, Finished
  <2>3. \A j \in DOMAIN s.binds : /\ u.binds[j].monitoring = s.binds[j].monitoring
                                  /\ u.binds[j].port = s.binds[j].port
    <3> TAKE j \in DOMAIN s.binds
    <3>1. s.binds[j] \in BindType /\ u.binds[j] = [s.binds[j] EXCEPT !.comfds = u.binds[j].comfds]
      BY <1>1, <1>13, BindAt DEF SameBinds
    <3> QED
      BY <3>1 DEF BindType
  <2>4. \A j \in DOMAIN s.binds : ~s.binds[j].monitoring => s.binds[j].port # asks[r]
    BY <1>3 DEF Lists, Distinct
  <2> QED
    BY <1>6, <1>9, <1>16, <2>1, <2>2, <2>3, <2>4 DEF Handed
<1>17. Lasting(s.request, u.request)
  BY <1>1, <1>6 DEF Lasting, Finished
<1> QED
  BY <1>11, <1>12, <1>13, <1>15, <1>16, <1>17

LEMMA Unchanged ==
    ASSUME NEW t, NEW bs \in Seq(BindType)
    PROVE  SameBut(t, t) /\ SameBinds(bs, bs)
<1> SUFFICES ASSUME NEW i \in DOMAIN bs
             PROVE  bs[i] = [bs[i] EXCEPT !.comfds = bs[i].comfds]
  BY DEF SameBut, SameBinds
<1> bs[i] \in BindType
  BY BindAt
<1> QED
  BY DEF BindType

(* A request is answered with the two sockets of the port while the port is *)
(* monitored; an end of file closes the connection.                         *)
LEMMA ReceiveTrue ==
    ASSUME asks \in [Requester -> Port],
           NEW s \in WorkType, NEW i \in DOMAIN s.binds, NEW n \in ToSet(s.binds[i].comfds),
           Lists(s.table, s.binds),
           NEW u, u = Receive(s, i, n)
    PROVE  /\ u \in WorkType /\ Lists(u.table, u.binds)
           /\ SameBut(s.table, u.table) /\ SameBinds(s.binds, u.binds)
           /\ Handed(s.request, s.gave, s.binds) => Handed(u.request, u.gave, u.binds)
           /\ Lasting(s.request, u.request)
<1> DEFINE b == s.binds[i]
           r == s.table[n][2]
<1>1. /\ s.table \in Table /\ s.binds \in Seq(BindType) /\ s.request \in [Requester -> RequestState]
      /\ s.gave \in [Requester -> SUBSET Object] /\ s.hot \in Events /\ s.corr \in Int
      /\ s = [table |-> s.table, binds |-> s.binds, request |-> s.request, gave |-> s.gave,
              hot |-> s.hot, corr |-> s.corr]
  BY DEF WorkType
<1>2. /\ b \in BindType /\ b.comfds \in Seq(Number) /\ ListTrue(s.table, b)
      /\ {b.shadowfd, b.comfd} \subseteq Number /\ b.port \in Port
  BY <1>1, BindAt DEF Lists
<1>3. n \in Number /\ r \in Requester /\ s.table[n] = Conn(r) /\ asks[r] = b.port
  <2>1. n \in Peers(s.table, b.port)
    BY <1>2 DEF ListTrue
  <2>2. PICK q \in Requester : s.table[n] = Conn(q) /\ asks[q] = b.port
    BY <2>1 DEF Peers
  <2>3. r = q
    BY <2>2 DEF Conn
  <2> QED
    BY <2>1, <2>2, <2>3 DEF Peers
<1> HIDE DEF r
<1>4. CASE s.request[r] = "sent"
  <2> DEFINE sent == Sent(s, b)
  <2>1. u = [s EXCEPT !.request[r] = "answered", !.gave[r] = @ \cup sent]
    BY <1>4 DEF Receive, r
  <2>2. sent \subseteq Object
    BY <1>1, <1>2 DEF Sent, Table
  <2> HIDE DEF sent
  <2>3. u.request = [s.request EXCEPT ![r] = "answered"]
    BY <1>1, <2>1
  <2>4. u.gave = [s.gave EXCEPT ![r] = @ \cup sent]
    BY <1>1, <2>1
  <2>5. /\ u.table = s.table /\ u.binds = s.binds /\ u.hot = s.hot /\ u.corr = s.corr
        /\ u = [table |-> u.table, binds |-> u.binds, request |-> u.request, gave |-> u.gave,
                hot |-> u.hot, corr |-> u.corr]
    BY <1>1, <2>1
  <2>6. u.request \in [Requester -> RequestState] /\ u.gave \in [Requester -> SUBSET Object]
    <3>1. u.request \in [Requester -> RequestState]
      BY <1>1, <2>3 DEF RequestState
    <3>2. u.gave \in [Requester -> SUBSET Object]
      BY <1>1, <2>2, <2>4
    <3> QED
      BY <3>1, <3>2
  <2>7. u \in WorkType
    BY <1>1, <2>5, <2>6 DEF WorkType
  <2>8. ASSUME Handed(s.request, s.gave, s.binds)
        PROVE  Handed(u.request, u.gave, u.binds)
    <3>1. b.monitoring
      BY <1>2, <1>3, <1>4, <2>8 DEF Handed, Finished
    <3>2. sent \subseteq {Tcp(asks[r]), Com(asks[r])}
      BY <1>2, <1>3, <3>1 DEF Sent, ListTrue, sent
    <3>3. ASSUME NEW q \in Requester
          PROVE  /\ u.request[q] = IF q = r THEN "answered" ELSE s.request[q]
                 /\ u.gave[q] = IF q = r THEN s.gave[r] \cup sent ELSE s.gave[q]
      BY <1>1, <2>3, <2>4
    <3> QED
      BY <2>5, <2>8, <3>2, <3>3 DEF Handed, Finished
  <2>9. Lasting(s.request, u.request)
    BY <1>1, <2>3 DEF Lasting, Finished
  <2> QED
    BY <1>1, <2>5, <2>7, <2>8, <2>9, Unchanged
<1>5. CASE s.request[r] = "closed"
  <2> DEFINE new == RemoveFirst(b.comfds, n)
             hot1 == {IF mode.handler = "epoll" /\ e.fd = n THEN [e EXCEPT !.fd = -1] ELSE e : e \in s.hot}
  <2>1. u = [s EXCEPT !.request[r] = "gone", !.table[n] = None,
                      !.binds[i].comfds = RemoveFirst(@, n), !.hot = hot1]
    BY <1>5 DEF Receive, r
  <2>2. new \in Seq(Number) /\ ToSet(new) = ToSet(b.comfds) \ {n} /\ IsInjective(new)
    BY <1>2, RemovedFirst DEF ListTrue
  <2>3. hot1 \in Events
    <3> DEFINE mark == [e \in s.hot |->
                          IF mode.handler = "epoll" /\ e.fd = n THEN [e EXCEPT !.fd = -1] ELSE e]
    <3>1. ASSUME NEW e \in s.hot
          PROVE  mark[e] \in EventType
      <4> e \in EventType
        BY <1>1 DEF Events
      <4> QED
        BY DEF EventType
    <3>2. hot1 = {mark[e] : e \in s.hot}
      OBVIOUS
    <3>3. IsFiniteSet(hot1)
      <4> DOMAIN mark = s.hot /\ IsFiniteSet(s.hot)
        BY <1>1 DEF Events
      <4> HIDE DEF mark, hot1
      <4> QED
        BY <3>2, ImageFinite
    <3> HIDE DEF mark
    <3> hot1 \subseteq EventType
      BY <3>1, <3>2
    <3> QED
      BY <3>3 DEF Events
  <2> HIDE DEF hot1
  <2>4. u.request = [s.request EXCEPT ![r] = "gone"]
    BY <1>1, <2>1
  <2>5. u.table = [s.table EXCEPT ![n] = None]
    BY <1>1, <2>1
  <2>6. u.binds = [s.binds EXCEPT ![i] = [b EXCEPT !.comfds = new]]
    BY <1>1, <2>1
  <2> HIDE DEF new
  <2>7. /\ u.gave = s.gave /\ u.hot = hot1 /\ u.corr = s.corr
        /\ u = [table |-> u.table, binds |-> u.binds, request |-> u.request, gave |-> u.gave,
                hot |-> u.hot, corr |-> u.corr]
    BY <1>1, <2>1
  <2>8. u.request \in [Requester -> RequestState] /\ u.table \in Table
    BY <1>1, <2>4, <2>5 DEF RequestState, Table
  <2>9. [b EXCEPT !.comfds = new] \in BindType /\ [b EXCEPT !.comfds = new].comfds = new
    BY <1>2, <2>2 DEF BindType
  <2>10. u.binds \in Seq(BindType) /\ DOMAIN u.binds = DOMAIN s.binds
    BY <1>1, <2>6, <2>9
  <2>11. u \in WorkType
    BY <1>1, <2>3, <2>7, <2>8, <2>10 DEF WorkType
  <2>12. SameBut(s.table, u.table)
    BY <1>1, <1>3, <2>5 DEF SameBut, Passing, Table
  <2>13. SameBinds(s.binds, u.binds)
    <3> SUFFICES ASSUME NEW j \in DOMAIN s.binds
                 PROVE  u.binds[j] = [s.binds[j] EXCEPT !.comfds = u.binds[j].comfds]
      BY <2>10 DEF SameBinds
    <3>1. CASE j = i
      BY <1>1, <2>6, <2>9, <3>1
    <3>2. CASE j # i
      <4> s.binds[j] \in BindType /\ u.binds[j] = s.binds[j]
        BY <1>1, <2>6, <3>2, BindAt
      <4> QED
        BY DEF BindType
    <3> QED
      BY <3>1, <3>2
  <2>14. ASSUME NEW j \in DOMAIN s.binds
         PROVE  /\ ToSet(u.binds[j].comfds) = Peers(u.table, s.binds[j].port)
                /\ IsInjective(u.binds[j].comfds)
    <3>1. ListTrue(s.table, s.binds[j]) /\ s.binds[j] \in BindType
      BY <1>1, BindAt DEF Lists
    <3>2. \A m \in Number : u.table[m] = IF m = n THEN None ELSE s.table[m]
      BY <1>1, <2>5 DEF Table
    <3>3. \A q \in Requester : Conn(q) # None
      BY Kinds
    <3>4. Peers(u.table, s.binds[j].port) = Peers(s.table, s.binds[j].port) \ {n}
      BY <3>2, <3>3 DEF Peers
    <3>5. CASE j = i
      <4> u.binds[j].comfds = new
        BY <1>1, <2>6, <2>9, <3>5
      <4> QED
        BY <1>2, <2>2, <3>4, <3>5 DEF ListTrue
    <3>6. CASE j # i
      <4>1. u.binds[j] = s.binds[j]
        BY <1>1, <2>6, <3>6
      <4>2. s.binds[j].port # b.port
        BY <3>6 DEF Lists, Distinct
      <4>3. n \notin Peers(s.table, s.binds[j].port)
        <5> \A q : Conn(q) = Conn(r) => q = r
          BY DEF Conn
        <5> QED
          BY <1>3, <4>2 DEF Peers
      <4> QED
        BY <3>1, <3>4, <4>1, <4>3 DEF ListTrue
    <3> QED
      BY <3>5, <3>6
  <2>15. Lists(u.table, u.binds)
    BY <1>1, <2>12, <2>13, <2>14, PassingTrue
  <2>16. ASSUME Handed(s.request, s.gave, s.binds)
         PROVE  Handed(u.request, u.gave, u.binds)
    <3>1. \A q \in Requester : u.request[q] = IF q = r THEN "gone" ELSE s.request[q]
      BY <1>1, <2>4
    <3>2. ASSUME NEW j \in DOMAIN s.binds
          PROVE  u.binds[j].monitoring = s.binds[j].monitoring /\ u.binds[j].port = s.binds[j].port
      <4> s.binds[j] \in BindType /\ u.binds[j] = [s.binds[j] EXCEPT !.comfds = u.binds[j].comfds]
        BY <1>1, <2>13, BindAt DEF SameBinds
      <4> QED
        BY DEF BindType
    <3> QED
      BY <2>7, <2>10, <2>16, <3>1, <3>2 DEF Handed, Finished
  <2>17. Lasting(s.request, u.request)
    BY <1>1, <2>4 DEF Lasting, Finished
  <2> QED
    BY <2>11, <2>12, <2>13, <2>15, <2>16, <2>17
<1>6. CASE s.request[r] \notin {"sent", "closed"}
  <2> u = s
    BY <1>6 DEF Receive, r
  <2> QED
    BY <1>1, Unchanged DEF Lasting
<1> QED
  BY <1>4, <1>5, <1>6

(* What the handlers make of a state of the tables follows from it.         *)
Follows(s, u) ==
    /\ u \in WorkType /\ Lists(u.table, u.binds)
    /\ SameBut(s.table, u.table) /\ SameBinds(s.binds, u.binds)
    /\ Handed(s.request, s.gave, s.binds) => Handed(u.request, u.gave, u.binds)
    /\ Lasting(s.request, u.request)

LEMMA FollowsOn ==
    ASSUME NEW s \in WorkType, NEW t, NEW u, Follows(s, t), Follows(t, u)
    PROVE  Follows(s, u)
<1>1. SameBut(s.table, u.table)
  BY DEF Follows, SameBut
<1>2. SameBinds(s.binds, u.binds)
  <2>1. DOMAIN u.binds = DOMAIN s.binds /\ DOMAIN t.binds = DOMAIN s.binds
    BY DEF Follows, SameBinds
  <2>2. ASSUME NEW i \in DOMAIN s.binds
        PROVE  u.binds[i] = [s.binds[i] EXCEPT !.comfds = u.binds[i].comfds]
    <3>1. s.binds[i] \in BindType
      BY BindAt DEF WorkType
    <3>2. t.binds[i] = [s.binds[i] EXCEPT !.comfds = t.binds[i].comfds]
      BY DEF Follows, SameBinds
    <3>3. u.binds[i] = [t.binds[i] EXCEPT !.comfds = u.binds[i].comfds]
      BY <2>1 DEF Follows, SameBinds
    <3>4. t.binds[i] \in BindType
      BY <2>1, BindAt DEF Follows, WorkType
    <3> DEFINE x == s.binds[i]
               y == t.binds[i]
               z == u.binds[i]
    <3> HIDE DEF x, y, z
    <3>5. x \in BindType /\ y \in BindType /\ y = [x EXCEPT !.comfds = y.comfds]
          /\ z = [y EXCEPT !.comfds = z.comfds]
      BY <3>1, <3>2, <3>3, <3>4 DEF x, y, z
    <3>6. z = [x EXCEPT !.comfds = z.comfds]
      BY <3>5 DEF BindType
    <3> QED
      BY <3>6 DEF x, z
  <2> QED
    BY <2>1, <2>2 DEF SameBinds
<1> QED
  BY <1>1, <1>2 DEF Follows, Lasting

LEMMA FollowsSelf ==
    ASSUME NEW s \in WorkType, Lists(s.table, s.binds)
    PROVE  Follows(s, s)
<1> s.binds \in Seq(BindType)
  BY DEF WorkType
<1> QED
  BY Unchanged DEF Follows, Lasting

(* Events that are taken away, and the count.                               *)
LEMMA EventsOnly ==
    ASSUME NEW s \in WorkType, NEW u, Follows(s, u),
           NEW h \in Events, NEW c \in Int
    PROVE  Follows(s, [u EXCEPT !.hot = h, !.corr = c])
<1> DEFINE v == [u EXCEPT !.hot = h, !.corr = c]
<1>1. u \in WorkType
  BY DEF Follows
<1>2. /\ v \in WorkType /\ v.table = u.table /\ v.binds = u.binds
      /\ v.request = u.request /\ v.gave = u.gave
  BY <1>1 DEF WorkType
<1> HIDE DEF v
<1>3. Follows(s, v)
  BY <1>2 DEF Follows
<1> QED
  BY <1>3 DEF v

(* An event is that of the listener or of a connection.                     *)
Act(s, i, n) == IF n = s.binds[i].comfd THEN AcceptOn(s, i) ELSE Receive(s, i, n)

LEMMA ActTrue ==
    ASSUME asks \in [Requester -> Port],
           NEW s \in WorkType, NEW i \in DOMAIN s.binds,
           NEW n \in {s.binds[i].comfd} \cup ToSet(s.binds[i].comfds),
           Lists(s.table, s.binds)
    PROVE  Follows(s, Act(s, i, n))
<1>1. CASE n = s.binds[i].comfd /\ AcceptOn(s, i) = s
  BY <1>1, FollowsSelf DEF Act
<1>2. CASE n = s.binds[i].comfd /\ AcceptOn(s, i) # s
  <2>1. PICK r \in Requester, m \in Number :
           /\ s.table[m] = None
           /\ s.table[s.binds[i].comfd] = Com(asks[r])
           /\ s.request[r] = "queued"
           /\ AcceptOn(s, i) = AcceptOf(s, i, r, m)
    BY <1>2, AcceptEffect
  <2>2. Follows(s, AcceptOn(s, i))
    BY <2>1, AcceptTrue DEF Follows
  <2> QED
    BY <1>2, <2>2 DEF Act
<1>3. CASE n # s.binds[i].comfd
  <2>1. n \in ToSet(s.binds[i].comfds)
    BY <1>3
  <2>2. Follows(s, Receive(s, i, n))
    BY <2>1, ReceiveTrue DEF Follows
  <2> QED
    BY <1>3, <2>2 DEF Act
<1> QED
  BY <1>1, <1>2, <1>3

LEMMA EventTrue ==
    ASSUME asks \in [Requester -> Port],
           NEW s \in WorkType, NEW i \in DOMAIN s.binds, NEW n,
           Lists(s.table, s.binds)
    PROVE  Follows(s, HandleEvent(s, i, n))
<1> DEFINE b == s.binds[i]
           u == IF n = b.comfd THEN AcceptOn(s, i) ELSE Receive(s, i, n)
           hot1 == {e \in u.hot : e.fd # n}
<1>1. CASE n \notin {b.comfd} \cup ToSet(b.comfds) \/ n \notin {e.fd : e \in s.hot} \cap Reached
  <2> HandleEvent(s, i, n) = s
    BY <1>1 DEF HandleEvent
  <2> QED
    BY FollowsSelf
<1>2. CASE n \in {b.comfd} \cup ToSet(b.comfds) /\ n \in {e.fd : e \in s.hot} \cap Reached
  <2>1. Follows(s, u)
    BY <1>2, ActTrue DEF Act
  <2>2. CASE mode.handler = "select"
    <3>1. HandleEvent(s, i, n) = [u EXCEPT !.hot = hot1, !.corr = u.corr + 1]
      <4>1. HandleEvent(s, i, n) = Cleared(u, n)
        BY <1>2, <2>2 DEF HandleEvent
      <4> HIDE DEF u
      <4>2. Cleared(u, n) = [u EXCEPT !.hot = hot1, !.corr = u.corr + 1]
        BY <2>1 DEF Cleared, Follows, WorkType
      <4> QED
        BY <4>1, <4>2
    <3>2. hot1 \in Events /\ u.corr + 1 \in Int
      <4> u.hot \in Events /\ u.corr \in Int
        BY <2>1 DEF Follows, WorkType
      <4> hot1 \subseteq u.hot
        OBVIOUS
      <4> HIDE DEF hot1, u
      <4> QED
        BY FS_Subset DEF Events
    <3> DEFINE corr1 == u.corr + 1
    <3>3. corr1 \in Int /\ HandleEvent(s, i, n) = [u EXCEPT !.hot = hot1, !.corr = corr1]
      BY <3>1, <3>2
    <3> HIDE DEF u, hot1, corr1
    <3>4. Follows(s, [u EXCEPT !.hot = hot1, !.corr = corr1])
      BY <2>1, <3>2, <3>3, EventsOnly, Zenon
    <3> QED
      BY <3>3, <3>4
  <2>3. CASE mode.handler # "select"
    <3> HandleEvent(s, i, n) = u
      BY <1>2, <2>3 DEF HandleEvent
    <3> QED
      BY <2>1
  <2> QED
    BY <2>2, <2>3
<1> QED
  BY <1>1, <1>2

(* What becomes of the events that the kernel reported.  Those on other     *)
(* than internal descriptors stay, but select's on the number of a listener *)
(* that the process closed (select.c:59); none is invented, but epoll's on  *)
(* -1 where a connection was closed (epoll.c:147).                          *)
Inner == Passing \cup {Com(p) : p \in Port}
Forgotten(bs) == {bs[i].comfd : i \in {j \in DOMAIN bs : ~bs[j].monitoring}}

Remain(s, u) == \A e \in s.hot :
    \/ e \in u.hot \/ e.fd \notin Number \/ s.table[e.fd] \in Inner
    \/ mode.handler = "select" /\ e.fd \in Forgotten(s.binds)
Stems(s, u) == \A e \in u.hot :
    \/ mode.handler = "epoll" /\ e.fd = -1
    \/ /\ e \in s.hot
       /\ mode.handler = "epoll" /\ u.table[e.fd] = None => s.table[e.fd] = None

Traced(s, u) == Remain(s, u) /\ Stems(s, u)

LEMMA TracedOn ==
    ASSUME NEW s \in WorkType, NEW t, NEW u, Follows(s, t), Follows(t, u),
           Traced(s, t), Traced(t, u)
    PROVE  Traced(s, u)
<1>1. Remain(s, u)
  <2> SUFFICES ASSUME NEW e \in s.hot, e \notin u.hot, e.fd \in Number, s.table[e.fd] \notin Inner
               PROVE  mode.handler = "select" /\ e.fd \in Forgotten(s.binds)
    BY DEF Remain
  <2>1. CASE e \notin t.hot
    BY <2>1 DEF Traced, Remain
  <2>2. CASE e \in t.hot
    <3>1. t.table[e.fd] \notin Inner
      BY DEF Follows, SameBut, Inner
    <3>2. mode.handler = "select" /\ e.fd \in Forgotten(t.binds)
      BY <2>2, <3>1 DEF Traced, Remain
    <3>3. PICK i \in DOMAIN t.binds : e.fd = t.binds[i].comfd /\ ~t.binds[i].monitoring
      BY <3>2 DEF Forgotten
    <3>4. i \in DOMAIN s.binds /\ s.binds[i] \in BindType
          /\ t.binds[i] = [s.binds[i] EXCEPT !.comfds = t.binds[i].comfds]
      BY BindAt DEF Follows, SameBinds, WorkType
    <3>5. s.binds[i].comfd = t.binds[i].comfd /\ s.binds[i].monitoring = t.binds[i].monitoring
      BY <3>4 DEF BindType
    <3> QED
      BY <3>2, <3>3, <3>4, <3>5 DEF Forgotten
  <2> QED
    BY <2>1, <2>2
<1>2. Stems(s, u)
  BY DEF Traced, Stems
<1> QED
  BY <1>1, <1>2 DEF Traced

LEMMA TracedSame ==
    ASSUME NEW s, NEW u, u.hot = s.hot, \A n : u.table[n] = None => s.table[n] = None
    PROVE  Traced(s, u)
BY DEF Traced, Remain, Stems

LEMMA AcceptTraced ==
    ASSUME NEW s \in WorkType, NEW i \in DOMAIN s.binds, NEW u, u = AcceptOn(s, i)
    PROVE  Traced(s, u) /\ u.hot = s.hot
<1>1. CASE u = s
  BY <1>1, TracedSame
<1>2. CASE u # s
  <2>1. PICK r \in Requester, n \in Number : s.table[n] = None /\ u = AcceptOf(s, i, r, n)
    BY <1>2, AcceptEffect
  <2>2. u.hot = s.hot /\ u.table = [s.table EXCEPT ![n] = Conn(r)]
    BY <2>1 DEF AcceptOf, WorkType
  <2>3. Stems(s, u)
    <3> SUFFICES ASSUME NEW e \in s.hot, e.fd # -1, u.table[e.fd] = None
                 PROVE  s.table[e.fd] = None
      BY <2>2 DEF Stems
    <3> s.hot \in Events /\ s.table \in Table
      BY DEF WorkType
    <3> e.fd \in Number
      BY DEF Events, EventType
    <3> QED
      BY <2>1, <2>2 DEF Table
  <2> QED
    BY <2>2, <2>3 DEF Traced, Remain
<1> QED
  BY <1>1, <1>2

LEMMA ReceiveTraced ==
    ASSUME NEW s \in WorkType, NEW i \in DOMAIN s.binds, NEW n \in ToSet(s.binds[i].comfds),
           Lists(s.table, s.binds),
           NEW u, u = Receive(s, i, n)
    PROVE  /\ Traced(s, u) /\ s.table[n] \in Inner
           /\ mode.handler # "epoll" => u.hot = s.hot
<1> DEFINE r == s.table[n][2]
           hot1 == {IF mode.handler = "epoll" /\ e.fd = n THEN [e EXCEPT !.fd = -1] ELSE e : e \in s.hot}
<1>1. /\ s.table \in Table /\ s.binds \in Seq(BindType) /\ s.hot \in Events
      /\ s.binds[i].comfds \in Seq(Number)
  BY BindAt DEF WorkType
<1>2. n \in Number /\ s.table[n] \in Inner
  BY <1>1 DEF Lists, ListTrue, Peers, Inner, Passing
<1> HIDE DEF r
<1>3. CASE s.request[r] = "closed"
  <2>1. u = [s EXCEPT !.request[r] = "gone", !.table[n] = None,
                      !.binds[i].comfds = RemoveFirst(@, n), !.hot = hot1]
    BY <1>3 DEF Receive, r
  <2> HIDE DEF hot1
  <2>2. u.hot = hot1 /\ u.table = [s.table EXCEPT ![n] = None]
    BY <2>1 DEF WorkType
  <2>3. \A e \in s.hot : e \in EventType
    BY <1>1 DEF Events
  <2>4. Remain(s, u)
    <3> SUFFICES ASSUME NEW e \in s.hot, e.fd # n
                 PROVE  e \in hot1
      BY <1>2, <2>2 DEF Remain
    <3> QED
      BY DEF hot1
  <2>5. Stems(s, u)
    <3> SUFFICES ASSUME NEW e \in hot1, ~(mode.handler = "epoll" /\ e.fd = -1)
                 PROVE  /\ e \in s.hot
                        /\ mode.handler = "epoll" /\ u.table[e.fd] = None => s.table[e.fd] = None
      BY <2>2 DEF Stems
    <3>1. PICK x \in s.hot : e = IF mode.handler = "epoll" /\ x.fd = n THEN [x EXCEPT !.fd = -1] ELSE x
      BY DEF hot1
    <3>2. ~(mode.handler = "epoll" /\ x.fd = n)
      BY <2>3, <3>1 DEF EventType
    <3>3. e = x
      BY <3>1, <3>2
    <3>4. ASSUME mode.handler = "epoll", u.table[e.fd] = None
          PROVE  s.table[e.fd] = None
      <4> e.fd \in Number /\ e.fd # n
        BY <2>3, <3>2, <3>3, <3>4 DEF EventType
      <4> QED
        BY <1>1, <2>2, <3>4 DEF Table
    <3> QED
      BY <3>3, <3>4
  <2>6. ASSUME mode.handler # "epoll"
        PROVE  u.hot = s.hot
    BY <2>2, <2>6 DEF hot1
  <2> QED
    BY <1>2, <2>4, <2>5, <2>6 DEF Traced
<1>4. CASE s.request[r] # "closed"
  <2>1. u = s \/ u = [s EXCEPT !.request[r] = "answered", !.gave[r] = @ \cup Sent(s, s.binds[i])]
    BY <1>4 DEF Receive, r
  <2>2. u.hot = s.hot /\ u.table = s.table
    BY <2>1 DEF WorkType
  <2> QED
    BY <1>2, <2>2, TracedSame
<1> QED
  BY <1>3, <1>4

LEMMA EventTraced ==
    ASSUME asks \in [Requester -> Port],
           NEW s \in WorkType, NEW i \in DOMAIN s.binds, NEW n,
           Lists(s.table, s.binds)
    PROVE  Traced(s, HandleEvent(s, i, n))
<1> DEFINE b == s.binds[i]
           u == IF n = b.comfd THEN AcceptOn(s, i) ELSE Receive(s, i, n)
           hot1 == {e \in u.hot : e.fd # n}
<1>1. CASE n \notin {b.comfd} \cup ToSet(b.comfds) \/ n \notin {e.fd : e \in s.hot} \cap Reached
  <2> HandleEvent(s, i, n) = s
    BY <1>1 DEF HandleEvent
  <2> QED
    BY TracedSame
<1>2. CASE n \in {b.comfd} \cup ToSet(b.comfds) /\ n \in {e.fd : e \in s.hot} \cap Reached
  <2>1. /\ Traced(s, u)
        /\ mode.handler # "epoll" => u.hot = s.hot
        /\ n # b.comfd => s.table[n] \in Inner
    <3>1. CASE n = b.comfd
      BY <3>1, AcceptTraced
    <3>2. CASE n # b.comfd
      BY <1>2, <3>2, ReceiveTraced
    <3> QED
      BY <3>1, <3>2
  <2>2. CASE mode.handler = "select"
    <3> DEFINE v == HandleEvent(s, i, n)
    <3>1. v = Cleared(u, n)
      BY <1>2, <2>2 DEF HandleEvent
    <3>2. u \in WorkType
      BY <1>2, ActTrue DEF Act, Follows
    <3>3. v.hot = hot1
      BY <3>1, <3>2 DEF Cleared, WorkType
    <3> HIDE DEF v, u
    <3>4. Stems(s, v)
      BY <2>1, <2>2, <3>3 DEF Stems
    <3>5. s.table[n] \in Inner \/ n \in Forgotten(s.binds)
      <4> SUFFICES ASSUME n = b.comfd, b.monitoring
                   PROVE  s.table[n] \in Inner
        BY <2>1 DEF Forgotten
      <4> s.binds[i].port \in Port /\ s.table[s.binds[i].comfd] = Com(s.binds[i].port)
        BY BindAt DEF WorkType, Lists, ListTrue
      <4> QED
        BY DEF Inner
    <3>6. Remain(s, v)
      BY <2>1, <2>2, <3>3, <3>5 DEF Remain
    <3> QED
      BY <3>4, <3>6 DEF Traced, v
  <2>3. CASE mode.handler # "select"
    <3> HandleEvent(s, i, n) = u
      BY <1>2, <2>3 DEF HandleEvent
    <3> QED
      BY <2>1
  <2> QED
    BY <2>2, <2>3
<1> QED
  BY <1>1, <1>2

(* Both.                                                                    *)
Tracks(s, u) == Follows(s, u) /\ Traced(s, u)

LEMMA TracksOn ==
    ASSUME NEW s \in WorkType, NEW t, NEW u, Tracks(s, t), Tracks(t, u)
    PROVE  Tracks(s, u)
BY FollowsOn, TracedOn DEF Tracks

LEMMA TracksSelf ==
    ASSUME NEW s \in WorkType, Lists(s.table, s.binds)
    PROVE  Tracks(s, s)
BY FollowsSelf, TracedSame DEF Tracks

(* The loops over the connections of a port and over the ports.             *)
LEMMA FiniteEvents ==
    ASSUME NEW h \in Events, NEW X
    PROVE  Cardinality({e.fd : e \in h} \cap X) \in Nat
<1>1. IsFiniteSet(Number)
  BY FS_Interval, MaxFdAssumption DEF Number
<1>2. IsFiniteSet(Number \cup {-1})
  BY <1>1, FS_AddElement
<1>3. {e.fd : e \in h} \cap X \subseteq Number \cup {-1}
  BY DEF EventType, Events
<1>4. IsFiniteSet({e.fd : e \in h} \cap X)
  BY <1>2, <1>3, FS_Subset
<1> QED
  BY <1>4, FS_CardinalityType

Turn(b) == b.comfds \o <<b.comfd>> \o b.comfds
DueAt(ahead, b, k) ==
    k = Len(b.comfds) + 1 \/ (k <= Len(b.comfds)) = (Turn(b)[k] \in ahead)
Begun(s) == IF mode.handler = "poll"
            THEN [s EXCEPT !.corr = @ + Cardinality({e.fd : e \in s.hot} \cap Reached)]
            ELSE s

PortSteps(ahead, s, i, f) ==
    LET b == s.binds[i]
        N == 2 * Len(b.comfds) + 1
    IN /\ HandlePort(ahead, s, i) = f[N] /\ f[0] = Begun(s)
       /\ \A k \in 1..N : f[k] = IF DueAt(ahead, b, k) THEN HandleEvent(f[k - 1], i, Turn(b)[k])
                                  ELSE f[k - 1]
       /\ \A k \in 0..N : f[k] \in WorkType /\ Tracks(s, f[k])

LEMMA PortLoop ==
    ASSUME asks \in [Requester -> Port],
           NEW s \in WorkType, NEW i \in DOMAIN s.binds, NEW ahead,
           Lists(s.table, s.binds)
    PROVE  \E f : PortSteps(ahead, s, i, f)
<1> DEFINE conns == s.binds[i].comfds
           L == Len(conns)
           turn == conns \o <<s.binds[i].comfd>> \o conns
           Due(k) == k = L + 1 \/ (k <= L) = (turn[k] \in ahead)
           start == IF mode.handler = "poll"
                    THEN [s EXCEPT !.corr = @ + Cardinality({e.fd : e \in s.hot} \cap Reached)]
                    ELSE s
           Loops(f) == f = [k \in 0..(2 * L + 1) |->
                          IF k = 0 THEN start
                          ELSE IF Due(k) THEN HandleEvent(f[k - 1], i, turn[k]) ELSE f[k - 1]]
           after == CHOOSE f : Loops(f)
           N == 2 * L + 1
           S == {u \in WorkType : Tracks(s, u)}
           g == [x \in (1..N) \X S |->
                    IF Due(x[1]) THEN HandleEvent(x[2], i, turn[x[1]]) ELSE x[2]]
<1>1. N \in Nat
  <2> conns \in Seq(Number)
    BY BindAt DEF WorkType
  <2> HIDE DEF conns
  <2> QED
    OBVIOUS
<1>2. HandlePort(ahead, s, i) = after[N]
  BY DEF HandlePort
<1> HIDE DEF turn, conns, N
<1>3. start \in S
  <2>1. CASE mode.handler = "poll"
    <3> DEFINE c == s.corr + Cardinality({e.fd : e \in s.hot} \cap Reached)
    <3>1. s.hot \in Events /\ s.corr \in Int
      BY DEF WorkType
    <3> Cardinality({e.fd : e \in s.hot} \cap Reached) \in Nat
      BY <3>1, FiniteEvents
    <3> HIDE DEF Reached
    <3>0. c \in Int
      BY <3>1
    <3>2. start = [s EXCEPT !.hot = s.hot, !.corr = c]
      BY <2>1 DEF WorkType
    <3> HIDE DEF c
    <3>3. Follows(s, [s EXCEPT !.hot = s.hot, !.corr = c])
      BY <3>0, <3>1, FollowsSelf, EventsOnly
    <3>4. start.hot = s.hot /\ start.table = s.table
      BY <3>2 DEF WorkType
    <3> HIDE DEF start
    <3>5. Traced(s, start)
      BY <3>4, TracedSame
    <3> QED
      BY <3>2, <3>3, <3>5 DEF Follows, Tracks
  <2>2. CASE mode.handler # "poll"
    BY <2>2, TracksSelf
  <2> QED
    BY <2>1, <2>2
<1> HIDE DEF start
<1>4. ASSUME NEW u \in S, NEW n
      PROVE  HandleEvent(u, i, n) \in S
  <2>1. u \in WorkType /\ Lists(u.table, u.binds) /\ i \in DOMAIN u.binds
    BY DEF Tracks, Follows, SameBinds
  <2>2. Tracks(u, HandleEvent(u, i, n))
    BY <2>1, EventTrue, EventTraced DEF Tracks
  <2>3. Tracks(s, HandleEvent(u, i, n))
    BY <2>2, TracksOn
  <2> QED
    BY <2>3 DEF Tracks, Follows
<1> HIDE DEF S
<1>5. g \in [(1..N) \X S -> S]
  BY <1>4
<1>6. PICK f \in [0..N -> S] : Repeats(f, N, start, g)
  <2> HIDE DEF g
  <2> QED
    BY <1>1, <1>3, <1>5, Repetition, Zenon
<1> HIDE DEF Due
<1>7. \A k \in 0..N : f[k] = IF k = 0 THEN start
                             ELSE IF Due(k) THEN HandleEvent(f[k - 1], i, turn[k]) ELSE f[k - 1]
  <2> TAKE k \in 0..N
  <2>1. CASE k = 0
    BY <1>1, <1>6, <2>1 DEF Repeats
  <2>2. CASE k # 0
    <3>1. k \in 1..N /\ k - 1 \in 0..N
      BY <1>1, <2>2
    <3>2. f[k] = g[<<k, f[k - 1]>>]
      BY <1>6, <2>2, <3>1 DEF Repeats
    <3>3. f[k - 1] \in S
      BY <1>6, <3>1
    <3> QED
      BY <2>2, <3>1, <3>2, <3>3
  <2> QED
    BY <2>1, <2>2
<1>8. Loops(f)
  <2> f = [k \in 0..N |-> f[k]]
    BY <1>6
  <2> QED
    BY <1>7, Zenon DEF N
<1>9. Loops(after)
  BY <1>8, Zenon
<1> HIDE DEF after
<1>10. after[0] \in S
  BY <1>1, <1>3, <1>9 DEF N
<1>11. ASSUME NEW k \in 1..N, after[k - 1] \in S
       PROVE  after[k] \in S
  <2> k \in 0..(2 * L + 1) /\ k # 0
    BY <1>1 DEF N
  <2> after[k] = IF Due(k) THEN HandleEvent(after[k - 1], i, turn[k]) ELSE after[k - 1]
    BY <1>1, <1>9 DEF N
  <2> QED
    BY <1>4, <1>11
<1>12. \A k \in 0..N : after[k] \in S
  <2> HIDE DEF Loops
  <2> QED
    BY <1>1, <1>10, <1>11, Persists
<1>13. after[0] = Begun(s)
  BY <1>1, <1>9 DEF N, start, Begun
<1>14. \A k \in 1..N : after[k] = IF DueAt(ahead, s.binds[i], k)
                                 THEN HandleEvent(after[k - 1], i, Turn(s.binds[i])[k])
                                 ELSE after[k - 1]
  <2> SUFFICES ASSUME NEW k \in 1..N
               PROVE  after[k] = IF DueAt(ahead, s.binds[i], k)
                                 THEN HandleEvent(after[k - 1], i, Turn(s.binds[i])[k])
                                 ELSE after[k - 1]
    OBVIOUS
  <2>1. turn = Turn(s.binds[i]) /\ (Due(k) <=> DueAt(ahead, s.binds[i], k))
    BY DEF turn, conns, Turn, Due, DueAt
  <2>2. k \in 0..(2 * L + 1) /\ k # 0
    BY <1>1 DEF N
  <2>3. after[k] = IF Due(k) THEN HandleEvent(after[k - 1], i, turn[k]) ELSE after[k - 1]
    BY <1>9, <2>2
  <2> QED
    BY <2>1, <2>3
<1>15. \A k \in 0..N : after[k] \in WorkType /\ Tracks(s, after[k])
  BY <1>12 DEF S
<1>16. N = 2 * Len(s.binds[i].comfds) + 1
  BY DEF N, conns
<1>17. PortSteps(ahead, s, i, after)
  <2> HIDE DEF Loops
  <2> QED
    BY <1>2, <1>13, <1>14, <1>15, <1>16 DEF PortSteps
<1> QED
  BY <1>17

LEMMA PortTrue ==
    ASSUME asks \in [Requester -> Port],
           NEW s \in WorkType, NEW i \in DOMAIN s.binds, NEW ahead,
           Lists(s.table, s.binds)
    PROVE  Tracks(s, HandlePort(ahead, s, i))
<1>1. PICK f : PortSteps(ahead, s, i, f)
  BY PortLoop
<1>2. Len(s.binds[i].comfds) \in Nat
  BY BindAt DEF WorkType
<1>3. 2 * Len(s.binds[i].comfds) + 1 \in 0..(2 * Len(s.binds[i].comfds) + 1)
  BY <1>2
<1> QED
  BY <1>1, <1>3 DEF PortSteps

Before(hot) == [table |-> table, binds |-> binds, request |-> request, gave |-> gave,
                hot |-> hot, corr |-> 0]

HandledSteps(hot, ahead, f) ==
    /\ Handled(hot, ahead) = f[Len(binds)] /\ f[0] = Before(hot)
    /\ \A i \in 1..Len(binds) : f[i] = HandlePort(ahead, f[i - 1], i)
    /\ \A i \in 0..Len(binds) : f[i] \in WorkType /\ Tracks(Before(hot), f[i])

LEMMA HandledLoop ==
    ASSUME TypeOK, Lists(table, binds), NEW hot \in Events, NEW ahead
    PROVE  Before(hot) \in WorkType /\ \E f : HandledSteps(hot, ahead, f)
<1> DEFINE N == Len(binds)
           s == Before(hot)
           Loops(f) == f = [i \in 0..N |->
                              IF i = 0 THEN s ELSE HandlePort(ahead, f[i - 1], i)]
           after == CHOOSE f : Loops(f)
           S == {u \in WorkType : Tracks(s, u)}
           g == [x \in (1..N) \X S |-> HandlePort(ahead, x[2], x[1])]
<1>1. /\ N \in Nat /\ DOMAIN binds = 1..N /\ asks \in [Requester -> Port]
      /\ binds \in Seq(BindType) /\ table \in Table
  BY AsksAssumption DEF TypeOK, Table
<1>2. s \in WorkType /\ s.table = table /\ s.binds = binds
  BY <1>1 DEF TypeOK, WorkType, Before, RequestState
<1>3. Handled(hot, ahead) = after[N]
  BY DEF Handled, Before
<1> HIDE DEF N, s
<1>4. s \in S
  BY <1>2, TracksSelf
<1>5. ASSUME NEW u \in S, NEW i \in 1..N
      PROVE  HandlePort(ahead, u, i) \in S
  <2>1. u \in WorkType /\ Lists(u.table, u.binds) /\ i \in DOMAIN u.binds
    BY <1>1, <1>2 DEF Tracks, Follows, SameBinds
  <2>2. Tracks(u, HandlePort(ahead, u, i))
    BY <1>1, <2>1, PortTrue
  <2>3. Tracks(s, HandlePort(ahead, u, i))
    BY <1>2, <2>2, TracksOn
  <2> QED
    BY <2>3 DEF Tracks, Follows
<1> HIDE DEF S
<1>6. g \in [(1..N) \X S -> S]
  BY <1>5
<1>7. PICK f \in [0..N -> S] : Repeats(f, N, s, g)
  <2> HIDE DEF g
  <2> QED
    BY <1>1, <1>4, <1>6, Repetition, Zenon
<1>8. \A i \in 0..N : f[i] = IF i = 0 THEN s ELSE HandlePort(ahead, f[i - 1], i)
  <2> TAKE i \in 0..N
  <2>1. CASE i = 0
    BY <1>1, <1>7, <2>1 DEF Repeats
  <2>2. CASE i # 0
    <3>1. i \in 1..N /\ i - 1 \in 0..N
      BY <1>1, <2>2
    <3>2. f[i] = g[<<i, f[i - 1]>>]
      BY <1>7, <2>2, <3>1 DEF Repeats
    <3>3. f[i - 1] \in S
      BY <1>7, <3>1
    <3> QED
      BY <2>2, <3>1, <3>2, <3>3
  <2> QED
    BY <2>1, <2>2
<1>9. Loops(after)
  <2> f = [i \in 0..N |-> f[i]]
    BY <1>7
  <2> Loops(f)
    BY <1>8, Zenon
  <2> QED
    BY Zenon
<1> HIDE DEF after
<1>10. after[0] \in S
  BY <1>1, <1>4, <1>9
<1>11. ASSUME NEW i \in 1..N, after[i - 1] \in S
       PROVE  after[i] \in S
  <2> after[i] = HandlePort(ahead, after[i - 1], i)
    BY <1>1, <1>9
  <2> QED
    BY <1>5, <1>11
<1>12. \A i \in 0..N : after[i] \in S
  <2> HIDE DEF Loops
  <2> QED
    BY <1>1, <1>10, <1>11, Persists
<1>13. after[0] = s /\ \A i \in 1..N : after[i] = HandlePort(ahead, after[i - 1], i)
  BY <1>1, <1>9
<1>14. HandledSteps(hot, ahead, after)
  <2> HIDE DEF Loops
  <2> QED
    BY <1>3, <1>12, <1>13 DEF HandledSteps, S, N, s
<1> QED
  BY <1>2, <1>14 DEF s

LEMMA HandledTrue ==
    ASSUME TypeOK, Lists(table, binds), NEW hot \in Events, NEW ahead
    PROVE  Before(hot) \in WorkType /\ Tracks(Before(hot), Handled(hot, ahead))
<1>1. PICK f : HandledSteps(hot, ahead, f)
  BY HandledLoop
<1>2. Len(binds) \in 0..Len(binds)
  BY DEF TypeOK
<1> QED
  BY <1>1, <1>2, HandledLoop DEF HandledSteps

-----------------------------------------------------------------------------
(* The invariant.                                                           *)

ReportType == [fds : SUBSET (Number \cup {-1}), count : Int, ready : SUBSET Number]

(* Before the first event call there is nobody to serve.                    *)
Starting ==
    /\ pc = "user" /\ report = NoReport
    /\ \A n \in Number : /\ \A c \in Client : table[n] # Session(c)
                         /\ \A r \in Requester : table[n] # Conn(r)
    /\ \A i \in DOMAIN binds : binds[i].monitoring

SocketsTrue == \A f \in sockets : table[f] = Unbound /\ f \notin BoundFds

PortsInv ==
    /\ TypeOK /\ report \in ReportType /\ IsFiniteSet(interest)
    /\ ~live => Starting
    /\ pc # "gone" => Lists(table, binds) /\ SocketsTrue

LEMMA ListsMeant ==
    ASSUME PortsInv
    PROVE  ListsTrue
<1> SUFFICES ASSUME pc # "gone", NEW i \in DOMAIN binds
             PROVE  /\ table[binds[i].shadowfd] = Tcp(binds[i].port)
                    /\ binds[i].monitoring => table[binds[i].comfd] = Com(binds[i].port)
                    /\ binds[i].fds = Sessions(table, binds[i].port)
                    /\ ToSet(binds[i].comfds) = Peers(table, binds[i].port)
  BY DEF ListsTrue, Sessions, Peers
<1> QED
  BY DEF PortsInv, Lists, ListTrue

LEMMA InitialPorts == Init => PortsInv
<1> SUFFICES ASSUME Init
             PROVE  PortsInv
  OBVIOUS
<1>1. /\ table \in [Number -> Object \cup {None}] /\ binds \in Seq(BindType) /\ DOMAIN binds = {}
      /\ \A n \in Number : table[n] = None
  BY DEF Init
<1>2. report \in ReportType /\ IsFiniteSet(interest)
  BY FS_EmptySet DEF Init, NoReport, ReportType
<1>3. TypeOK
  <2>1. /\ status \in [Port -> 0..2]
        /\ request \in [Requester -> {"away", "queued", "accepted", "sent",
                                     "answered", "closed", "gone"}]
        /\ gave \in [Requester -> SUBSET Object]
        /\ client \in [Client -> {"away", "queued", "open", "over", "gone"}]
    BY DEF Init
  <2>2. /\ report.fds \subseteq Number \cup {-1} /\ report.count \in Int
        /\ report.ready \subseteq Number
    BY <1>2 DEF ReportType
  <2> QED
    BY <1>1, <2>1, <2>2 DEF Init, TypeOK
<1>4. Starting
  <2> \A r \in Requester : Conn(r) # None
    BY Kinds
  <2> \A c \in Client : Session(c) # None
    BY PassingApart DEF Passing
  <2> QED
    BY <1>1 DEF Init, Starting
<1>5. Lists(table, binds) /\ SocketsTrue
  BY <1>1 DEF Init, Lists, Distinct, SocketsTrue
<1> QED
  BY <1>2, <1>3, <1>4, <1>5 DEF PortsInv

-----------------------------------------------------------------------------
(* The steps.                                                               *)

LEMMA ListsNext ==
    ASSUME UNCHANGED environment, Lists(table', binds')
    PROVE  Lists(table, binds)'
<1>1. asks' = asks /\ door' = door
  BY DEF environment
<1>2. \A p : Sessions(table, p)' = Sessions(table', p)
  BY <1>1 DEF Sessions
<1>3. \A p : Peers(table, p)' = Peers(table', p)
  BY <1>1 DEF Peers
<1> QED
  BY <1>2, <1>3 DEF Lists, ListTrue, Distinct

(* A step that opens, closes and lists nothing.                             *)
LEMMA NothingOpened ==
    ASSUME PortsInv, TypeOK', UNCHANGED <<environment, live, table, sockets, binds>>,
           report' \in ReportType, IsFiniteSet(interest'), pc' # "gone" => pc # "gone",
           ~live => pc' = pc /\ report' = report
    PROVE  PortsInv'
<1>1. pc' # "gone" => Lists(table, binds)'
  BY ListsNext DEF PortsInv
<1>2. pc' # "gone" => SocketsTrue'
  BY DEF PortsInv, SocketsTrue, BoundFds
<1>3. ~live' => Starting'
  BY DEF PortsInv, Starting
<1> QED
  BY <1>1, <1>2, <1>3 DEF PortsInv

LEMMA OthersPreserve ==
    ASSUME PortsInv,
           \/ Clients \/ Requesters \/ \E p \in Port : Supersede(p)
           \/ UNCHANGED vars
    PROVE  PortsInv'
<1> USE DEF others, environment, process
<1>1. TypeOK /\ report \in ReportType /\ IsFiniteSet(interest)
  BY DEF PortsInv
<1>2. /\ UNCHANGED <<environment, process, table, binds>>
      /\ status' \in [Port -> 0..2]
      /\ request' \in [Requester -> RequestState]
      /\ gave' = gave
      /\ client' \in [Client -> {"away", "queued", "open", "over", "gone"}]
  <2> USE <1>1 DEF TypeOK, RequestState
  <2>1. ASSUME NEW c \in Client, Connect(c) \/ Leave(c) \/ Elsewhere(c)
        PROVE  <1>2!:
    BY <2>1 DEF Connect, Leave, Elsewhere
  <2>2. ASSUME NEW r \in Requester, Request(r) \/ Send(r) \/ Hangup(r)
        PROVE  <1>2!:
    BY <2>2 DEF Request, Send, Hangup
  <2>3. ASSUME NEW p \in Port, Supersede(p)
        PROVE  <1>2!:
    <3> Version(p) \in {0, 1}
      BY DEF Version
    <3> QED
      BY <2>3 DEF Supersede
  <2>4. CASE UNCHANGED vars
    BY <2>4 DEF vars
  <2> QED
    BY <2>1, <2>2, <2>3, <2>4 DEF Clients, Requesters
<1>3. TypeOK'
  BY <1>1, <1>2 DEF TypeOK, RequestState
<1> QED
  BY <1>1, <1>2, <1>3, NothingOpened

(* The descriptors that the event functions watch.                          *)
LEMMA InternalsOpen ==
    ASSUME TypeOK, Lists(table, binds)
    PROVE  /\ Internals(binds) \in Seq(Number)
           /\ \A n \in ToSet(Internals(binds)) : table[n] \in Object /\ table[n] \in Inner
<1> DEFINE Open == {n \in Number : table[n] \in Object /\ table[n] \in Inner}
           one == [i \in DOMAIN binds |->
                     (IF binds[i].monitoring THEN <<binds[i].comfd>> ELSE <<>>) \o binds[i].comfds]
<1>1. binds \in Seq(BindType) /\ table \in Table
  BY DEF TypeOK, Table
<1>2. ASSUME NEW i \in DOMAIN binds
      PROVE  one[i] \in Seq(Open)
  <2>1. ListTrue(table, binds[i]) /\ binds[i].comfds \in Seq(Number) /\ binds[i].comfd \in Number
    BY <1>1, BindAt DEF Lists
  <2>2. binds[i].comfds \in Seq(Open)
    <3>1. ToSet(binds[i].comfds) \subseteq Open
      BY <2>1, Kinds DEF ListTrue, Peers, Inner, Passing
    <3>2. \A k \in 1..Len(binds[i].comfds) : binds[i].comfds[k] \in Open
      BY <2>1, <3>1 DEF ToSet
    <3> HIDE DEF Open
    <3> QED
      BY <2>1, <3>2
  <2>3. binds[i].monitoring => binds[i].comfd \in Open
    BY <1>1, <2>1, BindAt DEF ListTrue, Object, Inner
  <2> HIDE DEF Open
  <2>4. (IF binds[i].monitoring THEN <<binds[i].comfd>> ELSE <<>>) \in Seq(Open)
    BY <2>3
  <2>5. one[i] = (IF binds[i].monitoring THEN <<binds[i].comfd>> ELSE <<>>) \o binds[i].comfds
    OBVIOUS
  <2> HIDE DEF one
  <2> QED
    BY <2>2, <2>4, <2>5, ConcatProperties
<1>3. one \in Seq(Seq(Open))
  <2>1. DOMAIN one = 1..Len(binds) /\ Len(binds) \in Nat
    BY <1>1
  <2>2. one \in [1..Len(binds) -> Seq(Open)]
    BY <1>2, <2>1
  <2> HIDE DEF one, Open
  <2> QED
    BY <2>1, <2>2
<1>4. Internals(binds) = FlattenSeq(one)
  BY DEF Internals
<1>5. Internals(binds) \in Seq(Open)
  <2> HIDE DEF one, Open
  <2> QED
    BY <1>3, <1>4, Flattened
<1>6. ToSet(Internals(binds)) \subseteq Open
  <2> HIDE DEF Open
  <2> QED
    BY <1>5 DEF ToSet
<1>7. Internals(binds) \in Seq(Number)
  <2> \A k \in 1..Len(Internals(binds)) : Internals(binds)[k] \in Number
    BY <1>5
  <2> HIDE DEF Open
  <2> QED
    BY <1>5
<1> QED
  BY <1>6, <1>7

LEMMA WatchedOpen ==
    ASSUME PortsInv, pc # "gone"
    PROVE  /\ Internal \in Events /\ Watched \in Events
           /\ Internal \subseteq [fd : Number, of : Object]
<1> DEFINE Entries(X) == {Entry(n) : n \in X}
           FdOf == [fd : Number, of : Object]
           Ints == ToSet(Internals(binds))
<1>1. /\ TypeOK /\ Lists(table, binds) /\ IsFiniteSet(interest)
      /\ table \in Table /\ binds \in Seq(BindType) /\ interest \subseteq FdOf
  BY DEF PortsInv, TypeOK, Table
<1>2. IsFiniteSet(Number)
  BY FS_Interval, MaxFdAssumption DEF Number
<1>3. ASSUME NEW X \in SUBSET Number, \A n \in X : table[n] \in Object
      PROVE  Entries(X) \subseteq FdOf /\ IsFiniteSet(Entries(X))
  <2>1. Entries(X) \subseteq FdOf
    BY <1>3 DEF Entry
  <2>2. IsFiniteSet(X)
    BY <1>2, FS_Subset
  <2> DEFINE f == [n \in X |-> Entry(n)]
  <2>3. Entries(X) = {f[n] : n \in X}
    OBVIOUS
  <2>4. DOMAIN f = X
    OBVIOUS
  <2> HIDE DEF f, Entries
  <2>5. IsFiniteSet({f[n] : n \in X})
    BY <2>2, <2>4, ImageFinite
  <2> QED
    BY <2>1, <2>3, <2>5
<1>4. Ints \in SUBSET Number /\ \A n \in Ints : table[n] \in Object
  <2>1. Internals(binds) \in Seq(Number) /\ \A n \in Ints : table[n] \in Object
    BY <1>1, InternalsOpen
  <2> QED
    BY <2>1 DEF ToSet
<1>5. Kept \subseteq FdOf /\ IsFiniteSet(Kept)
  BY <1>1, FS_Subset DEF Kept
<1>6. Entries(Ints) \subseteq FdOf /\ IsFiniteSet(Entries(Ints))
  BY <1>3, <1>4
<1>7. Internal \subseteq FdOf /\ IsFiniteSet(Internal)
  <2>1. Internal = Entries(Ints) \cup Kept \/ Internal = Entries(Ints)
    BY DEF Internal
  <2>2. IsFiniteSet(Entries(Ints) \cup Kept)
    BY <1>5, <1>6, FS_Union
  <2> HIDE DEF Entries, Ints, FdOf
  <2> QED
    BY <1>5, <1>6, <2>1, <2>2
<1>8. Shadows \cup Own \in SUBSET Number /\ \A n \in Shadows \cup Own : table[n] \in Object
  <2>1. \A i \in DOMAIN binds : binds[i].shadowfd \in Number /\ table[binds[i].shadowfd] \in Object
    <3> TAKE i \in DOMAIN binds
    <3> binds[i].shadowfd \in Number /\ binds[i].port \in Port /\ ListTrue(table, binds[i])
      BY <1>1, BindAt DEF Lists
    <3> QED
      BY DEF ListTrue, Object
  <2>2. Shadows \subseteq {binds[i].shadowfd : i \in DOMAIN binds}
    BY DEF Shadows, Monitoring
  <2>3. \A n \in Own : n \in Number /\ table[n] \in Object
    BY DEF Own, Object
  <2> QED
    BY <2>1, <2>2, <2>3
<1>9. Entries(Shadows \cup Own) \subseteq FdOf /\ IsFiniteSet(Entries(Shadows \cup Own))
  BY <1>3, <1>8
<1>10. Watched \subseteq FdOf /\ IsFiniteSet(Watched)
  <2>1. Watched = Entries(Shadows \cup Own) \cup Internal
    BY DEF Watched
  <2>2. IsFiniteSet(Entries(Shadows \cup Own) \cup Internal)
    BY <1>7, <1>9, FS_Union
  <2> HIDE DEF Entries, FdOf
  <2> QED
    BY <1>7, <1>9, <2>1, <2>2
<1>11. FdOf \subseteq EventType
  BY DEF EventType
<1> QED
  BY <1>7, <1>10, <1>11 DEF Events

LEMMA DetectPreserves ==
    ASSUME PortsInv, Detect
    PROVE  PortsInv'
<1>1. live
  BY DEF PortsInv, Starting, Detect
<1>2. TypeOK'
  BY DEF PortsInv, TypeOK, Detect, environment
<1> QED
  BY <1>1, <1>2, NothingOpened DEF Detect, PortsInv

LEMMA TimeoutPreserves ==
    ASSUME PortsInv, Timeout
    PROVE  PortsInv'
<1>1. live /\ pc # "gone"
  BY DEF PortsInv, Starting, Timeout
<1>2. report' \in ReportType
  BY DEF Timeout, NoReport, ReportType
<1>3. interest' \subseteq [fd : Number, of : Object] /\ IsFiniteSet(interest')
  BY <1>1, WatchedOpen, FS_EmptySet DEF Timeout, Events
<1>4. TypeOK'
  <2> /\ report'.fds \subseteq Number \cup {-1} /\ report'.count \in Int
      /\ report'.ready \subseteq Number
    BY <1>2 DEF ReportType
  <2> QED
    BY <1>3 DEF PortsInv, TypeOK, Timeout, environment
<1> QED
  BY <1>1, <1>2, <1>3, <1>4, NothingOpened DEF Timeout

LEMMA TerminatePreserves ==
    ASSUME PortsInv, Terminate
    PROVE  PortsInv'
<1>1. live
  BY DEF PortsInv, Starting, Terminate
<1>2. TypeOK'
  <2>1. /\ request' \in [Requester -> {"away", "queued", "accepted", "sent",
                                     "answered", "closed", "gone"}]
        /\ client' \in [Client -> {"away", "queued", "open", "over", "gone"}]
        /\ table' \in [Number -> Object \cup {None}]
    BY DEF PortsInv, TypeOK, Terminate
  <2> QED
    BY <2>1 DEF PortsInv, TypeOK, Terminate, environment
<1> QED
  BY <1>1, <1>2 DEF PortsInv, Terminate

(* What the kernel reports leads to descriptors, or to the -1 that marks    *)
(* an event whose connection is closed.                                     *)
LEMMA OriginalNumber ==
    ASSUME NEW bs \in Seq(BindType), NEW n \in Number \cup {-1}
    PROVE  Original(bs, n) \in Number \cup {-1}
<1> DEFINE I == {i \in 1..Len(bs) : bs[i].shadowfd = n}
           j == SelectInSeq(bs, LAMBDA x : x.shadowfd = n)
<1>1. j = IF I # {} THEN Min(I) ELSE 0
  BY DEF SelectInSeq
<1>2. j = 0 \/ j \in 1..Len(bs)
  <2> I \in SUBSET Nat /\ I \subseteq 1..Len(bs)
    OBVIOUS
  <2> HIDE DEF I
  <2> QED
    BY <1>1, LeastIsMin
<1>3. Original(bs, n) = IF j = 0 THEN n ELSE bs[j].fd
  BY DEF Original
<1> HIDE DEF j
<1> QED
  BY <1>2, <1>3, BindAt

(* The part of Wake that is about the handlers' result s of the events hot. *)
Aheads == IF mode.handler = "epoll" THEN SUBSET Conns(binds) ELSE {{}}
Woken(hot, s) ==
    LET fds   == {Original(s.binds, e.fd) : e \in Visible(s)}
        count == IF mode.handler = "epoll" THEN Cardinality(Visible(s))
                 ELSE Cardinality(hot) - s.corr
        again == mode.handler = "select" /\ count = 0 /\ ~mode.timeout
    IN /\ table' = s.table /\ binds' = s.binds
       /\ request' = s.request /\ gave' = s.gave
       /\ revents' = IF mode.handler = "poll" THEN revents \cup fds ELSE {}
       /\ report' = IF again THEN report
                    ELSE [fds |-> fds \cup revents', count |-> count, ready |-> Ready(hot)]
       /\ pc' = (IF again THEN "again" ELSE "user")

LEMMA Awoken ==
    ASSUME Wake
    PROVE  \E hot \in Answers, ahead \in Aheads : Woken(hot, Handled(hot, ahead))
<1>1. \E hot \in Answers, ahead \in Aheads : \E s \in {Handled(hot, ahead)} : Woken(hot, s)
  BY Zenon DEF Wake, Woken, Aheads
<1> QED
  BY <1>1

LEMMA WakePreserves ==
    ASSUME PortsInv, Wake
    PROVE  PortsInv'
<1>1. PICK hot \in Answers, ahead \in Aheads : Woken(hot, Handled(hot, ahead))
  BY Awoken
<1> DEFINE s == Handled(hot, ahead)
           fds == {Original(s.binds, e.fd) : e \in Visible(s)}
           count == IF mode.handler = "epoll" THEN Cardinality(Visible(s))
                    ELSE Cardinality(hot) - s.corr
<1>2. live /\ pc = "wait" /\ pc # "gone" /\ TypeOK /\ Lists(table, binds)
  BY DEF PortsInv, Starting, Wake
<1>3. hot \in Events
  <2> Watched \in Events /\ hot \subseteq Watched
    BY <1>2, WatchedOpen DEF Answers
  <2> QED
    BY FS_Subset DEF Events
<1>4. Follows(Before(hot), s)
  BY <1>2, <1>3, HandledTrue DEF Tracks
<1> HIDE DEF s
<1>5. /\ table' = s.table /\ binds' = s.binds /\ request' = s.request /\ gave' = s.gave
      /\ revents' = IF mode.handler = "poll" THEN revents \cup fds ELSE {}
      /\ report' \in {report, [fds |-> fds \cup revents', count |-> count, ready |-> Ready(hot)]}
      /\ pc' \in {"again", "user"}
  BY <1>1 DEF s, Woken
<1>6. s \in WorkType /\ Lists(s.table, s.binds) /\ Visible(s) \subseteq s.hot /\ s.hot \in Events
  <2> mode.handler \in {"select", "poll", "epoll"}
    BY ModesAssumption DEF PortsInv, TypeOK
  <2> QED
    BY <1>4 DEF Follows, Visible, WorkType
<1>7. fds \subseteq Number \cup {-1}
  <2> s.binds \in Seq(BindType)
    BY <1>6 DEF WorkType
  <2> \A e \in Visible(s) : e.fd \in Number \cup {-1}
    BY <1>6 DEF Events, EventType
  <2> QED
    BY OriginalNumber
<1>8. count \in Int
  <2>1. IsFiniteSet(Visible(s)) /\ IsFiniteSet(hot)
    BY <1>3, <1>6, FS_Subset DEF Events
  <2>2. Cardinality(Visible(s)) \in Nat /\ Cardinality(hot) \in Nat /\ s.corr \in Int
    BY <1>6, <2>1, FS_CardinalityType DEF WorkType
  <2> QED
    BY <2>2
<1> HIDE DEF fds, count
<1>9. revents' \subseteq Number \cup {-1}
  BY <1>2, <1>5, <1>7 DEF TypeOK
<1>10. Ready(hot) \subseteq Number
  <2> \A i \in DOMAIN binds : binds[i].fd \in Number
    BY <1>2, BindAt DEF TypeOK
  <2> QED
    BY DEF Ready, Own, Monitoring
<1>11. report' \in ReportType
  BY <1>5, <1>7, <1>8, <1>9, <1>10 DEF ReportType, PortsInv
<1>12. interest' \subseteq [fd : Number, of : Object] /\ IsFiniteSet(interest')
  BY <1>2, WatchedOpen, FS_EmptySet DEF Wake, Events
<1>13. TypeOK'
  <2>1. /\ report'.fds \subseteq Number \cup {-1} /\ report'.count \in Int
        /\ report'.ready \subseteq Number
    BY <1>11 DEF ReportType
  <2>2. /\ table' \in [Number -> Object \cup {None}] /\ binds' \in Seq(BindType)
        /\ request' \in [Requester -> {"away", "queued", "accepted", "sent",
                                     "answered", "closed", "gone"}]
        /\ gave' \in [Requester -> SUBSET Object]
    BY <1>5, <1>6 DEF WorkType, Table, RequestState
  <2>3. UNCHANGED <<mode, asks, door, live, sockets, status, client>>
    BY DEF Wake, environment
  <2> QED
    BY <1>2, <1>5, <1>9, <1>12, <2>1, <2>2, <2>3 DEF TypeOK
<1>14. Lists(table, binds)'
  BY <1>5, <1>6, ListsNext DEF Wake
<1>15. SocketsTrue'
  <2>1. sockets' = sockets /\ sockets \subseteq Number
    BY <1>2 DEF Wake, TypeOK
  <2>2. SameBut(table, table') /\ SameBinds(binds, binds')
    BY <1>4, <1>5 DEF Follows, Before
  <2>3. \A f \in sockets : table'[f] = Unbound
    BY <1>2, <2>1, <2>2, PassingApart DEF SameBut, PortsInv, SocketsTrue
  <2>4. \A i \in DOMAIN binds : binds'[i].fd = binds[i].fd
    <3> TAKE i \in DOMAIN binds
    <3>1. binds[i] \in BindType /\ binds'[i] = [binds[i] EXCEPT !.comfds = binds'[i].comfds]
      BY <1>2, <2>2, BindAt DEF SameBinds, TypeOK
    <3> QED
      BY <3>1 DEF BindType
  <2>5. BoundFds' = BoundFds
    BY <2>2, <2>4 DEF BoundFds, SameBinds
  <2> QED
    BY <1>2, <2>1, <2>3, <2>5 DEF PortsInv, SocketsTrue
<1>16. live'
  BY <1>2 DEF Wake
<1> QED
  BY <1>11, <1>12, <1>13, <1>14, <1>15, <1>16 DEF PortsInv

(* A number of no bound socket is opened, but not as a connection.          *)
LEMMA OpeningTrue ==
    ASSUME NEW t \in Table, NEW bs \in Seq(BindType), Lists(t, bs),
           NEW n \in Number, t[n] = None, NEW o \in {File, Unbound},
           NEW u, u = [t EXCEPT ![n] = o]
    PROVE  Lists(u, bs) /\ u \in Table /\ \A i \in DOMAIN bs : bs[i].fd # n
<1>1. o \in Object /\ o \notin Passing
  BY PassingApart DEF Object
<1>2. u \in Table /\ \A m \in Number : u[m] = IF m = n THEN o ELSE t[m]
  BY <1>1 DEF Table
<1>3. ASSUME NEW i \in DOMAIN bs
      PROVE  ListTrue(u, bs[i]) /\ bs[i].fd # n
  <2> DEFINE b == bs[i]
  <2>1. ListTrue(t, b) /\ {b.fd, b.shadowfd, b.comfd} \subseteq Number /\ b.port \in Port
    BY BindAt DEF Lists
  <2> HIDE DEF b
  <2>2. b.fd # n /\ b.shadowfd # n
    BY <2>1, PassingApart DEF ListTrue, Passing
  <2>3. b.monitoring => b.comfd # n
    BY <2>1, PassingApart DEF ListTrue, Passing
  <2>4. \A p : o # Com(p) /\ o # Tcp(p) /\ o # Session(p) /\ o # Conn(p)
    BY DEF File, Unbound, Com, Tcp, Session, Conn
  <2>5. (\A r \in Requester : Conn(r) # None) /\ (\A c \in Client : Session(c) # None)
    BY Kinds, PassingApart DEF Passing
  <2>6. Sessions(u, b.port) = Sessions(t, b.port) /\ Peers(u, b.port) = Peers(t, b.port)
    BY <1>2, <2>4, <2>5 DEF Sessions, Peers
  <2>7. /\ u[b.shadowfd] = t[b.shadowfd] /\ u[b.fd] = t[b.fd]
        /\ IF b.monitoring THEN u[b.comfd] = Com(b.port) ELSE \A p \in Port : u[b.comfd] \notin {Com(p), Tcp(p)}
    BY <1>2, <2>1, <2>2, <2>3, <2>4 DEF ListTrue
  <2>8. ListTrue(u, b)
    BY <2>1, <2>6, <2>7 DEF ListTrue
  <2> QED
    BY <2>2, <2>8 DEF b
<1> QED
  BY <1>2, <1>3 DEF Lists

LEMMA OpenFilePreserves ==
    ASSUME PortsInv, OpenFile
    PROVE  PortsInv'
<1> DEFINE n == Lowest(table)
<1>1. live /\ pc = "user" /\ pc' = pc /\ table \in Table /\ binds \in Seq(BindType)
  BY DEF OpenFile, PortsInv, TypeOK, Table, process
<1>2. n \in Number /\ table[n] = None
  BY LowestFree DEF OpenFile
<1>3. table' = [table EXCEPT ![n] = File]
  BY DEF OpenFile, Opened
<1> HIDE DEF n
<1>4. /\ Lists(table', binds) /\ table' \in Table
      /\ \A i \in DOMAIN binds : binds[i].fd # n
  BY <1>1, <1>2, <1>3, OpeningTrue DEF PortsInv
<1>5. UNCHANGED <<environment, process, binds, status, request, gave, client>>
  BY DEF OpenFile
<1>6. TypeOK'
  BY <1>4, <1>5 DEF PortsInv, TypeOK, environment, process, Table
<1>7. Lists(table, binds)'
  BY <1>4, <1>5, ListsNext
<1>8. SocketsTrue'
  <2>1. \A f \in sockets : table[f] = Unbound /\ f \in Number
    BY <1>1 DEF PortsInv, SocketsTrue, TypeOK
  <2>2. \A f \in sockets : table'[f] = table[f]
    BY <1>1, <1>2, <1>3, <2>1, PassingApart DEF Table, Passing
  <2> QED
    BY <1>1, <1>5, <2>2 DEF PortsInv, SocketsTrue, BoundFds, process
<1> QED
  BY <1>1, <1>5, <1>6, <1>7, <1>8 DEF PortsInv, process

LEMMA OpenSocketPreserves ==
    ASSUME PortsInv, OpenSocket
    PROVE  PortsInv'
<1> DEFINE n == Lowest(table)
<1>1. ~live /\ pc = "user" /\ table \in Table /\ binds \in Seq(BindType)
  BY DEF OpenSocket, PortsInv, TypeOK, Table
<1>2. n \in Number /\ table[n] = None
  BY LowestFree DEF OpenSocket
<1>3. table' = [table EXCEPT ![n] = Unbound] /\ sockets' = sockets \cup {n}
  BY DEF OpenSocket, Opened
<1> HIDE DEF n
<1>4. /\ Lists(table', binds) /\ table' \in Table
      /\ \A i \in DOMAIN binds : binds[i].fd # n
  BY <1>1, <1>2, <1>3, OpeningTrue DEF PortsInv
<1>5. UNCHANGED <<environment, pc, live, interest, revents, report, binds,
                  status, request, gave, client>>
  BY DEF OpenSocket
<1>6. TypeOK'
  BY <1>2, <1>3, <1>4, <1>5 DEF PortsInv, TypeOK, environment, Table
<1>7. Lists(table, binds)'
  BY <1>4, <1>5, ListsNext
<1>8. SocketsTrue'
  <2>1. \A f \in sockets : table[f] = Unbound /\ f \in Number /\ f \notin BoundFds
    BY <1>1 DEF PortsInv, SocketsTrue, TypeOK
  <2>2. \A f \in sockets' : table'[f] = Unbound
    BY <1>1, <1>2, <1>3, <2>1 DEF Table
  <2>3. BoundFds' = BoundFds /\ n \notin BoundFds
    BY <1>4, <1>5 DEF BoundFds
  <2> QED
    BY <1>3, <2>1, <2>2, <2>3 DEF SocketsTrue
<1>9. Starting'
  <2>1. Starting
    BY <1>1 DEF PortsInv
  <2>2. \A m \in Number : table'[m] = IF m = n THEN Unbound ELSE table[m]
    BY <1>1, <1>3 DEF Table
  <2>3. (\A c \in Client : Unbound # Session(c)) /\ (\A r \in Requester : Unbound # Conn(r))
    BY DEF Unbound, Session, Conn
  <2> QED
    BY <1>5, <2>1, <2>2, <2>3 DEF Starting
<1> QED
  BY <1>5, <1>6, <1>7, <1>8, <1>9 DEF PortsInv

LEMMA EventCallPreserves ==
    ASSUME PortsInv, EventCall
    PROVE  PortsInv'
<1> DEFINE left == {binds[i].comfd : i \in {j \in DOMAIN binds : Quits(binds[j])}}
<1>1. /\ pc # "gone" /\ table \in Table /\ binds \in Seq(BindType) /\ status \in [Port -> 0..2]
      /\ TypeOK /\ report \in ReportType /\ IsFiniteSet(interest) /\ SocketsTrue /\ Lists(table, binds)
  BY DEF EventCall, PortsInv, TypeOK, Table
<1>2. /\ table' = [n \in Number |-> IF n \in left THEN None ELSE table[n]]
      /\ binds' = [i \in DOMAIN binds |->
                      [binds[i] EXCEPT !.monitoring = @ /\ ~Quits(binds[i])]]
      /\ pc' = "detect" /\ live' = TRUE /\ report' \in {report, NoReport}
      /\ UNCHANGED <<environment, sockets, interest, revents, request, gave, client>>
  BY DEF EventCall
<1>3. \A n \in left : \E p \in Port : table[n] = Com(p)
  <2> SUFFICES ASSUME NEW i \in DOMAIN binds, Quits(binds[i])
               PROVE  \E p \in Port : table[binds[i].comfd] = Com(p)
    OBVIOUS
  <2> binds[i].port \in Port /\ ListTrue(table, binds[i])
    BY <1>1, BindAt DEF Lists
  <2> QED
    BY DEF ListTrue, Quits
<1> HIDE DEF left
<1>4. ASSUME NEW i \in DOMAIN binds
      PROVE  /\ binds'[i] \in BindType
             /\ binds'[i].port = binds[i].port /\ binds'[i].fd = binds[i].fd
             /\ binds'[i].shadowfd = binds[i].shadowfd /\ binds'[i].comfd = binds[i].comfd
             /\ binds'[i].comfds = binds[i].comfds /\ binds'[i].fds = binds[i].fds
             /\ binds'[i].version = binds[i].version
             /\ binds'[i].monitoring = (binds[i].monitoring /\ ~Quits(binds[i]))
  <2>1. binds[i] \in BindType
    BY <1>1, BindAt
  <2>2. binds'[i] = [binds[i] EXCEPT !.monitoring = binds[i].monitoring /\ ~Quits(binds[i])]
    BY <1>2
  <2>3. (binds[i].monitoring /\ ~Quits(binds[i])) \in BOOLEAN
    OBVIOUS
  <2> QED
    BY <2>1, <2>2, <2>3 DEF BindType
<1>5. binds' \in Seq(BindType) /\ DOMAIN binds' = DOMAIN binds
  <2>1. DOMAIN binds = 1..Len(binds) /\ Len(binds) \in Nat
    BY <1>1
  <2>2. binds' \in [1..Len(binds) -> BindType]
    BY <1>2, <1>4, <2>1
  <2> QED
    BY <2>1, <2>2
<1>6. table' \in Table /\ \A n \in Number : table'[n] = IF n \in left THEN None ELSE table[n]
  BY <1>1, <1>2 DEF Table
<1>7. ASSUME NEW n \in Number
      PROVE  /\ \A p \in Port : table'[n] = Tcp(p) <=> table[n] = Tcp(p)
             /\ \A p \in Port : table'[n] = Com(p) => table[n] = Com(p)
             /\ table'[n] = Unbound <=> table[n] = Unbound
             /\ \A c \in Client : table'[n] = Session(c) <=> table[n] = Session(c)
             /\ \A r \in Requester : table'[n] = Conn(r) <=> table[n] = Conn(r)
  <2>1. CASE n \in left
    <3>1. PICK p \in Port : table[n] = Com(p)
      BY <1>3, <2>1
    <3>2. table'[n] = None
      BY <1>6, <2>1
    <3>3. /\ \A q : Com(p) # Tcp(q) /\ Com(p) # Session(q) /\ Com(p) # Conn(q)
          /\ Com(p) # Unbound
      BY DEF Com, Tcp, Session, Conn, Unbound
    <3>4. \A r \in Requester : Conn(r) # None
      BY Kinds
    <3> QED
      BY <3>1, <3>2, <3>3, <3>4, PassingApart DEF Passing
  <2>2. CASE n \notin left
    BY <1>6, <2>2
  <2> QED
    BY <2>1, <2>2
<1>8. ASSUME NEW i \in DOMAIN binds
      PROVE  ListTrue(table', binds'[i])
  <2> DEFINE b == binds[i]
             d == binds'[i]
  <2>1. ListTrue(table, b) /\ {b.fd, b.shadowfd, b.comfd} \subseteq Number /\ b.port \in Port
    BY <1>1, BindAt DEF Lists
  <2>2. Sessions(table', b.port) = Sessions(table, b.port) /\ Peers(table', b.port) = Peers(table, b.port)
    BY <1>7 DEF Sessions, Peers
  <2>3. table'[b.shadowfd] = Tcp(b.port) /\ table'[b.fd] \in {Tcp(b.port), Unbound}
    BY <1>7, <2>1 DEF ListTrue
  <2>4. CASE d.monitoring
    <3>1. b.monitoring /\ ~Quits(b) /\ table[b.comfd] = Com(b.port)
      BY <1>4, <2>1, <2>4 DEF ListTrue
    <3>2. b.comfd \notin left
      <4> SUFFICES ASSUME NEW j \in DOMAIN binds, Quits(binds[j]), binds[j].comfd = b.comfd
                   PROVE  FALSE
        BY DEF left
      <4>1. table[b.comfd] = Com(binds[j].port)
        BY <1>1 DEF Lists, ListTrue, Quits
      <4>2. binds[j].port = b.port
        BY <3>1, <4>1 DEF Com
      <4> QED
        BY <1>1, <3>1, <4>2 DEF Lists, Distinct
    <3>3. table'[b.comfd] = Com(b.port)
      BY <1>6, <2>1, <3>1, <3>2
    <3> QED
      BY <1>4, <2>1, <2>2, <2>3, <2>4, <3>3 DEF ListTrue
  <2>5. CASE ~d.monitoring
    <3>1. \A p \in Port : table'[b.comfd] \notin {Com(p), Tcp(p)}
      <4>1. CASE b.monitoring
        <5> b.comfd \in left
          BY <1>4, <2>5, <4>1 DEF left
        <5> table'[b.comfd] = None
          BY <1>6, <2>1
        <5> QED
          BY PassingApart DEF Passing
      <4>2. CASE ~b.monitoring
        BY <1>7, <2>1, <4>2 DEF ListTrue
      <4> QED
        BY <4>1, <4>2
    <3> QED
      BY <1>4, <2>1, <2>2, <2>3, <2>5, <3>1 DEF ListTrue
  <2> QED
    BY <2>4, <2>5
<1>9. Lists(table', binds')
  BY <1>1, <1>4, <1>5, <1>8 DEF Lists, Distinct
<1>10. SocketsTrue'
  <2>1. BoundFds' = BoundFds
    BY <1>4, <1>5 DEF BoundFds
  <2>2. \A f \in sockets : table'[f] = Unbound
    BY <1>1, <1>7 DEF SocketsTrue, TypeOK
  <2> QED
    BY <1>1, <1>2, <2>1, <2>2 DEF SocketsTrue
<1>11. status' \in [Port -> 0..2]
  <2> DEFINE up(p) == \E i \in DOMAIN binds : binds[i].port = p /\ Publishes(binds[i])
  <2>1. status' = [p \in Port |-> IF up(p) THEN status[p] + 1 ELSE status[p]]
    BY DEF EventCall
  <2>2. ASSUME NEW p \in Port, up(p)
        PROVE  status[p] + 1 \in 0..2
    <3>1. PICK i \in DOMAIN binds : binds[i].port = p /\ Publishes(binds[i])
      BY <2>2
    <3>2. binds[i].version \in {0, 1}
      BY <1>1 DEF Lists, ListTrue, Version
    <3> QED
      BY <1>1, <3>1, <3>2 DEF Publishes
  <2> HIDE DEF up
  <2> QED
    BY <1>1, <2>1, <2>2
<1>12. report' \in ReportType
  BY <1>1, <1>2 DEF NoReport, ReportType
<1>13. TypeOK'
  <2>1. /\ report'.fds \subseteq Number \cup {-1} /\ report'.count \in Int
        /\ report'.ready \subseteq Number
    BY <1>12 DEF ReportType
  <2> QED
    BY <1>1, <1>2, <1>5, <1>6, <1>11, <2>1 DEF TypeOK, environment, Table
<1> QED
  BY <1>1, <1>2, <1>9, <1>10, <1>12, <1>13, ListsNext DEF PortsInv

LEMMA AcceptPreserves ==
    ASSUME PortsInv, NEW i \in DOMAIN binds, NEW c \in Client, Accept(i, c)
    PROVE  PortsInv'
<1> DEFINE n == Lowest(table)
<1>1. /\ pc # "gone" /\ table \in Table /\ binds \in Seq(BindType) /\ TypeOK
      /\ report \in ReportType /\ IsFiniteSet(interest) /\ SocketsTrue /\ Lists(table, binds)
  BY DEF Accept, PortsInv, TypeOK, Table
<1>2. live
  BY DEF Accept, PortsInv, Starting, NoReport
<1>3. n \in Number /\ table[n] = None
  BY LowestFree DEF Accept
<1>4. /\ table' = [table EXCEPT ![n] = Session(c)]
      /\ binds' = [binds EXCEPT ![i].fds = @ \cup {n}]
      /\ client' = [client EXCEPT ![c] = "open"]
      /\ UNCHANGED <<environment, process, status, request, gave>>
  BY DEF Accept, Opened
<1>5. table[binds[i].shadowfd] = Tcp(door[c])
  BY DEF Accept
<1> HIDE DEF n
<1>6. ASSUME NEW j \in DOMAIN binds
      PROVE  /\ binds'[j] \in BindType
             /\ binds'[j].port = binds[j].port /\ binds'[j].fd = binds[j].fd
             /\ binds'[j].shadowfd = binds[j].shadowfd /\ binds'[j].comfd = binds[j].comfd
             /\ binds'[j].comfds = binds[j].comfds /\ binds'[j].version = binds[j].version
             /\ binds'[j].monitoring = binds[j].monitoring
             /\ binds'[j].fds = IF j = i THEN binds[j].fds \cup {n} ELSE binds[j].fds
  <2>1. binds[j] \in BindType
    BY <1>1, BindAt
  <2>2. binds'[j] = IF j = i THEN [binds[j] EXCEPT !.fds = binds[j].fds \cup {n}] ELSE binds[j]
    BY <1>4
  <2> QED
    BY <1>3, <2>1, <2>2 DEF BindType
<1>7. binds' \in Seq(BindType) /\ DOMAIN binds' = DOMAIN binds
  <2>1. DOMAIN binds = 1..Len(binds) /\ Len(binds) \in Nat /\ DOMAIN binds' = DOMAIN binds
    BY <1>1, <1>4
  <2>2. binds' = [j \in 1..Len(binds) |-> binds'[j]]
    BY <1>1, <1>4, <2>1
  <2>3. binds' \in [1..Len(binds) -> BindType]
    BY <1>6, <2>1, <2>2
  <2> QED
    BY <2>1, <2>3
<1>8. Session(c) \in Object
  BY DEF Object
<1>9. table' \in Table /\ \A m \in Number : table'[m] = IF m = n THEN Session(c) ELSE table[m]
  BY <1>1, <1>4, <1>8 DEF Table
<1>10. ASSUME NEW j \in DOMAIN binds
       PROVE  ListTrue(table', binds'[j]) /\ binds[j].fd # n
  <2> DEFINE b == binds[j]
  <2>1. ListTrue(table, b) /\ {b.fd, b.shadowfd, b.comfd} \subseteq Number /\ b.port \in Port
    BY <1>1, BindAt DEF Lists
  <2>2. door[c] = b.port <=> j = i
    <3>1. Tcp(door[c]) = Tcp(binds[i].port)
      BY <1>1, <1>5 DEF Lists, ListTrue
    <3>2. door[c] = binds[i].port
      BY <3>1 DEF Tcp
    <3> QED
      BY <1>1, <3>2 DEF Lists, Distinct
  <2> HIDE DEF b
  <2>3. b.fd # n /\ b.shadowfd # n /\ (b.monitoring => b.comfd # n)
    BY <1>3, <2>1, PassingApart DEF ListTrue, Passing
  <2>4. \A p : Session(c) # Com(p) /\ Session(c) # Tcp(p) /\ Session(c) # Conn(p)
    BY DEF Com, Tcp, Session, Conn
  <2>5. (\A r \in Requester : Conn(r) # None) /\ (\A d \in Client : Session(d) # None)
    BY Kinds, PassingApart DEF Passing
  <2>6. \A d \in Client : Session(c) = Session(d) => d = c
    BY DEF Session
  <2>7. /\ Sessions(table', b.port) = IF j = i THEN Sessions(table, b.port) \cup {n}
                                      ELSE Sessions(table, b.port)
        /\ Peers(table', b.port) = Peers(table, b.port)
    BY <1>3, <1>9, <2>2, <2>4, <2>5, <2>6 DEF Sessions, Peers
  <2>8. /\ table'[b.shadowfd] = table[b.shadowfd] /\ table'[b.fd] = table[b.fd]
        /\ IF b.monitoring THEN table'[b.comfd] = Com(b.port)
           ELSE \A p \in Port : table'[b.comfd] \notin {Com(p), Tcp(p)}
    BY <1>9, <2>1, <2>3, <2>4 DEF ListTrue
  <2>9. ListTrue(table', binds'[j])
    BY <1>6, <2>1, <2>7, <2>8 DEF ListTrue, b
  <2> QED
    BY <2>3, <2>9 DEF b
<1>11. Lists(table', binds')
  <2>1. Distinct(binds')
    <3>1. Distinct(binds)
      BY <1>1 DEF Lists
    <3> QED
      BY <1>6, <1>7, <3>1 DEF Distinct
  <2> QED
    BY <1>7, <1>10, <2>1 DEF Lists
<1>12. SocketsTrue'
  <2>1. BoundFds' = BoundFds
    <3>1. \A j \in DOMAIN binds : binds'[j].fd = binds[j].fd
      BY <1>6
    <3>2. DOMAIN binds' = DOMAIN binds
      BY <1>7
    <3> QED
      BY <3>1, <3>2 DEF BoundFds
  <2>2. \A f \in sockets : table'[f] = Unbound
    <3>1. \A f \in sockets : f \in Number /\ table[f] = Unbound /\ f # n
      BY <1>1, <1>3, PassingApart DEF SocketsTrue, TypeOK, Passing
    <3> QED
      BY <1>9, <3>1
  <2> QED
    BY <1>1, <1>4, <2>1, <2>2 DEF SocketsTrue, process
<1>13. TypeOK'
  <2>1. client' \in [Client -> {"away", "queued", "open", "over", "gone"}]
    BY <1>1, <1>4 DEF TypeOK
  <2> QED
    BY <1>1, <1>4, <1>7, <1>9, <2>1 DEF TypeOK, environment, process, Table
<1> QED
  BY <1>1, <1>2, <1>4, <1>11, <1>12, <1>13, ListsNext DEF PortsInv, process

(* Opening a number leaves one free number less.                            *)
LEMMA OneLess ==
    ASSUME NEW t \in Table, FreeNumbers(t) # {}, NEW o \in Object
    PROVE  /\ Lowest(t) \in Number /\ t[Lowest(t)] = None
           /\ Opened(t, o) \in Table
           /\ \A m \in Number : Opened(t, o)[m] = IF m = Lowest(t) THEN o ELSE t[m]
           /\ Cardinality(FreeNumbers(t)) \in Nat
           /\ Cardinality(FreeNumbers(Opened(t, o))) = Cardinality(FreeNumbers(t)) - 1
<1> DEFINE n == Lowest(t)
           u == Opened(t, o)
<1>1. n \in Number /\ t[n] = None
  BY LowestFree
<1>2. u = [t EXCEPT ![n] = o]
  BY DEF Opened
<1> HIDE DEF n, u
<1>3. u \in Table /\ \A m \in Number : u[m] = IF m = n THEN o ELSE t[m]
  BY <1>1, <1>2 DEF Table
<1>4. FreeNumbers(u) = FreeNumbers(t) \ {n} /\ n \in FreeNumbers(t)
  BY <1>1, <1>3, Kinds DEF FreeNumbers
<1>5. IsFiniteSet(FreeNumbers(t))
  <2> IsFiniteSet(Number)
    BY FS_Interval, MaxFdAssumption DEF Number
  <2> FreeNumbers(t) \subseteq Number
    BY DEF FreeNumbers
  <2> QED
    BY FS_Subset
<1>6. Cardinality(FreeNumbers(t)) \in Nat
  BY <1>5, FS_CardinalityType
<1>7. Cardinality(FreeNumbers(t) \ {n}) = Cardinality(FreeNumbers(t)) - 1
  BY <1>4, <1>5, FS_RemoveElement
<1> QED
  BY <1>1, <1>3, <1>4, <1>6, <1>7 DEF n, u

(* A port is added to the list before anything of a port is accepted.  The  *)
(* socket f that it is bound on may become its listening socket.            *)
LEMMA BindingTrue ==
    ASSUME NEW t \in Table, NEW bs \in Seq(BindType), Lists(t, bs),
           NEW f \in Number, t[f] = Unbound, NEW p \in Port,
           \A i \in DOMAIN bs : bs[i].monitoring /\ bs[i].port # p /\ bs[i].fd # f,
           \A n \in Number : /\ \A c \in Client : t[n] # Session(c)
                             /\ \A r \in Requester : t[n] # Conn(r),
           NEW u \in Table,
           \A n \in Number : u[n] # t[n] => /\ t[n] = None \/ n = f
                                          /\ u[n] \in {Tcp(p), Com(p), Memory},
           NEW shadow \in Number, NEW com \in Number,
           u[shadow] = Tcp(p), u[com] = Com(p), u[f] \in {Tcp(p), Unbound}
    PROVE  /\ Lists(u, Append(bs, NewBind(p, f, shadow, com)))
           /\ Append(bs, NewBind(p, f, shadow, com)) \in Seq(BindType)
           /\ \A n \in Number : /\ \A c \in Client : u[n] # Session(c)
                                /\ \A r \in Requester : u[n] # Conn(r)
<1> DEFINE new == NewBind(p, f, shadow, com)
           cs == Append(bs, new)
<1>1. /\ new \in BindType /\ new.port = p /\ new.fd = f /\ new.shadowfd = shadow
      /\ new.comfd = com /\ new.comfds = <<>> /\ new.fds = {} /\ new.monitoring = TRUE
      /\ new.version = Version(p)
  <2> <<>> \in Seq(Number) /\ Version(p) \in {0, 1}
    BY DEF Version
  <2> QED
    BY DEF NewBind, BindType
<1>2. \A q : /\ \A c : Session(c) \notin {Tcp(q), Com(q), Memory}
             /\ \A r : Conn(r) \notin {Tcp(q), Com(q), Memory}
  BY DEF Session, Conn, Tcp, Com, Memory
<1>3. \A n \in Number : /\ \A c \in Client : u[n] # Session(c)
                        /\ \A r \in Requester : u[n] # Conn(r)
  BY <1>2
<1>4. \A q : Sessions(u, q) = {} /\ Peers(u, q) = {} /\ Sessions(t, q) = {} /\ Peers(t, q) = {}
  BY <1>3 DEF Sessions, Peers
<1> HIDE DEF new
<1>5. ListTrue(u, new)
  <2> ToSet(<<>>) = {} /\ IsInjective(<<>>)
    BY DEF ToSet, IsInjective
  <2> QED
    BY <1>1, <1>4 DEF ListTrue
<1>6. ASSUME NEW i \in DOMAIN bs
      PROVE  ListTrue(u, bs[i])
  <2> DEFINE b == bs[i]
  <2>1. /\ ListTrue(t, b) /\ {b.fd, b.shadowfd, b.comfd} \subseteq Number /\ b.port \in Port
        /\ b.monitoring /\ b.fd # f
    BY BindAt DEF Lists
  <2> HIDE DEF b
  <2>2. \A q \in Port : Tcp(q) # None /\ Com(q) # None /\ Tcp(q) # Unbound /\ Com(q) # Unbound
    BY PassingApart DEF Passing, Tcp, Com, Unbound
  <2>3. Unbound # None
    BY PassingApart DEF Passing
  <2>4. u[b.shadowfd] = t[b.shadowfd] /\ u[b.comfd] = t[b.comfd] /\ u[b.fd] = t[b.fd]
    BY <2>1, <2>2, <2>3 DEF ListTrue
  <2> QED
    BY <1>4, <2>1, <2>4 DEF ListTrue, b
<1>7. /\ cs \in Seq(BindType) /\ DOMAIN cs = 1..(Len(bs) + 1) /\ Len(bs) \in Nat
      /\ DOMAIN bs = 1..Len(bs)
      /\ \A i \in DOMAIN bs : cs[i] = bs[i]
      /\ cs[Len(bs) + 1] = new
  BY <1>1
<1> HIDE DEF cs
<1>8. \A i \in DOMAIN cs : i \in DOMAIN bs \/ i = Len(bs) + 1
  BY <1>7
<1>9. Distinct(cs)
  <2> SUFFICES ASSUME NEW i \in DOMAIN cs, NEW j \in DOMAIN cs,
                      cs[i].port = cs[j].port \/ cs[i].fd = cs[j].fd
               PROVE  i = j
    BY DEF Distinct
  <2>1. Distinct(bs)
    BY DEF Lists
  <2> QED
    BY <1>1, <1>7, <1>8, <2>1 DEF Distinct
<1>10. Lists(u, cs)
  BY <1>5, <1>6, <1>7, <1>8, <1>9 DEF Lists
<1> QED
  BY <1>3, <1>7, <1>10 DEF cs, new

LEMMA BindPreserves ==
    ASSUME PortsInv, NEW f \in sockets, NEW p \in Port, Bind(f, p)
    PROVE  PortsInv'
<1> DEFINE com0   == Lowest(table)
           asking == Opened(table, Unbound)
           map0   == Lowest(asking)
           mapped == Opened(asking, Memory)
           shadow == Lowest(mapped)
           given  == Opened(mapped, Tcp(p))
           com    == Lowest(given)
           last   == Opened(given, Com(p))
<1>1. /\ ~live /\ pc = "user" /\ table \in Table /\ binds \in Seq(BindType) /\ TypeOK
      /\ report \in ReportType /\ IsFiniteSet(interest) /\ SocketsTrue /\ Lists(table, binds)
      /\ Starting /\ Cardinality(FreeNumbers(table)) >= 4
      /\ \A i \in DOMAIN binds : binds[i].port # p
  BY DEF Bind, PortsInv, TypeOK, Table
<1>2. f \in Number /\ table[f] = Unbound /\ \A i \in DOMAIN binds : binds[i].fd # f
  BY <1>1 DEF SocketsTrue, TypeOK, BoundFds
<1>3. /\ Unbound \in Object /\ Memory \in Object /\ Tcp(p) \in Object /\ Com(p) \in Object
      /\ None \notin Object
  BY Kinds DEF Object
<1>4. ASSUME NEW t, Cardinality(FreeNumbers(t)) \in Nat, Cardinality(FreeNumbers(t)) >= 1
      PROVE  FreeNumbers(t) # {}
  BY <1>4, FS_EmptySet
<1>5. Cardinality(FreeNumbers(table)) \in Nat
  <2> IsFiniteSet(Number)
    BY FS_Interval, MaxFdAssumption DEF Number
  <2> FreeNumbers(table) \subseteq Number
    BY DEF FreeNumbers
  <2> QED
    BY FS_Subset, FS_CardinalityType
<1>6. /\ com0 \in Number /\ table[com0] = None /\ asking \in Table
      /\ \A m \in Number : asking[m] = IF m = com0 THEN Unbound ELSE table[m]
      /\ Cardinality(FreeNumbers(asking)) = Cardinality(FreeNumbers(table)) - 1
  BY <1>1, <1>3, <1>4, <1>5, OneLess
<1>7. /\ map0 \in Number /\ asking[map0] = None /\ mapped \in Table
      /\ \A m \in Number : mapped[m] = IF m = map0 THEN Memory ELSE asking[m]
      /\ Cardinality(FreeNumbers(mapped)) = Cardinality(FreeNumbers(asking)) - 1
  <2> HIDE DEF asking
  <2> FreeNumbers(asking) # {}
    BY <1>1, <1>4, <1>5, <1>6
  <2> QED
    BY <1>3, <1>6, OneLess
<1>8. /\ shadow \in Number /\ mapped[shadow] = None /\ given \in Table
      /\ \A m \in Number : given[m] = IF m = shadow THEN Tcp(p) ELSE mapped[m]
      /\ Cardinality(FreeNumbers(given)) = Cardinality(FreeNumbers(mapped)) - 1
  <2> HIDE DEF asking, mapped
  <2> FreeNumbers(mapped) # {}
    BY <1>1, <1>4, <1>5, <1>6, <1>7
  <2> QED
    BY <1>3, <1>7, OneLess
<1>9. /\ com \in Number /\ given[com] = None /\ last \in Table
      /\ \A m \in Number : last[m] = IF m = com THEN Com(p) ELSE given[m]
  <2> HIDE DEF asking, mapped, given
  <2> FreeNumbers(given) # {}
    BY <1>1, <1>4, <1>5, <1>6, <1>7, <1>8
  <2> QED
    BY <1>3, <1>8, OneLess
<1>10. \/ /\ table' = [last EXCEPT ![com0] = None]
         /\ binds' = Append(binds, NewBind(p, f, shadow, com))
      \/ /\ table' = [mapped EXCEPT ![f] = Tcp(p), ![com0] = Com(p)]
         /\ binds' = Append(binds, NewBind(p, f, f, com0))
  BY DEF Bind
<1>11. /\ sockets' = sockets \ {f}
       /\ UNCHANGED <<environment, pc, live, interest, revents, report,
                      status, request, gave, client>>
  BY DEF Bind
<1> HIDE DEF com0, asking, map0, mapped, shadow, given, com, last
<1>12. /\ com0 # f /\ com0 # shadow /\ com0 # com /\ shadow # f /\ com # f /\ shadow # com
       /\ map0 # com0 /\ map0 # f /\ map0 # shadow /\ map0 # com
  BY <1>2, <1>3, <1>6, <1>7, <1>8, <1>9
<1>13. \E s, k \in Number :
         /\ binds' = Append(binds, NewBind(p, f, s, k))
         /\ table' \in Table /\ table'[s] = Tcp(p) /\ table'[k] = Com(p)
         /\ table'[f] \in {Tcp(p), Unbound}
         /\ \A n \in Number : table'[n] # table[n] => /\ table[n] = None \/ n = f
                                                      /\ table'[n] \in {Tcp(p), Com(p), Memory}
  <2>1. CASE /\ table' = [last EXCEPT ![com0] = None]
             /\ binds' = Append(binds, NewBind(p, f, shadow, com))
    <3>1. table' \in Table /\ \A n \in Number : table'[n] = IF n = com0 THEN None ELSE last[n]
      BY <1>6, <1>9, <2>1 DEF Table
    <3>2. \A n \in Number : table'[n] = IF n = com THEN Com(p)
                                        ELSE IF n = shadow THEN Tcp(p)
                                        ELSE IF n = map0 THEN Memory ELSE table[n]
      BY <1>6, <1>7, <1>8, <1>9, <1>12, <3>1
    <3>3. table[shadow] = None /\ table[com] = None /\ table[map0] = None
      BY <1>6, <1>7, <1>8, <1>9, <1>12
    <3> QED
      BY <1>2, <1>7, <1>8, <1>9, <1>12, <2>1, <3>1, <3>2, <3>3
  <2>2. CASE /\ table' = [mapped EXCEPT ![f] = Tcp(p), ![com0] = Com(p)]
             /\ binds' = Append(binds, NewBind(p, f, f, com0))
    <3>1. table' \in Table /\ \A n \in Number : table'[n] = IF n = com0 THEN Com(p)
                                                   ELSE IF n = f THEN Tcp(p)
                                                   ELSE IF n = map0 THEN Memory ELSE table[n]
      BY <1>1, <1>2, <1>3, <1>6, <1>7, <1>12, <2>2 DEF Table
    <3>2. table[map0] = None /\ table[com0] = None
      BY <1>6, <1>7, <1>12
    <3>3. \A n \in Number : table'[n] # table[n] => /\ table[n] = None \/ n = f
                                                  /\ table'[n] \in {Tcp(p), Com(p), Memory}
      BY <3>1, <3>2
    <3>4. f \in Number /\ com0 \in Number /\ table'[f] = Tcp(p) /\ table'[com0] = Com(p)
      BY <1>2, <1>6, <1>12, <3>1
    <3> QED
      BY <2>2, <3>1, <3>3, <3>4
  <2> QED
    BY <1>10, <2>1, <2>2
<1>14. PICK s, k \in Number :
         /\ binds' = Append(binds, NewBind(p, f, s, k))
         /\ table' \in Table /\ table'[s] = Tcp(p) /\ table'[k] = Com(p)
         /\ table'[f] \in {Tcp(p), Unbound}
         /\ \A n \in Number : table'[n] # table[n] => /\ table[n] = None \/ n = f
                                                      /\ table'[n] \in {Tcp(p), Com(p), Memory}
  BY <1>13
<1>15. /\ Lists(table', binds') /\ binds' \in Seq(BindType)
       /\ \A n \in Number : /\ \A c \in Client : table'[n] # Session(c)
                            /\ \A r \in Requester : table'[n] # Conn(r)
  <2> \A i \in DOMAIN binds : binds[i].monitoring /\ binds[i].port # p /\ binds[i].fd # f
    BY <1>1, <1>2 DEF Starting
  <2> \A n \in Number : /\ \A c \in Client : table[n] # Session(c)
                        /\ \A r \in Requester : table[n] # Conn(r)
    BY <1>1 DEF Starting
  <2> QED
    BY <1>1, <1>2, <1>14, BindingTrue
<1>16. /\ DOMAIN binds' = 1..(Len(binds) + 1) /\ DOMAIN binds = 1..Len(binds) /\ Len(binds) \in Nat
       /\ \A i \in DOMAIN binds : binds'[i] = binds[i]
       /\ binds'[Len(binds) + 1] = NewBind(p, f, s, k)
  BY <1>1, <1>14
<1>17. Starting'
  <2> \A i \in DOMAIN binds' : binds'[i].monitoring
    BY <1>1, <1>16 DEF Starting, NewBind
  <2> QED
    BY <1>1, <1>11, <1>15 DEF Starting
<1>18. SocketsTrue'
  <2> SUFFICES ASSUME NEW g \in sockets, g # f
               PROVE  table'[g] = Unbound /\ \A i \in DOMAIN binds' : binds'[i].fd # g
    BY <1>11 DEF SocketsTrue, BoundFds
  <2>1. g \in Number /\ table[g] = Unbound /\ \A i \in DOMAIN binds : binds[i].fd # g
    BY <1>1 DEF SocketsTrue, TypeOK, BoundFds
  <2>2. table'[g] = Unbound
    BY <1>3, <1>14, <2>1
  <2>3. \A i \in DOMAIN binds' : i \in DOMAIN binds \/ i = Len(binds) + 1
    BY <1>16
  <2>4. \A i \in DOMAIN binds' : binds'[i].fd # g
    BY <1>16, <2>1, <2>3 DEF NewBind
  <2> QED
    BY <2>2, <2>4
<1>19. TypeOK'
  BY <1>1, <1>11, <1>14, <1>15 DEF TypeOK, environment, Table
<1> QED
  BY <1>1, <1>11, <1>15, <1>17, <1>18, <1>19, ListsNext DEF PortsInv

(* A number is closed that is none of a bound socket but may be one of its  *)
(* sessions.                                                                *)
LEMMA ClosedTrue ==
    ASSUME NEW t \in Table, NEW b \in BindType, ListTrue(t, b),
           NEW f \in Number, f # b.fd, t[f] # Tcp(b.port), t[f] # Com(b.port),
           \A r \in Requester : t[f] # Conn(r),
           NEW u, u = [t EXCEPT ![f] = None],
           NEW d \in BindType, d.port = b.port, d.fd = b.fd, d.shadowfd = b.shadowfd,
           d.comfd = b.comfd, d.comfds = b.comfds, d.monitoring = b.monitoring,
           d.version = b.version, d.fds = b.fds \ {f}
    PROVE  ListTrue(u, d)
<1>1. \A n \in Number : u[n] = IF n = f THEN None ELSE t[n]
  BY DEF Table
<1>2. {b.fd, b.shadowfd, b.comfd} \subseteq Number /\ b.port \in Port
  BY DEF BindType
<1>3. /\ \A r \in Requester : Conn(r) # None
      /\ \A c \in Client : Session(c) # None
      /\ \A p \in Port : Com(p) # None /\ Tcp(p) # None
  BY Kinds, PassingApart DEF Passing
<1>4. Sessions(u, b.port) = Sessions(t, b.port) \ {f} /\ Peers(u, b.port) = Peers(t, b.port)
  BY <1>1, <1>3 DEF Sessions, Peers
<1>5. /\ u[b.shadowfd] = Tcp(b.port) /\ u[b.fd] \in {Tcp(b.port), Unbound}
      /\ IF b.monitoring THEN u[b.comfd] = Com(b.port) ELSE \A p \in Port : u[b.comfd] \notin {Com(p), Tcp(p)}
  BY <1>1, <1>2, <1>3 DEF ListTrue
<1> QED
  BY <1>4, <1>5 DEF ListTrue

LEMMA FirstFound ==
    ASSUME NEW I \in SUBSET (Nat \ {0}), NEW j, j = IF I # {} THEN Min(I) ELSE 0
    PROVE  IF j > 0 THEN j \in I ELSE I = {}
<1>1. CASE I = {}
  BY <1>1
<1>2. CASE I # {}
  <2>1. Min(I) \in I /\ Min(I) \in Nat \ {0}
    <3> I \in SUBSET Nat
      OBVIOUS
    <3> QED
      BY <1>2, LeastIsMin
  <2> QED
    BY <1>2, <2>1
<1> QED
  BY <1>1, <1>2

(* The searches of close().                                                 *)
LEMMA Searches ==
    ASSUME NEW f \in Number, binds \in Seq(BindType)
    PROVE  /\ IF BoundAt(f) > 0 THEN BoundAt(f) \in DOMAIN binds /\ binds[BoundAt(f)].fd = f
              ELSE \A i \in DOMAIN binds : binds[i].fd # f
           /\ MonitorAt(f) > 0 => \E i \in DOMAIN binds : binds[i].comfd = f /\ binds[i].monitoring
           /\ InternalAt(f) > 0 => \E i \in DOMAIN binds : f \in ToSet(binds[i].comfds)
           /\ IF SessionAt(f) > 0
              THEN SessionAt(f) \in DOMAIN binds /\ f \in binds[SessionAt(f)].fds
              ELSE \A i \in DOMAIN binds : f \notin binds[i].fds
<1> DOMAIN binds = 1..Len(binds) /\ 1..Len(binds) \subseteq Nat /\ 0 \notin 1..Len(binds)
  OBVIOUS
<1>1. IF BoundAt(f) > 0 THEN BoundAt(f) \in DOMAIN binds /\ binds[BoundAt(f)].fd = f
      ELSE \A i \in DOMAIN binds : binds[i].fd # f
  <2> DEFINE I == {i \in 1..Len(binds) : binds[i].fd = f}
  <2>1. BoundAt(f) = IF I # {} THEN Min(I) ELSE 0
    BY DEF BoundAt, SelectInSeq
  <2>2. I \in SUBSET (Nat \ {0})
    OBVIOUS
  <2>3. IF BoundAt(f) > 0 THEN BoundAt(f) \in I ELSE I = {}
    <3> HIDE DEF I
    <3> QED
      BY <2>1, <2>2, FirstFound
  <2> QED
    BY <2>3
<1>2. MonitorAt(f) > 0 => \E i \in DOMAIN binds : binds[i].comfd = f /\ binds[i].monitoring
  <2> DEFINE I == {i \in 1..Len(binds) : binds[i].comfd = f /\ binds[i].monitoring}
  <2>1. MonitorAt(f) = IF I # {} THEN Min(I) ELSE 0
    BY DEF MonitorAt, SelectInSeq
  <2>2. I \in SUBSET (Nat \ {0})
    OBVIOUS
  <2>3. MonitorAt(f) > 0 => MonitorAt(f) \in I
    <3> HIDE DEF I
    <3> QED
      BY <2>1, <2>2, FirstFound
  <2> QED
    BY <2>3
<1>3. InternalAt(f) > 0 => \E i \in DOMAIN binds : f \in ToSet(binds[i].comfds)
  <2> DEFINE I == {i \in 1..Len(binds) : f \in ToSet(binds[i].comfds)}
  <2>1. InternalAt(f) = IF I # {} THEN Min(I) ELSE 0
    BY DEF InternalAt, SelectInSeq
  <2>2. I \in SUBSET (Nat \ {0})
    OBVIOUS
  <2>3. InternalAt(f) > 0 => InternalAt(f) \in I
    <3> HIDE DEF I
    <3> QED
      BY <2>1, <2>2, FirstFound
  <2> QED
    BY <2>3
<1>4. IF SessionAt(f) > 0 THEN SessionAt(f) \in DOMAIN binds /\ f \in binds[SessionAt(f)].fds
      ELSE \A i \in DOMAIN binds : f \notin binds[i].fds
  <2> DEFINE I == {i \in 1..Len(binds) : f \in binds[i].fds}
  <2>1. SessionAt(f) = IF I # {} THEN Min(I) ELSE 0
    BY DEF SessionAt, SelectInSeq
  <2>2. I \in SUBSET (Nat \ {0})
    OBVIOUS
  <2>3. IF SessionAt(f) > 0 THEN SessionAt(f) \in I ELSE I = {}
    <3> HIDE DEF I
    <3> QED
      BY <2>1, <2>2, FirstFound
  <2> QED
    BY <2>3
<1> QED
  BY <1>1, <1>2, <1>3, <1>4

(* The bound socket that the application closes is taken out of the list.   *)
LEMMA DroppedTrue ==
    ASSUME TypeOK, Lists(table, binds), NEW j \in DOMAIN binds, NEW f, binds[j].fd = f,
           NEW t, t = [table EXCEPT ![f] = None],
           NEW bs, bs = RemoveAt(binds, j)
    PROVE  /\ Lists(t, bs) /\ bs \in Seq(BindType)
           /\ \A i \in DOMAIN bs : \E k \in DOMAIN binds : bs[i] = binds[k]
           /\ \A k \in DOMAIN binds : k # j => \E i \in DOMAIN bs : bs[i] = binds[k]
<1>1. /\ binds \in Seq(BindType) /\ table \in Table /\ j \in 1..Len(binds)
      /\ DOMAIN binds = 1..Len(binds) /\ Len(binds) \in Nat
  BY DEF TypeOK, Table
<1>2. /\ f \in Number /\ binds[j].port \in Port
      /\ table[f] \in {Tcp(binds[j].port), Unbound}
  BY <1>1, BindAt DEF Lists, ListTrue
<1> DEFINE At(i) == IF i < j THEN i ELSE i + 1
<1>3. /\ bs \in Seq(BindType) /\ DOMAIN bs = 1..(Len(binds) - 1)
      /\ \A i \in 1..(Len(binds) - 1) : bs[i] = binds[At(i)]
  <2>1. bs \in Seq(BindType) /\ Len(bs) = Len(binds) - 1
    BY <1>1, Removed
  <2>2. \A i \in 1..(Len(binds) - 1) : bs[i] = binds[At(i)]
    BY <1>1, Removed
  <2> QED
    BY <2>1, <2>2
<1>4. ASSUME NEW i \in DOMAIN bs
      PROVE  At(i) \in DOMAIN binds /\ At(i) # j /\ bs[i] = binds[At(i)]
  BY <1>1, <1>3
<1>5. \A i, k \in DOMAIN bs : At(i) = At(k) => i = k
  BY <1>1, <1>3
<1>8. ASSUME NEW k \in DOMAIN binds, k # j
      PROVE  \E i \in DOMAIN bs : At(i) = k
  <2>1. CASE k < j
    <3> k \in DOMAIN bs /\ At(k) = k
      BY <1>1, <1>3, <2>1
    <3> QED
      OBVIOUS
  <2>2. CASE ~(k < j)
    <3> k - 1 \in DOMAIN bs /\ At(k - 1) = k
      BY <1>1, <1>3, <1>8, <2>2
    <3> QED
      OBVIOUS
  <2> QED
    BY <2>1, <2>2
<1> HIDE DEF At
<1>6. Distinct(bs)
  BY <1>4, <1>5 DEF Lists, Distinct
<1>7. ASSUME NEW i \in DOMAIN bs
      PROVE  ListTrue(t, bs[i])
  <2> DEFINE b == binds[At(i)]
  <2>1. /\ b \in BindType /\ ListTrue(table, b) /\ b.fd # f /\ b.port # binds[j].port
        /\ b.port \in Port
    BY <1>1, <1>4, BindAt DEF Lists, Distinct
  <2> HIDE DEF b
  <2>2. table[f] # Tcp(b.port) /\ table[f] # Com(b.port) /\ \A r \in Requester : table[f] # Conn(r)
    BY <1>2, <2>1 DEF Tcp, Com, Conn, Unbound
  <2>3. f \notin b.fds
    <3> \A c \in Client : table[f] # Session(c)
      BY <1>2 DEF Tcp, Session, Unbound
    <3> QED
      BY <2>1 DEF ListTrue, Sessions
  <2>4. b.fds = b.fds \ {f}
    BY <2>3
  <2>5. ListTrue(t, b)
    BY <1>1, <1>2, <2>1, <2>2, <2>4, ClosedTrue
  <2> QED
    BY <1>4, <2>5 DEF b
<1>9. \A k \in DOMAIN binds : k # j => \E i \in DOMAIN bs : bs[i] = binds[k]
  BY <1>4, <1>8
<1> QED
  BY <1>3, <1>4, <1>6, <1>7, <1>9 DEF Lists

(* The two views stay the same when the application closes a number.        *)
LEMMA ClosedLists ==
    ASSUME PortsInv, NEW f \in Number, Close(f)
    PROVE  /\ Lists(table', binds') /\ binds' \in Seq(BindType)
           /\ \A i \in DOMAIN binds' : \E k \in DOMAIN binds :
                 /\ binds'[i].fd = binds[k].fd /\ binds'[i].port = binds[k].port
                 /\ binds'[i].monitoring = binds[k].monitoring
           /\ \A k \in DOMAIN binds : binds[k].fd # f =>
                 \E i \in DOMAIN binds' : binds'[i].fd = binds[k].fd
<1>1. /\ pc = "user" /\ table \in Table /\ binds \in Seq(BindType) /\ TypeOK
      /\ report \in ReportType /\ IsFiniteSet(interest) /\ SocketsTrue /\ Lists(table, binds)
  BY DEF Close, PortsInv, TypeOK, Table
<1>2. /\ f \in Owned /\ (f \in BoundFds => live)
      /\ binds' = BindsWithout(f) /\ sockets' = sockets \ {f}
      /\ table' = [table EXCEPT ![f] = None] /\ revents' = revents \ {f}
      /\ report' = [report EXCEPT !.fds = @ \ {f}]
      /\ client' = [c \in Client |-> IF table[f] = Session(c) THEN "gone" ELSE client[c]]
      /\ UNCHANGED <<environment, pc, live, interest, status, request, gave>>
  BY DEF Close
<1>3. table' \in Table /\ \A n \in Number : table'[n] = IF n = f THEN None ELSE table[n]
  BY <1>1, <1>2 DEF Table
<1>4. CASE f \in BoundFds
  <2>1. f \notin sockets
    BY <1>1, <1>4 DEF SocketsTrue
  <2>2. BoundAt(f) \in DOMAIN binds /\ binds[BoundAt(f)].fd = f /\ BoundAt(f) > 0
    BY <1>1, <1>4, Searches DEF BoundFds
  <2>3. binds' = RemoveAt(binds, BoundAt(f))
    BY <1>2, <2>1, <2>2 DEF BindsWithout
  <2>4. PICK j \in DOMAIN binds : binds[j].fd = f /\ binds' = RemoveAt(binds, j)
    BY <2>2, <2>3, Zenon
  <2>5. PICK t, bs : t = table' /\ bs = binds'
    OBVIOUS
  <2>6. t = [table EXCEPT ![f] = None] /\ bs = RemoveAt(binds, j)
    BY <1>2, <2>4, <2>5
  <2>7. TypeOK /\ Lists(table, binds)
    BY <1>1
  <2>8. Lists(t, bs)
    BY <2>4, <2>6, <2>7, DroppedTrue
  <2>9. bs \in Seq(BindType)
    BY <2>4, <2>6, <2>7, DroppedTrue
  <2>10. \A i \in DOMAIN bs : \E k \in DOMAIN binds : bs[i] = binds[k]
    BY <2>4, <2>6, <2>7, DroppedTrue
  <2>11. \A k \in DOMAIN binds : k # j => \E i \in DOMAIN bs : bs[i] = binds[k]
    BY <2>4, <2>6, <2>7, DroppedTrue
  <2>12. \A k \in DOMAIN binds : binds[k].fd # f => \E i \in DOMAIN bs : bs[i].fd = binds[k].fd
    BY <2>4, <2>11
  <2> QED
    BY <2>5, <2>8, <2>9, <2>10, <2>12
<1>5. CASE f \notin BoundFds
  <2>1. /\ table[f] # None
        /\ \A p \in Port : table[f] # Tcp(p) /\ table[f] # Com(p)
        /\ \A r \in Requester : table[f] # Conn(r)
    <3>1. table[f] = Unbound \/ table[f] = File \/ \E c \in Client : table[f] = Session(c)
      BY <1>1, <1>2, <1>5 DEF Owned, Awaited, Own, SocketsTrue
    <3>2. Unbound # None /\ File # None /\ \A c \in Client : Session(c) # None
      BY PassingApart DEF Passing
    <3> QED
      BY <3>1, <3>2 DEF Tcp, Com, Conn, Session, File, Unbound
  <2>2. BoundAt(f) = 0 \/ ~(BoundAt(f) > 0)
    BY <1>1, <1>5, Searches DEF BoundFds
  <2>3. ASSUME NEW i \in DOMAIN binds
        PROVE  /\ binds[i] \in BindType /\ ListTrue(table, binds[i]) /\ binds[i].port \in Port
               /\ ~(binds[i].comfd = f /\ binds[i].monitoring)
               /\ f \notin ToSet(binds[i].comfds)
               /\ f # binds[i].fd
               /\ f \in binds[i].fds =>
                     \E c \in Client : table[f] = Session(c) /\ door[c] = binds[i].port
    <3>1. binds[i] \in BindType /\ ListTrue(table, binds[i]) /\ binds[i].port \in Port
      BY <1>1, BindAt DEF Lists
    <3>2. f # binds[i].fd
      BY <1>5 DEF BoundFds
    <3> QED
      BY <2>1, <3>1, <3>2 DEF ListTrue, Sessions, Peers
  <2>4. ~(MonitorAt(f) > 0) /\ ~(InternalAt(f) > 0)
    BY <1>1, <2>3, Searches
  <2> DEFINE j == SessionAt(f)
  <2>5. IF f \notin sockets /\ j > 0 THEN binds' = [binds EXCEPT ![j].fds = @ \ {f}]
        ELSE binds' = binds
    BY <1>2, <2>2, <2>4 DEF BindsWithout
  <2>6. IF j > 0 THEN j \in DOMAIN binds /\ f \in binds[j].fds
        ELSE \A i \in DOMAIN binds : f \notin binds[i].fds
    BY <1>1, Searches
  <2>7. f \in sockets => \A i \in DOMAIN binds : f \notin binds[i].fds
    <3> \A c \in Client : Session(c) # Unbound
      BY DEF Session, Unbound
    <3> QED
      BY <1>1, <2>3 DEF SocketsTrue
  <2>8. \A i \in DOMAIN binds : j > 0 /\ i # j => f \notin binds[i].fds
    <3> SUFFICES ASSUME NEW i \in DOMAIN binds, j > 0, i # j, f \in binds[i].fds
                 PROVE  FALSE
      OBVIOUS
    <3>1. PICK c \in Client : table[f] = Session(c) /\ door[c] = binds[i].port
      BY <2>3
    <3>2. PICK e \in Client : table[f] = Session(e) /\ door[e] = binds[j].port
      BY <2>3, <2>6
    <3>3. c = e
      BY <3>1, <3>2 DEF Session
    <3> QED
      BY <1>1, <2>6, <3>1, <3>2, <3>3 DEF Lists, Distinct
  <2> HIDE DEF j
  <2>9. ASSUME NEW i \in DOMAIN binds
        PROVE  /\ binds'[i] \in BindType
               /\ binds'[i].port = binds[i].port /\ binds'[i].fd = binds[i].fd
               /\ binds'[i].shadowfd = binds[i].shadowfd /\ binds'[i].comfd = binds[i].comfd
               /\ binds'[i].comfds = binds[i].comfds /\ binds'[i].version = binds[i].version
               /\ binds'[i].monitoring = binds[i].monitoring
               /\ binds'[i].fds = binds[i].fds \ {f}
    <3>1. binds[i] \in BindType
      BY <2>3
    <3>2. CASE f \notin sockets /\ j > 0 /\ i = j
      <4>1. binds'[i] = [binds[i] EXCEPT !.fds = binds[i].fds \ {f}]
        BY <2>5, <3>2
      <4> QED
        BY <3>1, <4>1 DEF BindType
    <3>3. CASE ~(f \notin sockets /\ j > 0 /\ i = j)
      <4>1. binds'[i] = binds[i]
        BY <2>5, <3>3
      <4>2. binds[i].fds = binds[i].fds \ {f}
        BY <2>6, <2>7, <2>8, <3>3
      <4> QED
        BY <3>1, <4>1, <4>2
    <3> QED
      BY <3>2, <3>3
  <2>10. binds' \in Seq(BindType) /\ DOMAIN binds' = DOMAIN binds
    <3>1. DOMAIN binds = 1..Len(binds) /\ Len(binds) \in Nat /\ DOMAIN binds' = DOMAIN binds
      BY <1>1, <2>5
    <3>2. binds' = [i \in 1..Len(binds) |-> binds'[i]]
      BY <1>1, <2>5, <3>1
    <3>3. binds' \in [1..Len(binds) -> BindType]
      BY <2>9, <3>1, <3>2
    <3> QED
      BY <3>1, <3>3
  <2>11. ASSUME NEW i \in DOMAIN binds
         PROVE  ListTrue(table', binds'[i])
    <3> DEFINE b == binds[i]
               d == binds'[i]
    <3>1. /\ b \in BindType /\ ListTrue(table, b) /\ f # b.fd
          /\ table[f] # Tcp(b.port) /\ table[f] # Com(b.port)
          /\ \A r \in Requester : table[f] # Conn(r)
      BY <2>1, <2>3
    <3>2. /\ d \in BindType /\ d.port = b.port /\ d.fd = b.fd /\ d.shadowfd = b.shadowfd
          /\ d.comfd = b.comfd /\ d.comfds = b.comfds /\ d.monitoring = b.monitoring
          /\ d.version = b.version /\ d.fds = b.fds \ {f}
      BY <2>9
    <3> HIDE DEF b, d
    <3>3. ListTrue(table', d)
      BY <1>1, <1>2, <3>1, <3>2, ClosedTrue
    <3> QED
      BY <3>3 DEF d
  <2>12. Distinct(binds')
    BY <1>1, <2>9, <2>10 DEF Lists, Distinct
  <2> QED
    BY <2>9, <2>10, <2>11, <2>12 DEF Lists
<1> QED
  BY <1>4, <1>5

LEMMA ClosePreserves ==
    ASSUME PortsInv, NEW f \in Number, Close(f)
    PROVE  PortsInv'
<1>1. /\ pc = "user" /\ table \in Table /\ binds \in Seq(BindType) /\ TypeOK
      /\ report \in ReportType /\ IsFiniteSet(interest) /\ SocketsTrue /\ Lists(table, binds)
  BY DEF Close, PortsInv, TypeOK, Table
<1>2. /\ f \in Owned /\ (f \in BoundFds => live)
      /\ binds' = BindsWithout(f) /\ sockets' = sockets \ {f}
      /\ table' = [table EXCEPT ![f] = None] /\ revents' = revents \ {f}
      /\ report' = [report EXCEPT !.fds = @ \ {f}]
      /\ client' = [c \in Client |-> IF table[f] = Session(c) THEN "gone" ELSE client[c]]
      /\ UNCHANGED <<environment, pc, live, interest, status, request, gave>>
  BY DEF Close
<1>3. table' \in Table /\ \A n \in Number : table'[n] = IF n = f THEN None ELSE table[n]
  BY <1>1, <1>2 DEF Table
<1>4. /\ Lists(table', binds') /\ binds' \in Seq(BindType)
      /\ \A i \in DOMAIN binds' : \E k \in DOMAIN binds :
            binds'[i].fd = binds[k].fd /\ binds'[i].monitoring = binds[k].monitoring
  BY ClosedLists
<1>5. SocketsTrue'
  <2> SUFFICES ASSUME NEW g \in sockets, g # f
               PROVE  table'[g] = Unbound /\ \A i \in DOMAIN binds' : binds'[i].fd # g
    BY <1>2 DEF SocketsTrue, BoundFds
  <2> table[g] = Unbound /\ g \in Number /\ \A k \in DOMAIN binds : binds[k].fd # g
    BY <1>1 DEF SocketsTrue, BoundFds, TypeOK
  <2> QED
    BY <1>3, <1>4
<1>6. report' \in ReportType /\ (report = NoReport => report' = NoReport)
  <2>1. report = [fds |-> report.fds, count |-> report.count, ready |-> report.ready]
    BY <1>1 DEF ReportType
  <2>2. report' = [fds |-> report.fds \ {f}, count |-> report.count, ready |-> report.ready]
    BY <1>2, <2>1
  <2>3. report' \in ReportType
    BY <1>1, <2>2 DEF ReportType
  <2>4. report = NoReport => report.fds \ {f} = {} /\ report.count = 0 /\ report.ready = {}
    BY DEF NoReport
  <2> QED
    BY <2>2, <2>3, <2>4 DEF NoReport
<1>7. ~live' => Starting'
  <2> SUFFICES ASSUME ~live
               PROVE  Starting'
    BY <1>2
  <2>1. Starting
    BY DEF PortsInv
  <2>2. /\ \A r \in Requester : Conn(r) # None
        /\ \A c \in Client : Session(c) # None
    BY Kinds, PassingApart DEF Passing
  <2>3. \A i \in DOMAIN binds' : binds'[i].monitoring
    BY <1>4, <2>1 DEF Starting
  <2>4. \A n \in Number : /\ \A c \in Client : table'[n] # Session(c)
                          /\ \A r \in Requester : table'[n] # Conn(r)
    BY <1>3, <2>1, <2>2 DEF Starting
  <2> QED
    BY <1>2, <1>6, <2>1, <2>3, <2>4 DEF Starting
<1>8. TypeOK'
  <2>1. client' \in [Client -> {"away", "queued", "open", "over", "gone"}]
    BY <1>1, <1>2 DEF TypeOK
  <2>2. /\ report'.fds \subseteq Number \cup {-1} /\ report'.count \in Int
        /\ report'.ready \subseteq Number
    BY <1>6 DEF ReportType
  <2> QED
    BY <1>1, <1>2, <1>3, <1>4, <2>1, <2>2 DEF TypeOK, environment, Table
<1> QED
  BY <1>1, <1>2, <1>4, <1>5, <1>6, <1>7, <1>8, ListsNext DEF PortsInv

LEMMA PortsPreserved == PortsInv /\ [Next]_vars => PortsInv'
<1> SUFFICES ASSUME PortsInv, [Next]_vars
             PROVE  PortsInv'
  OBVIOUS
<1>1. CASE Setup
  BY <1>1, OpenSocketPreserves, OpenFilePreserves, BindPreserves DEF Setup
<1>2. CASE Serve
  BY <1>2, AcceptPreserves, ClosePreserves DEF Serve
<1>3. CASE Call
  BY <1>3, EventCallPreserves, DetectPreserves, TerminatePreserves DEF Call
<1>4. CASE Return
  BY <1>4, WakePreserves, TimeoutPreserves DEF Return
<1>5. CASE Clients \/ Requesters \/ (\E p \in Port : Supersede(p)) \/ UNCHANGED vars
  BY <1>5, OthersPreserve
<1> QED
  BY <1>1, <1>2, <1>3, <1>4, <1>5 DEF Next

-----------------------------------------------------------------------------
(* What holds in every run.                                                 *)

LEMMA PortsInvHolds == Spec => []PortsInv
BY InitialPorts, PortsPreserved, PTL DEF Spec

(* The state of the process is always of its type: numbers that the library *)
(* remembers are numbers of the process, and the kernel's table, the two    *)
(* lists and the shared memory keep their form (state.h:32-66).             *)
THEOREM PortsTypeCorrect == Spec => []TypeOK
<1>1. PortsInv => TypeOK
  BY DEF PortsInv
<1> QED
  BY <1>1, PortsInvHolds, PTL

(* Whatever the numbers that the kernel hands out again, the lists of a     *)
(* bound socket are exact (state.c:70-194, core.c:752-861): its shadow is   *)
(* the port's socket, its listener is open while it is monitored, and the   *)
(* two lists name the open connections of the port and nothing else.        *)
THEOREM ListsTrueHolds == Spec => []ListsTrue
BY ListsMeant, PortsInvHolds, PTL

(* The process exits (core.c:108-194) only when every port that it still    *)
(* has is served by a newer version and no session of such a port is open.  *)
THEOREM EndsDoneHolds == Spec => EndsDone
<1> DEFINE Finish == /\ pc' = "gone" /\ pc # "gone" => \A i \in DOMAIN binds :
                           /\ Superseded(binds[i].port)
                           /\ \A c \in Client : door[c] = binds[i].port => ~IsOpen(Session(c))
<1>1. PortsInv /\ [Next]_vars => [Finish]_vars
  <2> SUFFICES ASSUME PortsInv, Next, pc' = "gone", pc # "gone", NEW i \in DOMAIN binds
               PROVE  /\ Superseded(binds[i].port)
                      /\ \A c \in Client : door[c] = binds[i].port => ~IsOpen(Session(c))
    OBVIOUS
  <2>1. Terminate
    <3>1. ~Setup /\ ~Serve
      BY DEF Setup, Serve, OpenSocket, OpenFile, Bind, Accept, Close, process
    <3>2. ~EventCall /\ ~Detect /\ ~Return
      BY DEF EventCall, Detect, Return, Wake, Timeout
    <3>3. ~Clients /\ ~Requesters
      BY DEF Clients, Requesters, Connect, Leave, Elsewhere, Request, Send, Hangup, others, process
    <3>4. \A p \in Port : ~Supersede(p)
      BY DEF Supersede, others, process
    <3> QED
      BY <3>1, <3>2, <3>3, <3>4 DEF Next, Call
  <2>2. ~Needed(binds[i])
    BY <2>1 DEF Terminate
  <2>3. ListTrue(table, binds[i]) /\ binds[i].port \in Port /\ status \in [Port -> 0..2]
    BY <2>1, BindAt DEF PortsInv, TypeOK, Terminate, Lists
  <2>4. Superseded(binds[i].port)
    <3> binds[i].version = Version(binds[i].port) /\ Version(binds[i].port) \in {0, 1}
      BY <2>3 DEF ListTrue, Version
    <3> ~(binds[i].version >= status[binds[i].port])
      BY <2>2 DEF Needed
    <3> QED
      BY <2>3 DEF Superseded
  <2>5. Sessions(table, binds[i].port) = {}
    BY <2>2, <2>3 DEF Needed, ListTrue
  <2>6. \A c \in Client : door[c] = binds[i].port => ~IsOpen(Session(c))
    BY <2>5 DEF Sessions, IsOpen
  <2> QED
    BY <2>4, <2>6
<1> QED
  BY <1>1, PortsInvHolds, PTL DEF Spec, EndsDone

-----------------------------------------------------------------------------
(* Who is handed what.  A version leaves a port to a newer one only after it *)
(* has answered it; if no other process asks for the port, nobody waits any *)
(* more for an answer that the numbers of a closed listener would give.     *)
AskedOnce == \A a \in Asks : \A q, r \in Requester : a[q] = a[r] => q = r

HandedInv ==
    /\ Handed(request, gave, binds)
    /\ \A p \in Port : Superseded(p) => \E r \in Requester : asks[r] = p /\ request[r] \in Finished

LEMMA InitialHanded == Init => HandedInv
<1> SUFFICES ASSUME Init
             PROVE  HandedInv
  OBVIOUS
<1>1. Handed(request, gave, binds)
  BY DEF Init, Handed
<1>2. \A p \in Port : ~Superseded(p)
  BY DEF Init, Superseded, Version
<1> QED
  BY <1>1, <1>2 DEF HandedInv

(* A step that answers nobody, takes no answer back and leaves no port.     *)
LEMMA HandedOn ==
    ASSUME HandedInv, UNCHANGED <<asks, status, gave>>, Lasting(request, request'),
           \A i \in DOMAIN binds' : binds'[i].monitoring \/ \E k \in DOMAIN binds :
                 /\ binds'[i].port = binds[k].port
                 /\ binds'[i].monitoring = binds[k].monitoring
    PROVE  HandedInv'
<1>1. ASSUME NEW r \in Requester
      PROVE  /\ gave'[r] \subseteq {Tcp(asks'[r]), Com(asks'[r])}
             /\ gave'[r] # {} => request'[r] \in Finished
  BY DEF HandedInv, Handed, Lasting
<1>2. ASSUME NEW i \in DOMAIN binds', NEW r \in Requester,
             ~binds'[i].monitoring, asks'[r] = binds'[i].port
      PROVE  request'[r] \in Finished
  <2>1. PICK k \in DOMAIN binds : /\ binds'[i].port = binds[k].port
                                  /\ binds'[i].monitoring = binds[k].monitoring
    BY <1>2
  <2>2. request[r] \in Finished
    BY <1>2, <2>1 DEF HandedInv, Handed
  <2> QED
    BY <2>2 DEF Lasting
<1>3. ASSUME NEW p \in Port, Superseded(p)'
      PROVE  \E r \in Requester : asks'[r] = p /\ request'[r] \in Finished
  <2>1. Superseded(p)
    BY <1>3 DEF Superseded
  <2> QED
    BY <2>1 DEF HandedInv, Lasting
<1>4. Handed(request, gave, binds)'
  BY <1>1, <1>2 DEF Handed
<1> QED
  BY <1>3, <1>4 DEF HandedInv

LEMMA HandedPreserved ==
    ASSUME AskedOnce, PortsInv, HandedInv, [Next]_vars
    PROVE  HandedInv'
<1>1. /\ TypeOK /\ binds \in Seq(BindType) /\ asks \in Asks /\ asks \in [Requester -> Port]
      /\ asks' = asks /\ status \in [Port -> 0..2]
      /\ request \in [Requester -> RequestState] /\ gave \in [Requester -> SUBSET Object]
  <2>1. asks' = asks
    <3>1. CASE Setup
      BY <3>1 DEF Setup, OpenSocket, OpenFile, Bind, environment
    <3>2. CASE Serve
      BY <3>2 DEF Serve, Accept, Close, environment
    <3>3. CASE Call \/ Return
      BY <3>3 DEF Call, Return, EventCall, Detect, Terminate, Wake, Timeout, environment
    <3>4. CASE Clients \/ Requesters \/ \E p \in Port : Supersede(p)
      BY <3>4 DEF Clients, Requesters, Connect, Leave, Elsewhere, Request, Send, Hangup,
                  Supersede, others, environment
    <3>5. CASE UNCHANGED vars
      BY <3>5 DEF vars, environment
    <3> QED
      BY <3>1, <3>2, <3>3, <3>4, <3>5 DEF Next
  <2> QED
    BY <2>1, AsksAssumption DEF PortsInv, TypeOK, RequestState
<1> DEFINE Same == \A i \in DOMAIN binds' : binds'[i].monitoring \/ \E k \in DOMAIN binds :
                         /\ binds'[i].port = binds[k].port
                         /\ binds'[i].monitoring = binds[k].monitoring
<1>2. ASSUME UNCHANGED <<status, gave, request>>, Same
      PROVE  HandedInv'
  <2> Lasting(request, request')
    BY <1>2 DEF Lasting
  <2> QED
    BY <1>1, <1>2, HandedOn
<1>3. CASE Setup
  <2>1. UNCHANGED <<status, gave, request>>
    BY <1>3 DEF Setup, OpenSocket, OpenFile, Bind
  <2>2. Same
    <3>1. CASE OpenSocket \/ OpenFile
      BY <3>1 DEF OpenSocket, OpenFile
    <3>2. ASSUME NEW f \in sockets, NEW p \in Port, Bind(f, p)
          PROVE  Same
      <4>1. PICK s, k : binds' = Append(binds, NewBind(p, f, s, k))
        BY <3>2 DEF Bind
      <4> DEFINE new == NewBind(p, f, s, k)
      <4>2. new.monitoring
        BY DEF NewBind
      <4> HIDE DEF new
      <4>3. /\ \A i \in DOMAIN binds' : i \in DOMAIN binds \/ i = Len(binds) + 1
            /\ \A i \in DOMAIN binds : binds'[i] = binds[i]
            /\ binds'[Len(binds) + 1] = new
        BY <1>1, <4>1 DEF new
      <4> QED
        BY <4>2, <4>3
    <3> QED
      BY <1>3, <3>1, <3>2 DEF Setup
  <2> QED
    BY <1>2, <2>1, <2>2
<1>4. CASE Serve
  <2>1. UNCHANGED <<status, gave, request>>
    BY <1>4 DEF Serve, Accept, Close
  <2>2. Same
    <3>1. ASSUME NEW j \in DOMAIN binds, NEW c \in Client, Accept(j, c)
          PROVE  Same
      <4>1. binds' = [binds EXCEPT ![j].fds = @ \cup {Lowest(table)}]
        BY <3>1 DEF Accept
      <4>2. DOMAIN binds' = DOMAIN binds
        BY <4>1
      <4>3. ASSUME NEW i \in DOMAIN binds
            PROVE  binds'[i].port = binds[i].port /\ binds'[i].monitoring = binds[i].monitoring
        <5>1. binds[i] \in BindType
          BY <1>1, BindAt
        <5>2. binds'[i] = IF i = j THEN [binds[i] EXCEPT !.fds = binds[i].fds \cup {Lowest(table)}]
                          ELSE binds[i]
          BY <4>1
        <5> QED
          BY <5>1, <5>2 DEF BindType
      <4> QED
        BY <4>2, <4>3
    <3>2. ASSUME NEW f \in Number, Close(f)
          PROVE  Same
      BY <3>2, ClosedLists
    <3> QED
      BY <1>4, <3>1, <3>2 DEF Serve
  <2> QED
    BY <1>2, <2>1, <2>2
<1>5. CASE Detect \/ Timeout
  <2> UNCHANGED <<status, gave, request, binds>>
    BY <1>5 DEF Detect, Timeout
  <2> QED
    BY <1>2
<1>6. CASE Terminate
  <2>1. /\ UNCHANGED <<status, gave, binds>>
        /\ request' = [r \in Requester |-> IF IsOpen(Conn(r)) THEN "gone" ELSE request[r]]
    BY <1>6 DEF Terminate
  <2>2. Lasting(request, request')
    BY <2>1 DEF Lasting, Finished
  <2> QED
    BY <1>1, <2>1, <2>2, HandedOn
<1>7. CASE Clients \/ UNCHANGED vars
  <2> UNCHANGED <<status, gave, request, binds>>
    BY <1>7 DEF Clients, Connect, Leave, Elsewhere, others, vars
  <2> QED
    BY <1>2
<1>8. CASE Requesters
  <2>1. UNCHANGED <<status, gave, binds>>
    BY <1>8 DEF Requesters, Request, Send, Hangup, others
  <2>2. Lasting(request, request')
    BY <1>1, <1>8 DEF Requesters, Request, Send, Hangup, Lasting, Finished
  <2> QED
    BY <1>1, <2>1, <2>2, HandedOn
<1>9. ASSUME NEW p \in Port, Supersede(p)
      PROVE  HandedInv'
  <2>1. /\ UNCHANGED <<request, gave, binds>>
        /\ status' = [status EXCEPT ![p] = @ + 1]
    BY <1>9 DEF Supersede, others
  <2>2. PICK r \in Requester : {Tcp(p), Com(p)} \subseteq gave[r]
    BY <1>9 DEF Supersede
  <2>3. asks[r] = p /\ request[r] \in Finished
    <3>1. Tcp(p) \in {Tcp(asks[r]), Com(asks[r])} /\ request[r] \in Finished
      BY <2>2 DEF HandedInv, Handed
    <3> QED
      BY <3>1 DEF Tcp, Com
  <2>4. \A q \in Port : Superseded(q)' => q = p \/ Superseded(q)
    BY <1>1, <2>1 DEF Superseded
  <2>5. Handed(request, gave, binds)'
    BY <1>1, <2>1 DEF HandedInv, Handed
  <2> QED
    BY <1>1, <2>1, <2>3, <2>4, <2>5 DEF HandedInv
<1>10. CASE Wake
  <2>1. PICK hot \in Answers,
              ahead \in IF mode.handler = "epoll" THEN SUBSET Conns(binds) ELSE {{}} :
           LET s == Handled(hot, ahead)
           IN binds' = s.binds /\ request' = s.request /\ gave' = s.gave
    BY <1>10 DEF Wake
  <2> DEFINE s == Handled(hot, ahead)
  <2>2. pc # "gone" /\ Lists(table, binds)
    BY <1>10 DEF PortsInv, Wake
  <2>3. hot \in Events
    <3> Watched \in Events /\ hot \subseteq Watched
      BY <2>2, WatchedOpen DEF Answers
    <3> QED
      BY FS_Subset DEF Events
  <2>4. Follows(Before(hot), s)
    BY <1>1, <2>2, <2>3, HandledTrue DEF Tracks
  <2> HIDE DEF s
  <2>5. binds' = s.binds /\ request' = s.request /\ gave' = s.gave /\ status' = status
    BY <1>10, <2>1 DEF Wake, s
  <2>6. Handed(request', gave', binds') /\ Lasting(request, request')
    BY <2>4, <2>5 DEF Follows, Before, HandedInv
  <2>7. Handed(request, gave, binds)'
    BY <1>1, <2>6 DEF Handed
  <2> QED
    BY <1>1, <2>5, <2>6, <2>7 DEF HandedInv, Superseded, Lasting
<1>11. CASE EventCall
  <2>1. /\ binds' = [i \in DOMAIN binds |->
                        [binds[i] EXCEPT !.monitoring = @ /\ ~Quits(binds[i])]]
        /\ status' = [p \in Port |->
                        IF \E i \in DOMAIN binds : binds[i].port = p /\ Publishes(binds[i])
                        THEN status[p] + 1 ELSE status[p]]
        /\ UNCHANGED <<request, gave>>
    BY <1>11 DEF EventCall
  <2>2. \A i \in DOMAIN binds : /\ binds[i].version = Version(binds[i].port)
                                /\ Version(binds[i].port) \in {0, 1} /\ binds[i].port \in Port
    BY <1>1, <1>11, BindAt DEF EventCall, PortsInv, Lists, ListTrue, Version
  <2>3. ASSUME NEW i \in DOMAIN binds
        PROVE  /\ binds'[i].port = binds[i].port
               /\ binds'[i].monitoring = (binds[i].monitoring /\ ~Quits(binds[i]))
    <3>1. binds[i] \in BindType
      BY <1>1, BindAt
    <3>2. binds'[i] = [binds[i] EXCEPT !.monitoring = binds[i].monitoring /\ ~Quits(binds[i])]
      BY <2>1
    <3> QED
      BY <3>1, <3>2 DEF BindType
  <2>4. ASSUME NEW i \in DOMAIN binds, Quits(binds[i]), NEW r \in Requester, asks[r] = binds[i].port
        PROVE  request[r] \in Finished
    <3>1. Superseded(binds[i].port)
      BY <1>1, <2>2, <2>4 DEF Quits, Superseded
    <3>2. PICK q \in Requester : asks[q] = binds[i].port /\ request[q] \in Finished
      BY <2>2, <3>1 DEF HandedInv
    <3> QED
      BY <1>1, <2>4, <3>2 DEF AskedOnce
  <2>5. ASSUME NEW p \in Port, Superseded(p)'
        PROVE  Superseded(p)
    <3>1. CASE \E i \in DOMAIN binds : binds[i].port = p /\ Publishes(binds[i])
      <4>1. PICK i \in DOMAIN binds : binds[i].port = p /\ Publishes(binds[i])
        BY <3>1
      <4>2. Version(p) \in {0, 1} /\ Version(p) > status[p] /\ status[p] \in 0..2
        BY <1>1, <2>2, <4>1 DEF Publishes
      <4>3. status'[p] = status[p] + 1
        BY <2>1, <3>1
      <4>4. ~(status'[p] > Version(p))
        BY <4>2, <4>3
      <4> QED
        BY <2>5, <4>4 DEF Superseded
    <3>2. CASE ~ \E i \in DOMAIN binds : binds[i].port = p /\ Publishes(binds[i])
      BY <1>1, <2>1, <2>5, <3>2 DEF Superseded
    <3> QED
      BY <3>1, <3>2
  <2>6. Handed(request, gave, binds)'
    <3>1. ASSUME NEW i \in DOMAIN binds, NEW r \in Requester,
                 ~binds'[i].monitoring, asks[r] = binds'[i].port
          PROVE  request[r] \in Finished
      BY <2>3, <2>4, <3>1 DEF HandedInv, Handed
    <3>2. DOMAIN binds' = DOMAIN binds
      BY <2>1
    <3> QED
      BY <1>1, <2>1, <3>1, <3>2 DEF HandedInv, Handed
  <2> QED
    BY <1>1, <2>1, <2>5, <2>6 DEF HandedInv
<1> QED
  BY <1>3, <1>4, <1>5, <1>6, <1>7, <1>8, <1>9, <1>10, <1>11 DEF Next, Call, Return

(* Where no two processes ask for one port, every requester is handed the   *)
(* sockets of the port that it asked for, and nothing else (select.c:110-142). *)
(* Without the premise the code is wrong: a later request is answered with  *)
(* what the number of the closed listener has become.                       *)
THEOREM HandedRightHolds ==
    ASSUME AskedOnce
    PROVE  Spec => []HandedRight
<1>1. Init => PortsInv /\ HandedInv
  BY InitialPorts, InitialHanded
<1>2. (PortsInv /\ HandedInv) /\ [Next]_vars => (PortsInv /\ HandedInv)'
  BY PortsPreserved, HandedPreserved
<1>3. HandedInv => HandedRight
  BY DEF HandedInv, Handed, HandedRight
<1> QED
  BY <1>1, <1>2, <1>3, PTL DEF Spec

-----------------------------------------------------------------------------
(* What an event call reports.                                              *)

(* What the library and the application keep from one call to the next:     *)
(* epoll's entries are internal and have not become numbers of a bound      *)
(* socket; revents are of numbers that the application still waits for.     *)
ReportInv ==
    /\ ~live => interest = {} /\ revents = {}
    /\ pc # "gone" =>
          /\ mode.handler = "poll" => revents \subseteq Awaited
          /\ \A e \in interest : /\ e.of \in Inner
                                 /\ \A p \in Port : table[e.fd] # Tcp(p)

LEMMA OwnApart ==
    ASSUME NEW n \in Own
    PROVE  table[n] \notin Inner /\ \A p \in Port : table[n] # Tcp(p)
<1>1. table[n] = File \/ \E c \in Client : table[n] = Session(c)
  BY DEF Own
<1>2. table[n] \notin Passing
  BY <1>1, PassingApart
<1>3. \A p \in Port : table[n] # Tcp(p) /\ table[n] # Com(p)
  BY <1>1 DEF File, Session, Tcp, Com
<1> QED
  BY <1>2, <1>3 DEF Inner

LEMMA BoundApart ==
    /\ \A p \in Port : Tcp(p) \notin Inner
    /\ Unbound \notin Inner
<1>1. \A p, q \in Port : Tcp(p) # Com(q) /\ Unbound # Com(q)
  BY DEF Tcp, Com, Unbound
<1> QED
  BY <1>1, PassingApart DEF Inner

LEMMA SameFields ==
    ASSUME NEW bs \in Seq(BindType), NEW cs, SameBinds(bs, cs), NEW i \in DOMAIN bs
    PROVE  /\ i \in DOMAIN cs
           /\ cs[i].fd = bs[i].fd /\ cs[i].shadowfd = bs[i].shadowfd
           /\ cs[i].comfd = bs[i].comfd /\ cs[i].monitoring = bs[i].monitoring
<1> bs[i] \in BindType /\ cs[i] = [bs[i] EXCEPT !.comfds = cs[i].comfds] /\ DOMAIN cs = DOMAIN bs
  BY BindAt DEF SameBinds
<1> QED
  BY DEF BindType

(* The listener of a monitored port and the connections are internal.       *)
LEMMA InternalNumbers ==
    ASSUME NEW t, NEW bs \in Seq(BindType), Lists(t, bs), NEW n, IsInternalConn(bs, n)
    PROVE  n \in Number /\ t[n] \in Inner
<1>1. CASE \E i \in Monitoring(bs) : bs[i].comfd = n
  <2>1. PICK i \in DOMAIN bs : bs[i].monitoring /\ bs[i].comfd = n
    BY <1>1 DEF Monitoring
  <2>2. n \in Number /\ bs[i].port \in Port /\ t[n] = Com(bs[i].port)
    BY <2>1, BindAt DEF Lists, ListTrue
  <2> QED
    BY <2>2 DEF Inner
<1>2. CASE n \in Conns(bs)
  <2>1. PICK i \in DOMAIN bs : n \in ToSet(bs[i].comfds)
    BY <1>2 DEF Conns
  <2>2. n \in Peers(t, bs[i].port)
    BY <2>1 DEF Lists, ListTrue
  <2> QED
    BY <2>2 DEF Peers, Inner, Passing
<1> QED
  BY <1>1, <1>2 DEF IsInternalConn

(* The translation back to the application's numbers.                       *)
LEMMA OriginalMeans ==
    ASSUME NEW t, NEW bs \in Seq(BindType), Lists(t, bs), NEW n
    PROVE  /\ (\A i \in DOMAIN bs : bs[i].shadowfd # n) => Original(bs, n) = n
           /\ \A i \in DOMAIN bs : bs[i].shadowfd = n => Original(bs, n) = bs[i].fd
<1> DEFINE I == {i \in 1..Len(bs) : bs[i].shadowfd = n}
           j == SelectInSeq(bs, LAMBDA x : x.shadowfd = n)
<1>1. j = IF I # {} THEN Min(I) ELSE 0
  BY DEF SelectInSeq
<1>2. IF j > 0 THEN j \in I ELSE I = {}
  <2> I \in SUBSET (Nat \ {0})
    OBVIOUS
  <2> HIDE DEF I, j
  <2> QED
    BY <1>1, FirstFound
<1>3. j = 0 \/ j > 0
  <2> I \in SUBSET Nat
    OBVIOUS
  <2> HIDE DEF I
  <2> QED
    BY <1>1, LeastIsMin
<1>4. Original(bs, n) = IF j = 0 THEN n ELSE bs[j].fd
  BY DEF Original
<1> HIDE DEF j
<1>5. DOMAIN bs = 1..Len(bs)
  OBVIOUS
<1>6. ASSUME NEW i \in DOMAIN bs, bs[i].shadowfd = n
      PROVE  Original(bs, n) = bs[i].fd
  <2>1. j \in DOMAIN bs /\ bs[j].shadowfd = n /\ j # 0
    BY <1>2, <1>3, <1>5, <1>6
  <2>2. t[n] = Tcp(bs[i].port) /\ t[n] = Tcp(bs[j].port)
    BY <1>6, <2>1 DEF Lists, ListTrue
  <2>3. j = i
    BY <2>1, <2>2 DEF Lists, Distinct, Tcp
  <2> QED
    BY <1>4, <2>1, <2>3
<1>7. ASSUME \A i \in DOMAIN bs : bs[i].shadowfd # n
      PROVE  Original(bs, n) = n
  BY <1>2, <1>3, <1>4, <1>5, <1>7
<1> QED
  BY <1>6, <1>7

Fds(s) == {Original(s.binds, e.fd) : e \in Visible(s)}

(* The entries that the application has asked for.                          *)
Ours == {Entry(n) : n \in Shadows \cup Own}

(* What the kernel watches for the library, and for the application.        *)
LEMMA InternalMeans ==
    ASSUME PortsInv, ReportInv, pc # "gone", NEW e \in Internal
    PROVE  /\ e.fd \in Number /\ e.of \in Inner /\ e.of # None
           /\ \A p \in Port : table[e.fd] # Tcp(p)
           /\ table[e.fd] = e.of \/ e.of[1] = "com"
<1>1. Lists(table, binds) /\ TypeOK /\ e \in [fd : Number, of : Object]
  BY WatchedOpen DEF PortsInv
<1>2. e.fd \in Number /\ e.of # None
  BY <1>1, Kinds
<1>3. CASE e \in {Entry(n) : n \in ToSet(Internals(binds))}
  <2>1. PICK n \in ToSet(Internals(binds)) : e = Entry(n)
    BY <1>3
  <2>2. e.fd = n /\ e.of = table[n]
    BY <2>1 DEF Entry
  <2>3. table[n] \in Inner
    BY <1>1, <2>1, InternalsOpen
  <2>4. \A p \in Port : table[n] # Tcp(p)
    BY <2>3, BoundApart
  <2> QED
    BY <1>2, <2>2, <2>3, <2>4
<1>4. CASE mode.handler = "epoll" /\ e \in Kept
  BY <1>2, <1>4 DEF Kept, ReportInv
<1> QED
  BY <1>3, <1>4 DEF Internal

LEMMA WatchedMeans ==
    ASSUME PortsInv, ReportInv, pc # "gone", NEW e \in Watched
    PROVE  /\ e.fd \in Number
           /\ \/ e = Entry(e.fd) /\ e.fd \in Own
              \/ \E i \in Monitoring(binds) : e = Entry(e.fd) /\ e.fd = binds[i].shadowfd
              \/ /\ e \in Internal /\ e.of \in Inner /\ e.of # None
                 /\ \A p \in Port : table[e.fd] # Tcp(p)
                 /\ table[e.fd] = e.of \/ e.of[1] = "com"
<1>1. CASE e \in Internal
  BY <1>1, InternalMeans
<1>2. CASE e \in {Entry(n) : n \in Shadows \cup Own}
  <2>1. PICK n \in Shadows \cup Own : e = Entry(n)
    BY <1>2
  <2>2. e.fd = n
    BY <2>1 DEF Entry
  <2>3. n \in Number
    BY BindAt DEF PortsInv, TypeOK, Shadows, Monitoring, Own
  <2> QED
    BY <2>1, <2>2, <2>3 DEF Shadows
<1> QED
  BY <1>1, <1>2 DEF Watched

(* The handlers of select() have left no internal bit.                      *)
Cleaned(s) == mode.handler = "select" => s.hot \cap Internal = {}

LEMMA VisibleHot ==
    ASSUME TypeOK, NEW s
    PROVE  /\ mode.handler \in {"select", "poll", "epoll"}
           /\ Visible(s) \subseteq s.hot
<1>1. mode.handler \in {"select", "poll", "epoll"}
  BY ModesAssumption DEF TypeOK
<1> QED
  BY <1>1 DEF Visible

(* What is visible after the handlers is the application's and ready, but   *)
(* for what epoll makes of its own entries.                                 *)
LEMMA VisibleMeans ==
    ASSUME PortsInv, ReportInv, pc # "gone", NEW hot \in SUBSET Watched,
           NEW s, Tracks(Before(hot), s), Cleaned(s), NEW e \in Visible(s),
           NEW m, m = Original(s.binds, e.fd)
    PROVE  /\ ~IsInternalConn(s.binds, m)
           /\ \/ m \in Ready(hot) /\ e \in Ours
              \/ /\ mode.handler = "epoll"
                 /\ \/ m = -1
                    \/ /\ m = e.fd /\ m \in Number
                       /\ \/ e \in Internal /\ e.of[1] = "com" /\ s.table[m] # e.of
                          \/ s.table[m] \in Inner \ {None}
<1>1. /\ Before(hot).table = table /\ Before(hot).binds = binds /\ Before(hot).hot = hot
      /\ s.binds \in Seq(BindType) /\ Lists(s.table, s.binds) /\ SameBut(table, s.table)
      /\ SameBinds(binds, s.binds) /\ Stems(Before(hot), s)
      /\ TypeOK /\ Lists(table, binds) /\ binds \in Seq(BindType)
  BY DEF Before, Tracks, Follows, Traced, WorkType, PortsInv, TypeOK
<1>2. e \in s.hot /\ (e \in hot \/ (mode.handler = "epoll" /\ e.fd = -1))
  <2>1. e \in s.hot
    BY <1>1, VisibleHot
  <2> QED
    BY <1>1, <2>1 DEF Stems
<1>3. \A i \in DOMAIN s.binds : s.binds[i].shadowfd \in Number
  BY <1>1, BindAt
<1>4. CASE e.fd = -1 /\ mode.handler = "epoll"
  <2>1. -1 \notin Number
    BY MaxFdAssumption DEF Number
  <2>2. m = -1
    BY <1>1, <1>3, <1>4, <2>1, OriginalMeans
  <2> QED
    BY <1>1, <1>4, <2>1, <2>2, InternalNumbers
<1> SUFFICES ASSUME ~(e.fd = -1 /\ mode.handler = "epoll")
             PROVE  /\ ~IsInternalConn(s.binds, m)
                    /\ \/ m \in Ready(hot) /\ e \in Ours
                       \/ /\ mode.handler = "epoll" /\ m = e.fd /\ m \in Number
                          /\ \/ e \in Internal /\ e.of[1] = "com" /\ s.table[m] # e.of
                             \/ s.table[m] \in Inner \ {None}
  BY <1>4
<1>5. e \in hot /\ e \in Watched /\ e.fd \in Number
  BY <1>2, WatchedMeans
<1>6. \A n \in Number : table[n] \notin Passing => s.table[n] = table[n]
  BY <1>1 DEF SameBut
<1>7. CASE e = Entry(e.fd) /\ e.fd \in Own
  <2>1. table[e.fd] \notin Inner /\ \A p \in Port : table[e.fd] # Tcp(p)
    BY <1>7, OwnApart
  <2>2. s.table[e.fd] = table[e.fd]
    BY <1>5, <1>6, <2>1 DEF Inner
  <2>3. \A i \in DOMAIN s.binds : s.binds[i].shadowfd # e.fd
    BY <1>1, <2>1, <2>2, BindAt DEF Lists, ListTrue
  <2>4. m = e.fd
    BY <1>1, <2>3, OriginalMeans
  <2>5. m \in Ready(hot) /\ e \in Ours
    BY <1>5, <1>7, <2>4 DEF Ready, Ours
  <2>6. ~IsInternalConn(s.binds, m)
    BY <1>1, <2>1, <2>2, <2>4, InternalNumbers
  <2> QED
    BY <2>5, <2>6
<1>8. CASE \E i \in Monitoring(binds) : e = Entry(e.fd) /\ e.fd = binds[i].shadowfd
  <2>1. PICK i \in DOMAIN binds : binds[i].monitoring /\ e = Entry(e.fd) /\ e.fd = binds[i].shadowfd
    BY <1>8 DEF Monitoring
  <2>2. i \in DOMAIN s.binds /\ s.binds[i].shadowfd = e.fd /\ s.binds[i].fd = binds[i].fd
    BY <1>1, <2>1, SameFields
  <2>3. m = binds[i].fd
    BY <1>1, <2>2, OriginalMeans
  <2>4. m \in Ready(hot) /\ e \in Ours
    BY <1>5, <2>1, <2>3 DEF Ready, Monitoring, Ours, Shadows
  <2>5. s.table[m] \notin Inner
    <3>1. s.binds[i].port \in Port
      BY <1>1, <2>2, BindAt
    <3>2. s.table[m] \in {Tcp(s.binds[i].port), Unbound}
      BY <1>1, <2>2, <2>3 DEF Lists, ListTrue
    <3> QED
      BY <3>1, <3>2, BoundApart
  <2>6. ~IsInternalConn(s.binds, m)
    BY <1>1, <2>5, InternalNumbers
  <2> QED
    BY <2>4, <2>6
<1>9. CASE /\ e \in Internal /\ e.of \in Inner /\ e.of # None
           /\ \A p \in Port : table[e.fd] # Tcp(p)
           /\ table[e.fd] = e.of \/ e.of[1] = "com"
  <2>1. mode.handler = "epoll" /\ ~IsInternalConn(s.binds, e.fd)
    BY <1>1, <1>2, <1>9, VisibleHot DEF Visible, Cleaned
  <2>2. \A p \in Port : s.table[e.fd] # Tcp(p)
    BY <1>1, <1>5, <1>9, PassingApart DEF SameBut
  <2>3. \A i \in DOMAIN s.binds : s.binds[i].shadowfd # e.fd
    BY <1>1, <2>2, BindAt DEF Lists, ListTrue
  <2>4. m = e.fd
    BY <1>1, <2>3, OriginalMeans
  <2>5. CASE table[e.fd] = e.of
    <3>1. s.table[e.fd] \in Inner
      BY <1>1, <1>5, <1>9, <2>5 DEF SameBut, Inner
    <3>2. s.table[e.fd] # None
      BY <1>1, <1>2, <1>5, <1>9, <2>1, <2>5 DEF Stems
    <3> QED
      BY <1>5, <2>1, <2>4, <3>1, <3>2
  <2>6. CASE table[e.fd] # e.of
    <3>1. e.of[1] = "com" /\ e.of \notin Passing
      <4>1. e.of \in Object
        BY <1>1, <1>9, WatchedOpen
      <4>2. \E p \in Port : e.of = Com(p)
        BY <1>9, <2>6, <4>1, Kinds
      <4> QED
        BY <1>9, <2>6, <4>2, PassingApart
    <3>2. s.table[e.fd] # e.of
      BY <1>1, <1>5, <2>6, <3>1 DEF SameBut
    <3> QED
      BY <1>5, <1>9, <2>1, <2>4, <3>1, <3>2
  <2> QED
    BY <2>5, <2>6
<1> QED
  BY <1>5, <1>7, <1>8, <1>9, WatchedMeans

(* What is ready is visible, but for select's number of a closed listener.  *)
LEMMA ReadyMeans ==
    ASSUME PortsInv, ReportInv, pc # "gone", NEW hot \in SUBSET Watched,
           NEW s, Tracks(Before(hot), s), NEW m \in Ready(hot)
    PROVE  /\ m \in Awaited
           /\ \/ m \in Fds(s)
              \/ mode.handler = "select" /\ m \in Stale
<1>1. /\ Before(hot).table = table /\ Before(hot).binds = binds /\ Before(hot).hot = hot
      /\ s.binds \in Seq(BindType) /\ Lists(s.table, s.binds) /\ SameBut(table, s.table)
      /\ SameBinds(binds, s.binds) /\ Remain(Before(hot), s)
      /\ TypeOK /\ Lists(table, binds) /\ binds \in Seq(BindType)
  BY DEF Before, Tracks, Follows, Traced, WorkType, PortsInv, TypeOK
<1>2. Forgotten(binds) = Stale
  BY DEF Forgotten, Stale, Monitoring
<1>3. ASSUME NEW n \in Number, Entry(n) \in s.hot, table[n] \notin Inner
      PROVE  Original(s.binds, n) \in Fds(s)
  <2>1. Entry(n).fd = n /\ Entry(n).of = table[n]
    BY DEF Entry
  <2>2. s.table[n] \notin Inner
    BY <1>1, <1>3 DEF SameBut, Inner
  <2>3. ~IsInternalConn(s.binds, n)
    BY <1>1, <2>2, InternalNumbers
  <2>4. mode.handler # "epoll" => Entry(n) \notin Internal
    <3> SUFFICES ASSUME mode.handler # "epoll", NEW k \in ToSet(Internals(binds)), Entry(n) = Entry(k)
                 PROVE  FALSE
      BY DEF Internal
    <3> Entry(k).of = table[k]
      BY DEF Entry
    <3> table[k] \in Inner
      BY <1>1, InternalsOpen
    <3> QED
      BY <1>3, <2>1
  <2>5. Entry(n) \in Visible(s)
    BY <1>1, <1>3, <2>1, <2>3, <2>4, VisibleHot DEF Visible
  <2> QED
    BY <2>1, <2>5 DEF Fds
<1>4. ASSUME NEW n \in Number, Entry(n) \in hot, table[n] \notin Inner, Entry(n) \notin s.hot
      PROVE  mode.handler = "select" /\ n \in Stale
  <2> Entry(n).fd = n
    BY DEF Entry
  <2> QED
    BY <1>1, <1>2, <1>4 DEF Remain
<1>5. CASE m \in Own /\ Entry(m) \in hot
  <2>1. m \in Number /\ table[m] \notin Inner /\ \A p \in Port : table[m] # Tcp(p)
    BY <1>5, OwnApart DEF Own
  <2>2. s.table[m] = table[m]
    BY <1>1, <2>1 DEF SameBut, Inner
  <2>3. \A i \in DOMAIN s.binds : s.binds[i].shadowfd # m
    BY <1>1, <2>1, <2>2, BindAt DEF Lists, ListTrue
  <2>4. Original(s.binds, m) = m
    BY <1>1, <2>3, OriginalMeans
  <2>5. m \in Awaited
    BY <1>5 DEF Awaited
  <2>6. CASE Entry(m) \in s.hot
    <3> Original(s.binds, m) \in Fds(s)
      BY <1>3, <2>1, <2>6
    <3> QED
      BY <2>4, <2>5
  <2>7. CASE Entry(m) \notin s.hot
    <3> mode.handler = "select" /\ m \in Stale
      BY <1>4, <1>5, <2>1, <2>7
    <3> QED
      BY <2>5
  <2> QED
    BY <2>6, <2>7
<1>6. CASE \E i \in Monitoring(binds) : m = binds[i].fd /\ Entry(binds[i].shadowfd) \in hot
  <2>1. PICK i \in DOMAIN binds : m = binds[i].fd /\ Entry(binds[i].shadowfd) \in hot
    BY <1>6 DEF Monitoring
  <2> DEFINE n == binds[i].shadowfd
  <2>2. n \in Number /\ binds[i].port \in Port /\ table[n] = Tcp(binds[i].port)
    BY <1>1, BindAt DEF Lists, ListTrue
  <2>3. i \in DOMAIN s.binds /\ s.binds[i].shadowfd = n /\ s.binds[i].fd = m
    BY <1>1, <2>1, SameFields
  <2>4. Original(s.binds, n) = m
    BY <1>1, <2>3, OriginalMeans
  <2>5. n \notin Stale
    <3> SUFFICES ASSUME NEW k \in DOMAIN binds, ~binds[k].monitoring, binds[k].comfd = n
                 PROVE  FALSE
      BY DEF Stale, Monitoring
    <3> \A p \in Port : table[binds[k].comfd] # Tcp(p)
      BY <1>1 DEF Lists, ListTrue
    <3> QED
      BY <2>2
  <2>6. table[n] \notin Inner
    BY <2>2, BoundApart
  <2>7. m \in Awaited
    BY <2>1 DEF Awaited, BoundFds
  <2> HIDE DEF n
  <2>8. Entry(n) \in hot
    BY <2>1 DEF n
  <2>9. Entry(n) \in s.hot
    BY <1>4, <2>2, <2>5, <2>6, <2>8
  <2>10. Original(s.binds, n) \in Fds(s)
    BY <1>3, <2>2, <2>6, <2>9
  <2> QED
    BY <2>4, <2>7, <2>10
<1> QED
  BY <1>5, <1>6 DEF Ready

(* What the application waits for is the same after the handlers, and       *)
(* never internal.                                                          *)
LEMMA AwaitedApart ==
    ASSUME PortsInv, pc # "gone", NEW hot, NEW s, Tracks(Before(hot), s),
           NEW n \in Awaited
    PROVE  /\ ~IsInternalConn(s.binds, n)
           /\ n \in Own => s.table[n] = table[n]
           /\ n \in BoundFds => \E i \in DOMAIN s.binds : s.binds[i].fd = n
<1>1. /\ Before(hot).table = table /\ Before(hot).binds = binds
      /\ s.binds \in Seq(BindType) /\ Lists(s.table, s.binds) /\ SameBut(table, s.table)
      /\ SameBinds(binds, s.binds) /\ Lists(table, binds) /\ binds \in Seq(BindType)
  BY DEF Before, Tracks, Follows, WorkType, PortsInv, TypeOK
<1>2. n \in Own => s.table[n] = table[n] /\ table[n] \notin Inner
  BY <1>1, OwnApart DEF SameBut, Inner, Own
<1>3. ASSUME NEW i \in DOMAIN binds, n = binds[i].fd
      PROVE  i \in DOMAIN s.binds /\ s.binds[i].fd = n /\ s.table[n] \notin Inner
  <2>1. i \in DOMAIN s.binds /\ s.binds[i].fd = n
    BY <1>1, <1>3, SameFields
  <2>2. s.table[n] \in {Tcp(s.binds[i].port), Unbound} /\ s.binds[i].port \in Port
    BY <1>1, <2>1, BindAt DEF Lists, ListTrue
  <2> QED
    BY <2>1, <2>2, BoundApart
<1>4. s.table[n] \notin Inner
  BY <1>2, <1>3 DEF Awaited, BoundFds
<1> QED
  BY <1>1, <1>2, <1>3, <1>4, InternalNumbers DEF BoundFds

(* How an event call returns: the handlers' result s of the events hot.     *)
Counted(hot, s) == IF mode.handler = "epoll" THEN Cardinality(Visible(s))
                   ELSE Cardinality(hot) - s.corr

Returned(hot, s) ==
    /\ Tracks(Before(hot), s) /\ s \in WorkType
    /\ \E ahead : s = Handled(hot, ahead) /\ (mode.handler # "epoll" => ahead = {})
    /\ table' = s.table /\ binds' = s.binds
    /\ revents' = IF mode.handler = "poll" THEN revents \cup Fds(s) ELSE {}
    /\ pc' = "user" => /\ report'.fds = Fds(s) \cup revents' /\ report'.ready = Ready(hot)
                       /\ report'.count = Counted(hot, s)

LEMMA WakeReturns ==
    ASSUME PortsInv, Wake
    PROVE  \E hot \in SUBSET Watched : \E s : Returned(hot, s)
<1>1. PICK hot \in Answers, ahead \in Aheads : Woken(hot, Handled(hot, ahead))
  BY Awoken
<1> DEFINE s == Handled(hot, ahead)
<1>2. TypeOK /\ Lists(table, binds) /\ pc # "gone"
  BY DEF PortsInv, Wake
<1>3. hot \subseteq Watched
  BY DEF Answers
<1>4. hot \in Events
  BY <1>2, <1>3, WatchedOpen, FS_Subset DEF Events
<1>5. Tracks(Before(hot), s)
  BY <1>2, <1>4, HandledTrue
<1>6. \E x : s = Handled(hot, x) /\ (mode.handler # "epoll" => x = {})
  <2>1. mode.handler # "epoll" => ahead = {}
    BY DEF Aheads
  <2> QED
    BY <2>1
<1> HIDE DEF s
<1>7. s \in WorkType
  BY <1>5 DEF Tracks, Follows
<1>8. /\ table' = s.table /\ binds' = s.binds
      /\ revents' = IF mode.handler = "poll" THEN revents \cup Fds(s) ELSE {}
      /\ pc' = "user" =>
            report' = [fds |-> Fds(s) \cup revents', count |-> Counted(hot, s),
                       ready |-> Ready(hot)]
  BY <1>1 DEF s, Woken, Fds, Counted
<1>9. Returned(hot, s)
  BY <1>5, <1>7, <1>8, <1>6 DEF Returned
<1> QED
  BY <1>3, <1>9

LEMMA InitialReport == Init => ReportInv
BY DEF Init, ReportInv

(* A step that leaves the waiting and the polled entries alone.             *)
LEMMA ReportKept ==
    ASSUME ReportInv, UNCHANGED <<mode, interest, revents>>, pc # "gone", live => live',
           Awaited \subseteq Awaited',
           \A n, p : table'[n] = Tcp(p) => table[n] = Tcp(p)
    PROVE  ReportInv'
<1>1. ~live' => interest' = {} /\ revents' = {}
  BY DEF ReportInv
<1>2. mode'.handler = "poll" => revents' \subseteq Awaited'
  BY DEF ReportInv
<1>3. \A e \in interest' : e.of \in Inner /\ \A p \in Port : table'[e.fd] # Tcp(p)
  BY DEF ReportInv
<1>4. Inner' = Inner
  BY DEF Inner, Passing
<1> QED
  BY <1>1, <1>2, <1>3, <1>4 DEF ReportInv

LEMMA ReportOpened ==
    ASSUME PortsInv, ReportInv, OpenFile \/ \E i \in DOMAIN binds, c \in Client : Accept(i, c)
    PROVE  ReportInv'
<1> DEFINE n == Lowest(table)
<1>1. /\ pc # "gone" /\ live' = live /\ UNCHANGED <<mode, interest, revents>>
      /\ table \in Table /\ FreeNumbers(table) # {}
  BY DEF OpenFile, Accept, process, environment, PortsInv, TypeOK, Table
<1>2. n \in Number /\ table[n] = None
  BY <1>1, LowestFree
<1>3. \E o : table' = [table EXCEPT ![n] = o] /\ \A p : o # Tcp(p)
  <2>1. \A c, p : Session(c) # Tcp(p)
    BY DEF Session, Tcp
  <2>2. \A p : File # Tcp(p)
    BY DEF File, Tcp
  <2> QED
    BY <2>1, <2>2 DEF OpenFile, Accept, Opened
<1> HIDE DEF n
<1>4. \A m, p : table'[m] = Tcp(p) => table[m] = Tcp(p)
  BY <1>1, <1>3 DEF Table
<1>5. BoundFds' = BoundFds
  <2>1. CASE UNCHANGED binds
    BY <2>1 DEF BoundFds
  <2>2. CASE \E i \in DOMAIN binds : \E N : binds' = [binds EXCEPT ![i].fds = N]
    <3>1. PICK i \in DOMAIN binds : \E N : binds' = [binds EXCEPT ![i] = [binds[i] EXCEPT !.fds = N]]
      BY <2>2
    <3>2. DOMAIN binds' = DOMAIN binds /\ \A j \in DOMAIN binds : binds[j] \in BindType
      BY <3>1, BindAt DEF PortsInv, TypeOK
    <3>3. \A j \in DOMAIN binds : binds'[j].fd = binds[j].fd
      BY <3>1, <3>2 DEF BindType
    <3> QED
      BY <3>2, <3>3 DEF BoundFds
  <2> QED
    BY <2>1, <2>2 DEF OpenFile, Accept
<1>6. Own \subseteq Own'
  <2> SUFFICES ASSUME NEW m \in Own
               PROVE  m \in Own'
    OBVIOUS
  <2>1. table[m] # None
    BY OwnApart DEF Inner, Passing
  <2>2. table'[m] = table[m] /\ m \in Number
    BY <1>1, <1>2, <1>3, <2>1 DEF Table, Own
  <2> QED
    BY <2>2 DEF Own
<1>7. Awaited \subseteq Awaited'
  BY <1>5, <1>6 DEF Awaited
<1> QED
  BY <1>1, <1>4, <1>7, ReportKept

LEMMA ReportClosed ==
    ASSUME PortsInv, ReportInv, NEW f \in Number, Close(f)
    PROVE  ReportInv'
<1>1. /\ pc # "gone" /\ UNCHANGED <<mode, live, interest>> /\ revents' = revents \ {f}
      /\ table \in Table /\ table' = [table EXCEPT ![f] = None]
  BY DEF Close, environment, PortsInv, TypeOK, Table
<1>2. \A n \in Number : table'[n] = IF n = f THEN None ELSE table[n]
  BY <1>1 DEF Table
<1>3. Awaited \ {f} \subseteq Awaited'
  <2> SUFFICES ASSUME NEW n \in Awaited, n # f
               PROVE  n \in Awaited'
    OBVIOUS
  <2>1. CASE n \in BoundFds
    <3>1. PICK k \in DOMAIN binds : binds[k].fd = n
      BY <2>1 DEF BoundFds
    <3>2. \E i \in DOMAIN binds' : binds'[i].fd = binds[k].fd
      BY <3>1, ClosedLists
    <3> QED
      BY <3>1, <3>2 DEF Awaited, BoundFds
  <2>2. CASE n \in Own
    BY <1>2, <2>2 DEF Awaited, Own
  <2> QED
    BY <2>1, <2>2 DEF Awaited
<1>4. \A e \in interest : \A p \in Port : table'[e.fd] # Tcp(p)
  <2>1. \A p \in Port : None # Tcp(p)
    BY PassingApart DEF Passing
  <2>2. \A e \in interest : e.fd \in Number
    BY DEF PortsInv, TypeOK
  <2> QED
    BY <1>1, <1>2, <2>1, <2>2 DEF ReportInv
<1>5. Inner' = Inner
  BY DEF Inner, Passing
<1> QED
  BY <1>1, <1>3, <1>4, <1>5 DEF ReportInv

LEMMA ReportCalled ==
    ASSUME PortsInv, ReportInv, EventCall
    PROVE  ReportInv'
<1> DEFINE left == {binds[i].comfd : i \in {j \in DOMAIN binds : Quits(binds[j])}}
<1>1. /\ pc # "gone" /\ live' /\ UNCHANGED <<mode, interest, revents>>
      /\ Lists(table, binds) /\ binds \in Seq(BindType)
      /\ table' = [n \in Number |-> IF n \in left THEN None ELSE table[n]]
      /\ binds' = [i \in DOMAIN binds |->
                      [binds[i] EXCEPT !.monitoring = @ /\ ~Quits(binds[i])]]
  BY DEF EventCall, environment, PortsInv, TypeOK
<1>2. BoundFds' = BoundFds
  <2>1. DOMAIN binds' = DOMAIN binds
    BY <1>1
  <2>2. ASSUME NEW i \in DOMAIN binds
        PROVE  binds'[i].fd = binds[i].fd
    <3>1. binds[i] \in BindType
      BY <1>1, BindAt
    <3>2. binds'[i] = [binds[i] EXCEPT !.monitoring = binds[i].monitoring /\ ~Quits(binds[i])]
      BY <1>1
    <3> QED
      BY <3>1, <3>2 DEF BindType
  <2> QED
    BY <2>1, <2>2 DEF BoundFds
<1>3. \A n \in left : table[n] \in Inner
  BY <1>1, BindAt DEF Quits, Lists, ListTrue, Inner
<1> HIDE DEF left
<1>4. Own \subseteq Own'
  <2> SUFFICES ASSUME NEW m \in Own
               PROVE  m \in Own'
    OBVIOUS
  <2>1. m \notin left
    BY <1>3, OwnApart
  <2>2. table'[m] = table[m] /\ m \in Number
    BY <1>1, <2>1 DEF Own
  <2> QED
    BY <2>2 DEF Own
<1>5. Awaited \subseteq Awaited'
  BY <1>2, <1>4 DEF Awaited
<1>6. \A e \in interest : \A p \in Port : table'[e.fd] # Tcp(p)
  <2>1. \A p \in Port : None # Tcp(p)
    BY PassingApart DEF Passing
  <2>2. \A e \in interest : e.fd \in Number
    BY DEF PortsInv, TypeOK
  <2> QED
    BY <1>1, <2>1, <2>2 DEF ReportInv
<1>7. Inner' = Inner
  BY DEF Inner, Passing
<1> QED
  BY <1>1, <1>5, <1>6, <1>7 DEF ReportInv

LEMMA ReportReturned ==
    ASSUME PortsInv, ReportInv, Return
    PROVE  ReportInv'
<1>1. /\ pc # "gone" /\ live /\ live' = live /\ UNCHANGED mode
      /\ interest' = IF mode.handler = "epoll" THEN Internal ELSE {}
  BY DEF Return, Wake, Timeout, environment, PortsInv, Starting
<1>2. Inner' = Inner
  BY DEF Inner, Passing
<1>3. CASE Timeout
  <2>1. UNCHANGED <<table, binds, revents>>
    BY <1>3 DEF Timeout
  <2>2. Awaited' = Awaited
    BY <2>1 DEF Awaited, BoundFds, Own
  <2>3. \A e \in interest' : e.of \in Inner /\ \A p \in Port : table'[e.fd] # Tcp(p)
    BY <1>1, <2>1, InternalMeans
  <2> QED
    BY <1>1, <1>2, <2>1, <2>2, <2>3 DEF ReportInv
<1>4. CASE Wake
  <2>1. PICK hot \in SUBSET Watched : \E s : Returned(hot, s)
    BY <1>4, WakeReturns
  <2>2. PICK s : Returned(hot, s)
    BY <2>1
  <2>3. /\ Tracks(Before(hot), s) /\ SameBut(table, s.table)
        /\ table' = s.table /\ binds' = s.binds
        /\ revents' = IF mode.handler = "poll" THEN revents \cup Fds(s) ELSE {}
    BY <2>2 DEF Returned, Before, Tracks, Follows
  <2>4. Awaited \subseteq Awaited'
    <3> SUFFICES ASSUME NEW n \in Awaited
                 PROVE  n \in Awaited'
      OBVIOUS
    <3>1. n \in Own => table'[n] = table[n]
      BY <1>1, <2>3, AwaitedApart
    <3>2. n \in BoundFds => \E i \in DOMAIN binds' : binds'[i].fd = n
      BY <1>1, <2>3, AwaitedApart
    <3> QED
      BY <3>1, <3>2 DEF Awaited, BoundFds, Own
  <2>5. mode.handler = "poll" => Fds(s) \subseteq Awaited
    <3> SUFFICES ASSUME mode.handler = "poll", NEW e \in Visible(s)
                 PROVE  Original(s.binds, e.fd) \in Awaited
      BY DEF Fds
    <3>1. Original(s.binds, e.fd) \in Ready(hot)
      BY <1>1, <2>3, VisibleMeans DEF Cleaned
    <3> QED
      BY <1>1, <2>3, <3>1, ReadyMeans
  <2>6. mode'.handler = "poll" => revents' \subseteq Awaited'
    BY <1>1, <2>3, <2>4, <2>5 DEF ReportInv
  <2>7. ASSUME NEW e \in Internal
        PROVE  e.of \in Inner /\ \A p \in Port : s.table[e.fd] # Tcp(p)
    <3>1. e.fd \in Number /\ e.of \in Inner /\ \A p \in Port : table[e.fd] # Tcp(p)
      BY <1>1, InternalMeans
    <3> QED
      BY <2>3, <3>1, PassingApart DEF SameBut
  <2>8. \A e \in interest' : e.of \in Inner /\ \A p \in Port : table'[e.fd] # Tcp(p)
    BY <1>1, <2>3, <2>7
  <2> QED
    BY <1>1, <1>2, <2>6, <2>8 DEF ReportInv
<1> QED
  BY <1>3, <1>4 DEF Return

LEMMA ReportPreserved == PortsInv /\ ReportInv /\ [Next]_vars => ReportInv'
<1> SUFFICES ASSUME PortsInv, ReportInv, [Next]_vars
             PROVE  ReportInv'
  OBVIOUS
<1>1. CASE OpenSocket \/ \E f \in sockets, p \in Port : Bind(f, p)
  BY <1>1 DEF OpenSocket, Bind, ReportInv, environment
<1>2. CASE OpenFile \/ \E i \in DOMAIN binds, c \in Client : Accept(i, c)
  BY <1>2, ReportOpened
<1>3. CASE \E f \in Number : Close(f)
  BY <1>3, ReportClosed
<1>4. CASE EventCall
  BY <1>4, ReportCalled
<1>5. CASE Terminate
  BY <1>5 DEF Terminate, ReportInv
<1>6. CASE Return
  BY <1>6, ReportReturned
<1>7. CASE Detect \/ Clients \/ Requesters \/ (\E p \in Port : Supersede(p)) \/ UNCHANGED vars
  <2>1. UNCHANGED <<mode, live, interest, revents, table, binds>> /\ (pc' = "gone" => pc = "gone")
    <3>1. CASE Detect
      BY <3>1 DEF Detect, environment
    <3>2. CASE Clients
      BY <3>2 DEF Clients, Connect, Leave, Elsewhere, others, environment, process
    <3>3. CASE Requesters
      BY <3>3 DEF Requesters, Request, Send, Hangup, others, environment, process
    <3>4. CASE \E p \in Port : Supersede(p)
      BY <3>4 DEF Supersede, others, environment, process
    <3>5. CASE UNCHANGED vars
      BY <3>5 DEF vars, environment, process
    <3> QED
      BY <1>7, <3>1, <3>2, <3>3, <3>4, <3>5
  <2>2. Awaited' = Awaited /\ Inner' = Inner
    BY <2>1 DEF Awaited, BoundFds, Own, Inner, Passing
  <2>3. pc' # "gone" => pc # "gone"
    BY <1>7 DEF Detect, Clients, Requesters, Connect, Leave, Elsewhere, Request, Send,
                Hangup, Supersede, others, process, vars
  <2> QED
    BY <2>1, <2>2, <2>3 DEF ReportInv
<1> QED
  BY <1>1, <1>2, <1>3, <1>4, <1>5, <1>6, <1>7 DEF Next, Setup, Serve, Call

(* Only the two returns leave the wait.                                     *)
LEMMA WaitLeft ==
    ASSUME Next, Returns
    PROVE  Wake \/ Timeout
<1>1. pc = "wait" /\ pc' = "user"
  BY DEF Returns
<1>2. ~Setup /\ ~Serve /\ ~Call
  BY <1>1 DEF Setup, OpenSocket, OpenFile, Bind, Serve, Accept, Close, Call, EventCall,
              Detect, Terminate
<1>3. ~Clients /\ ~Requesters /\ ~(\E p \in Port : Supersede(p))
  BY <1>1 DEF Clients, Connect, Leave, Elsewhere, Requesters, Request, Send, Hangup,
              Supersede, others, process
<1> QED
  BY <1>2, <1>3 DEF Next, Return

(* What the events of a call are to the application when it returns.        *)
LEMMA ReturnedRight ==
    ASSUME PortsInv, ReportInv, pc # "gone", pc' = "user", UNCHANGED mode,
           interest' = IF mode.handler = "epoll" THEN Internal ELSE {},
           NEW hot \in SUBSET Watched, NEW s, Returned(hot, s), Cleaned(s),
           NEW x \in report'.fds
    PROVE  /\ ~IsInternalConn(binds', x)
           /\ x \notin report'.ready =>
                 \/ mode.handler = "poll" /\ x \in revents \cap Awaited
                 \/ mode.handler = "epoll" /\ x \in {-1} \cup Ghosts' \cup Orphans'
<1>1. /\ Tracks(Before(hot), s) /\ table' = s.table /\ binds' = s.binds
      /\ revents' = IF mode.handler = "poll" THEN revents \cup Fds(s) ELSE {}
      /\ report'.fds = Fds(s) \cup revents' /\ report'.ready = Ready(hot)
  BY DEF Returned
<1>2. CASE x \in Fds(s)
  <2>1. PICK e \in Visible(s) : x = Original(s.binds, e.fd)
    BY <1>2 DEF Fds
  <2>2. ~IsInternalConn(s.binds, x)
    BY <1>1, <2>1, VisibleMeans
  <2>3. \/ x \in Ready(hot)
        \/ /\ mode.handler = "epoll"
           /\ \/ x = -1
              \/ /\ x = e.fd /\ x \in Number
                 /\ \/ e \in Internal /\ e.of[1] = "com" /\ s.table[x] # e.of
                    \/ s.table[x] \in Inner \ {None}
    BY <1>1, <2>1, VisibleMeans
  <2>4. ASSUME mode.handler = "epoll", x = e.fd, e \in Internal, e.of[1] = "com", s.table[x] # e.of
        PROVE  x \in Ghosts'
    <3> e \in interest' /\ table'[e.fd] # e.of
      BY <1>1, <2>4
    <3> QED
      BY <2>4 DEF Ghosts
  <2>5. ASSUME x \in Number, s.table[x] \in Inner \ {None}
        PROVE  x \in Orphans'
    <3>1. table'[x] \in {Com(p) : p \in Port} \cup {Conn(r) : r \in Requester}
      BY <1>1, <2>5 DEF Inner, Passing
    <3>2. ~IsInternalConn(binds', x)
      BY <1>1, <2>2
    <3> QED
      BY <2>5, <3>1, <3>2 DEF Orphans
  <2> QED
    BY <1>1, <2>2, <2>3, <2>4, <2>5
<1>3. CASE x \in revents /\ mode.handler = "poll"
  <2>1. x \in Awaited
    BY <1>3 DEF ReportInv
  <2>2. ~IsInternalConn(s.binds, x)
    BY <1>1, <2>1, AwaitedApart
  <2> QED
    BY <1>1, <1>3, <2>1, <2>2
<1> QED
  BY <1>1, <1>2, <1>3

(* It reports everything that is ready, but select for what has the number  *)
(* of a listener that it closed (select.c:59).                              *)
THEOREM NothingMissedHolds == Spec => NothingMissed
<1> DEFINE Right == Returns => Missed' \subseteq (IF mode.handler = "select" THEN Stale ELSE {})
<1>1. PortsInv /\ ReportInv /\ [Next]_vars => [Right]_vars
  <2> SUFFICES ASSUME PortsInv, ReportInv, Next, Returns
               PROVE  Right
    BY DEF Returns
  <2>1. CASE Timeout
    BY <2>1 DEF Timeout, NoReport, Missed
  <2>2. CASE Wake
    <3>1. PICK hot \in SUBSET Watched : \E s : Returned(hot, s)
      BY <2>2, WakeReturns
    <3>2. PICK s : Returned(hot, s)
      BY <3>1
    <3>3. pc # "gone" /\ pc' = "user"
      BY <2>2 DEF Wake, Returns
    <3>4. /\ Tracks(Before(hot), s) /\ report'.ready = Ready(hot) /\ Fds(s) \subseteq report'.fds
      BY <3>2, <3>3 DEF Returned
    <3>5. ASSUME NEW m \in Ready(hot)
          PROVE  m \in report'.fds \/ (mode.handler = "select" /\ m \in Stale)
      BY <3>3, <3>4, ReadyMeans
    <3> QED
      BY <3>4, <3>5 DEF Missed
  <2> QED
    BY <2>1, <2>2, WaitLeft
<1>2. Init => ReportInv
  BY InitialReport
<1> QED
  BY <1>1, <1>2, ReportPreserved, PortsInvHolds, PTL DEF Spec, NothingMissed

-----------------------------------------------------------------------------
(* How many descriptors an event call counts.                               *)

LEMMA UpTo ==
    ASSUME NEW N \in Nat, NEW S, 0 \in S, \A k \in 1..N : k - 1 \in S => k \in S
    PROVE  0..N \subseteq S
<1> DEFINE f == [k \in 0..N |-> k]
<1>1. f[0] \in S /\ \A k \in 1..N : f[k - 1] \in S => f[k] \in S
  OBVIOUS
<1> HIDE DEF f
<1>2. \A k \in 0..N : f[k] \in S
  BY <1>1, Persists
<1> QED
  BY <1>2 DEF f

LEMMA SameCount ==
    ASSUME NEW S, IsFiniteSet(S), NEW f, DOMAIN f = S,
           \A x, y \in S : f[x] = f[y] => x = y
    PROVE  Cardinality({f[x] : x \in S}) = Cardinality(S)
<1> DEFINE T == {f[x] : x \in S}
           h == [x \in S |-> f[x]]
<1>1. h \in Bijection(S, T)
  BY DEF Bijection, Injection, Surjection, IsInjective
<1>2. ExistsBijection(S, T)
  BY <1>1 DEF ExistsBijection
<1> HIDE DEF T
<1>3. Cardinality(T) = Cardinality(S)
  BY <1>2, FS_Bijection
<1> QED
  BY <1>3 DEF T

(* The events of select() and poll() have different numbers.                *)
Single(h) == \A d, e \in h : d.fd = e.fd => d = e

(* A list loses a number only when its own event is handled.                *)
Keeps(s, u, i, n) ==
    \A m \in ToSet(s.binds[i].comfds) :
        m # n \/ n = s.binds[i].comfd => m \in ToSet(u.binds[i].comfds)

LEMMA ActCounted ==
    ASSUME mode.handler # "epoll",
           NEW s \in WorkType, NEW i \in DOMAIN s.binds,
           NEW n \in {s.binds[i].comfd} \cup ToSet(s.binds[i].comfds),
           Lists(s.table, s.binds), NEW u, u = Act(s, i, n)
    PROVE  /\ u.hot = s.hot /\ u.corr = s.corr
           /\ \A j \in DOMAIN s.binds : j # i => u.binds[j] = s.binds[j]
           /\ Keeps(s, u, i, n)
<1>1. /\ s.binds \in Seq(BindType) /\ s.binds[i] \in BindType
      /\ s.binds[i].comfds \in Seq(Number) /\ IsInjective(s.binds[i].comfds)
  BY BindAt DEF WorkType, Lists, ListTrue
<1>2. CASE n = s.binds[i].comfd
  <2>1. CASE u = s
    BY <2>1 DEF Keeps
  <2>2. CASE u # s
    <3>1. PICK r \in Requester, m \in Number : u = AcceptOf(s, i, r, m)
      BY <1>2, <2>2, AcceptEffect DEF Act
    <3>2. /\ u.hot = s.hot /\ u.corr = s.corr
          /\ u.binds = [s.binds EXCEPT ![i].comfds = Append(@, m)]
      BY <3>1 DEF AcceptOf, WorkType
    <3>3. /\ \A j \in DOMAIN s.binds : j # i => u.binds[j] = s.binds[j]
          /\ u.binds[i].comfds = Append(s.binds[i].comfds, m)
      BY <1>1, <3>2 DEF BindType
    <3>4. ToSet(Append(s.binds[i].comfds, m)) = ToSet(s.binds[i].comfds) \cup {m}
      BY <1>1, Appended
    <3> QED
      BY <3>2, <3>3, <3>4 DEF Keeps
  <2> QED
    BY <2>1, <2>2
<1>3. CASE n # s.binds[i].comfd
  <2> DEFINE r == s.table[n][2]
  <2>1. u = Receive(s, i, n) /\ n \in ToSet(s.binds[i].comfds)
    BY <1>3 DEF Act
  <2>2. u.hot = s.hot
    BY <2>1, ReceiveTraced
  <2>3. CASE s.request[r] = "closed"
    <3> DEFINE hot1 == {IF mode.handler = "epoll" /\ e.fd = n THEN [e EXCEPT !.fd = -1] ELSE e : e \in s.hot}
    <3>1. u = [s EXCEPT !.request[r] = "gone", !.table[n] = None,
                        !.binds[i].comfds = RemoveFirst(@, n), !.hot = hot1]
      BY <2>1, <2>3 DEF Receive
    <3> HIDE DEF hot1, r
    <3>2. u.corr = s.corr /\ u.binds = [s.binds EXCEPT ![i].comfds = RemoveFirst(@, n)]
      BY <3>1 DEF WorkType
    <3>3. /\ \A j \in DOMAIN s.binds : j # i => u.binds[j] = s.binds[j]
          /\ u.binds[i].comfds = RemoveFirst(s.binds[i].comfds, n)
      BY <1>1, <3>2 DEF BindType
    <3>4. ToSet(RemoveFirst(s.binds[i].comfds, n)) = ToSet(s.binds[i].comfds) \ {n}
      BY <1>1, RemovedFirst
    <3> QED
      BY <1>3, <2>2, <3>2, <3>3, <3>4 DEF Keeps
  <2>4. CASE s.request[r] # "closed"
    <3>1. u = s \/ u = [s EXCEPT !.request[r] = "answered", !.gave[r] = @ \cup Sent(s, s.binds[i])]
      BY <2>1, <2>4 DEF Receive
    <3>2. u.binds = s.binds /\ u.corr = s.corr
      BY <3>1 DEF WorkType
    <3> QED
      BY <2>2, <3>2 DEF Keeps
  <2> QED
    BY <2>3, <2>4
<1> QED
  BY <1>2, <1>3

(* select() takes one event away and counts one more; poll() neither.       *)
LEMMA EventCounted ==
    ASSUME mode.handler # "epoll", asks \in [Requester -> Port],
           NEW s \in WorkType, NEW i \in DOMAIN s.binds, NEW n,
           Lists(s.table, s.binds), NEW v, v = HandleEvent(s, i, n)
    PROVE  /\ \A j \in DOMAIN s.binds : j # i => v.binds[j] = s.binds[j]
           /\ Keeps(s, v, i, n)
           /\ mode.handler = "poll" => v.corr = s.corr
           /\ mode.handler = "select" =>
                 /\ v.hot \subseteq s.hot
                 /\ Single(s.hot) =>
                       v.corr + Cardinality(v.hot) = s.corr + Cardinality(s.hot)
                 /\ n \in {s.binds[i].comfd} \cup ToSet(s.binds[i].comfds) =>
                       \A e \in v.hot : e.fd # n
<1> DEFINE b == s.binds[i]
           u == IF n = b.comfd THEN AcceptOn(s, i) ELSE Receive(s, i, n)
           hot1 == {e \in s.hot : e.fd # n}
<1>1. s.hot \in Events /\ s.corr \in Int /\ IsFiniteSet(s.hot) /\ Cardinality(s.hot) \in Nat
  BY FS_CardinalityType DEF WorkType, Events
<1>2. CASE n \notin {b.comfd} \cup ToSet(b.comfds) \/ n \notin {e.fd : e \in s.hot} \cap Reached
  <2>1. v = s
    BY <1>2 DEF HandleEvent
  <2>2. ASSUME mode.handler = "select", n \in {b.comfd} \cup ToSet(b.comfds), NEW e \in s.hot
        PROVE  e.fd # n
    <3>1. n \in Number
      <4> b.comfd \in Number /\ b.comfds \in Seq(Number)
        BY BindAt DEF WorkType
      <4> ToSet(b.comfds) \subseteq Number
        BY DEF ToSet
      <4> QED
        BY <2>2
    <3> QED
      BY <1>2, <2>2, <3>1 DEF Reached
  <2>3. Keeps(s, v, i, n) /\ \A j \in DOMAIN s.binds : v.binds[j] = s.binds[j]
    BY <2>1 DEF Keeps
  <2> HIDE DEF b
  <2>4. v.hot = s.hot /\ v.corr = s.corr
    BY <2>1
  <2> QED
    BY <2>2, <2>3, <2>4 DEF b
<1>3. CASE n \in {b.comfd} \cup ToSet(b.comfds) /\ n \in {e.fd : e \in s.hot} \cap Reached
  <2>1. /\ u.hot = s.hot /\ u.corr = s.corr
        /\ \A j \in DOMAIN s.binds : j # i => u.binds[j] = s.binds[j]
        /\ Keeps(s, u, i, n)
    <3>1. PICK w : w = Act(s, i, n)
      OBVIOUS
    <3>2. u = w
      BY <3>1 DEF Act
    <3> HIDE DEF u
    <3>3. /\ w.hot = s.hot /\ w.corr = s.corr
          /\ \A j \in DOMAIN s.binds : j # i => w.binds[j] = s.binds[j]
          /\ Keeps(s, w, i, n)
      BY <1>3, <3>1, ActCounted
    <3> QED
      BY <3>2, <3>3
  <2>2. u \in WorkType
    BY <1>3, ActTrue DEF Act, Follows
  <2>3. CASE mode.handler = "select"
    <3>1. v = Cleared(u, n)
      BY <1>3, <2>3 DEF HandleEvent
    <3> HIDE DEF u
    <3>2. v.hot = hot1 /\ v.corr = s.corr + 1 /\ v.binds = u.binds
      BY <2>1, <2>2, <3>1 DEF Cleared, WorkType
    <3>3. ASSUME Single(s.hot)
          PROVE  Cardinality(hot1) = Cardinality(s.hot) - 1
      <4>1. PICK e \in s.hot : e.fd = n
        BY <1>3
      <4>2. hot1 = s.hot \ {e}
        BY <3>3, <4>1 DEF Single
      <4> HIDE DEF hot1
      <4> QED
        BY <1>1, <4>1, <4>2, FS_RemoveElement
    <3> HIDE DEF hot1
    <3>4. Single(s.hot) => v.corr + Cardinality(v.hot) = s.corr + Cardinality(s.hot)
      BY <1>1, <3>2, <3>3
    <3> QED
      BY <2>1, <2>3, <3>2, <3>4 DEF hot1, Keeps
  <2>4. CASE mode.handler # "select"
    <3> v = u
      BY <1>3, <2>4 DEF HandleEvent
    <3> QED
      BY <2>1, <2>4
  <2> QED
    BY <2>3, <2>4
<1> QED
  BY <1>2, <1>3

LEMMA SecondPart ==
    ASSUME NEW S, NEW h \in Seq(S), NEW q \in Seq(S),
           NEW m \in Int, m > Len(h), m <= Len(h) + Len(q)
    PROVE  (h \o q)[m] = q[m - Len(h)]
OBVIOUS

LEMMA LaterTurn ==
    ASSUME NEW L \in Nat, NEW j \in 1..L
    PROVE  j + L + 1 \in (L + 2)..(2 * L + 1) /\ (j + L + 1) - L - 1 = j
OBVIOUS

LEMMA TurnIs ==
    ASSUME NEW b \in BindType, NEW L \in Nat, L = Len(b.comfds), NEW N \in Nat, N = 2 * L + 1
    PROVE  /\ Turn(b)[L + 1] = b.comfd
           /\ \A m \in (L + 2)..N : m - L - 1 \in 1..L /\ Turn(b)[m] = b.comfds[m - L - 1]
           /\ \A m \in (L + 2)..N : Turn(b)[m] \in ToSet(b.comfds)
           /\ \A x \in ToSet(b.comfds) : \E m \in (L + 2)..N : x = Turn(b)[m]
<1>1. b.comfds \in Seq(Number) /\ b.comfd \in Number
  BY DEF BindType
<1> DEFINE q == b.comfds
           h == q \o <<b.comfd>>
<1> HIDE DEF q
<1>2. q \in Seq(Number) /\ DOMAIN q = 1..L /\ Len(q) = L
  BY <1>1 DEF q
<1>3. h \in Seq(Number) /\ Len(h) = L + 1 /\ h[L + 1] = b.comfd
  BY <1>1, <1>2
<1>4. Turn(b) = h \o q
  BY DEF Turn, q
<1> HIDE DEF h
<1>5. Turn(b)[L + 1] = b.comfd
  BY <1>2, <1>3, <1>4
<1>6. ASSUME NEW m \in (L + 2)..N
      PROVE  m - L - 1 \in 1..L /\ Turn(b)[m] = q[m - L - 1]
  <2>1. m - L - 1 \in 1..L /\ m \in 1..(Len(h) + Len(q)) /\ m > Len(h)
    BY <1>2, <1>3
  <2>2. (h \o q)[m] = q[m - Len(h)]
    <3> m \in Int /\ m > Len(h) /\ m <= Len(h) + Len(q)
      BY <1>2, <1>3, <2>1
    <3> QED
      BY <1>2, <1>3, SecondPart
  <2>3. m - Len(h) = m - L - 1
    BY <1>2, <1>3
  <2> QED
    BY <1>4, <2>1, <2>2, <2>3
<1>7. ASSUME NEW j \in 1..L
      PROVE  \E m \in (L + 2)..N : q[j] = Turn(b)[m]
  <2>1. j + L + 1 \in (L + 2)..N /\ (j + L + 1) - L - 1 = j
    BY LaterTurn
  <2>2. PICK m \in (L + 2)..N : m - L - 1 = j
    BY <2>1
  <2>3. Turn(b)[m] = q[j]
    BY <1>6, <2>2
  <2> QED
    BY <2>3
<1>8. \A m \in (L + 2)..N : Turn(b)[m] \in ToSet(q)
  BY <1>2, <1>6 DEF ToSet
<1>9. \A x \in ToSet(q) : \E m \in (L + 2)..N : x = Turn(b)[m]
  BY <1>2, <1>7 DEF ToSet
<1> QED
  BY <1>2, <1>5, <1>6, <1>8, <1>9 DEF q

(* In its turn a port counts and takes away its own events.                 *)
LEMMA PortCounted ==
    ASSUME mode.handler = "select", asks \in [Requester -> Port],
           NEW s \in WorkType, NEW i \in DOMAIN s.binds,
           Lists(s.table, s.binds), Single(s.hot), NEW v, v = HandlePort({}, s, i)
    PROVE  /\ \A j \in DOMAIN s.binds : j # i => v.binds[j] = s.binds[j]
           /\ v.hot \subseteq s.hot
           /\ v.corr + Cardinality(v.hot) = s.corr + Cardinality(s.hot)
           /\ \A e \in v.hot : e.fd \notin {s.binds[i].comfd} \cup ToSet(s.binds[i].comfds)
<1>1. PICK f : PortSteps({}, s, i, f)
  BY PortLoop
<1> DEFINE b == s.binds[i]
           L == Len(b.comfds)
           N == 2 * L + 1
           T == Turn(b)
           Inv(k) ==
             /\ \A j \in DOMAIN s.binds : j # i => f[k].binds[j] = s.binds[j]
             /\ f[k].hot \subseteq s.hot
             /\ f[k].corr + Cardinality(f[k].hot) = s.corr + Cardinality(s.hot)
             /\ \A m \in (L + 2)..N : m > k => T[m] \in ToSet(f[k].binds[i].comfds)
             /\ \A m \in (L + 1)..N : m <= k => \A e \in f[k].hot : e.fd # T[m]
           Good == {k \in 0..N : Inv(k)}
<1>2. b \in BindType /\ L \in Nat /\ N \in Nat /\ L + 1 \in 1..N
  BY BindAt DEF WorkType
<1>3. /\ T[L + 1] = b.comfd
      /\ \A m \in (L + 2)..N : m - L - 1 \in 1..L /\ T[m] = b.comfds[m - L - 1]
      /\ \A m \in (L + 2)..N : T[m] \in ToSet(b.comfds)
      /\ \A x \in ToSet(b.comfds) : \E m \in (L + 2)..N : x = T[m]
  BY <1>2, TurnIs
<1>4. /\ v = f[N] /\ f[0] = s
      /\ \A k \in 1..N : f[k] = IF DueAt({}, b, k) THEN HandleEvent(f[k - 1], i, T[k]) ELSE f[k - 1]
      /\ \A k \in 0..N : f[k] \in WorkType /\ Tracks(s, f[k])
  BY <1>1 DEF PortSteps, Begun
<1>5. \A k \in 1..N : DueAt({}, b, k) <=> k > L
  BY <1>2 DEF DueAt
<1>6. \A m, n \in (L + 2)..N : T[m] = T[n] => m = n
  <2>1. \A j, k \in 1..L : b.comfds[j] = b.comfds[k] => j = k
    <3> IsInjective(b.comfds) /\ DOMAIN b.comfds = 1..L
      BY <1>2 DEF Lists, ListTrue, BindType
    <3> QED
      BY DEF IsInjective
  <2> SUFFICES ASSUME NEW m \in (L + 2)..N, NEW n \in (L + 2)..N, T[m] = T[n]
               PROVE  m = n
    OBVIOUS
  <2> HIDE DEF L, N, T
  <2>2. m - L - 1 = n - L - 1
    BY <1>3, <2>1
  <2> QED
    BY <1>2, <2>2
<1>7. \A k \in 0..N : /\ f[k].binds[i].comfd = b.comfd /\ i \in DOMAIN f[k].binds
                      /\ DOMAIN f[k].binds = DOMAIN s.binds
                      /\ Lists(f[k].table, f[k].binds)
  <2> TAKE k \in 0..N
  <2>1. PICK u : u = f[k]
    OBVIOUS
  <2>2. u \in WorkType /\ Follows(s, u) /\ s.binds \in Seq(BindType)
    BY <1>4, <2>1 DEF Tracks, WorkType
  <2>3. Lists(u.table, u.binds) /\ SameBinds(s.binds, u.binds)
    BY <2>2 DEF Follows
  <2>4. DOMAIN u.binds = DOMAIN s.binds
    BY <2>3 DEF SameBinds
  <2>5. u.binds[i].comfd = s.binds[i].comfd
    BY <2>2, <2>3, SameFields
  <2> QED
    BY <2>1, <2>3, <2>4, <2>5
<1>8. 0 \in Good
  <2> Inv(0)
    BY <1>2, <1>3, <1>4
  <2> QED
    BY <1>2
<1> HIDE DEF b, T, L, N
<1>9. ASSUME NEW k \in 1..N, k - 1 \in Good
      PROVE  k \in Good
  <2>1. Inv(k - 1) /\ k - 1 \in 0..N
    BY <1>9
  <2>2. CASE k <= L
    <3> f[k] = f[k - 1]
      BY <1>2, <1>4, <1>5, <2>2
    <3> Inv(k)
      BY <1>2, <2>1, <2>2
    <3> QED
      OBVIOUS
  <2>3. CASE k > L
    <3>1. PICK u, n : u = f[k - 1] /\ n = T[k]
      OBVIOUS
    <3>2. PICK w : w = HandleEvent(u, i, n)
      OBVIOUS
    <3>3. f[k] = w
      BY <1>4, <1>5, <2>3, <3>1, <3>2
    <3>4. u \in WorkType /\ i \in DOMAIN u.binds /\ Lists(u.table, u.binds) /\ u.binds[i].comfd = b.comfd
          /\ DOMAIN u.binds = DOMAIN s.binds
      BY <1>4, <1>7, <2>1, <3>1
    <3>5. /\ \A j \in DOMAIN s.binds : j # i => w.binds[j] = u.binds[j]
          /\ \A m \in ToSet(u.binds[i].comfds) :
                m # n \/ n = b.comfd => m \in ToSet(w.binds[i].comfds)
          /\ w.hot \subseteq u.hot
          /\ Single(u.hot) =>
                w.corr + Cardinality(w.hot) = u.corr + Cardinality(u.hot)
          /\ n \in {b.comfd} \cup ToSet(u.binds[i].comfds) => \A e \in w.hot : e.fd # n
      <4>1. mode.handler # "epoll"
        OBVIOUS
      <4>5. \A j \in DOMAIN u.binds : j # i => w.binds[j] = u.binds[j]
        BY <3>2, <3>4, <4>1, EventCounted
      <4>2. Keeps(u, w, i, n)
        BY <3>2, <3>4, <4>1, EventCounted
      <4>3. /\ w.hot \subseteq u.hot
            /\ Single(u.hot) =>
                  w.corr + Cardinality(w.hot) = u.corr + Cardinality(u.hot)
        BY <3>2, <3>4, <4>1, EventCounted
      <4>4. n \in {u.binds[i].comfd} \cup ToSet(u.binds[i].comfds) => \A e \in w.hot : e.fd # n
        BY <3>2, <3>4, <4>1, EventCounted
      <4> QED
        BY <3>4, <4>2, <4>3, <4>4, <4>5 DEF Keeps
    <3>6. /\ \A j \in DOMAIN s.binds : j # i => u.binds[j] = s.binds[j]
          /\ u.hot \subseteq s.hot
          /\ u.corr + Cardinality(u.hot) = s.corr + Cardinality(s.hot)
          /\ \A m \in (L + 2)..N : m > k - 1 => T[m] \in ToSet(u.binds[i].comfds)
          /\ \A m \in (L + 1)..N : m <= k - 1 => \A e \in u.hot : e.fd # T[m]
      BY <2>1, <3>1
    <3>7. Single(u.hot)
      BY <3>6 DEF Single
    <3>8. n \in {b.comfd} \cup ToSet(u.binds[i].comfds)
      <4>1. CASE k = L + 1
        BY <1>3, <3>1, <4>1
      <4>2. CASE k \in (L + 2)..N
        BY <1>2, <3>1, <3>6, <4>2
      <4> QED
        BY <1>2, <2>3, <4>1, <4>2
    <3>9. \A m \in (L + 2)..N : m > k => T[m] \in ToSet(w.binds[i].comfds)
      <4> SUFFICES ASSUME NEW m \in (L + 2)..N, m > k
                   PROVE  T[m] \in ToSet(w.binds[i].comfds)
        OBVIOUS
      <4>1. T[m] \in ToSet(u.binds[i].comfds)
        BY <1>2, <3>6
      <4>2. T[m] # n \/ n = b.comfd
        <5>1. CASE k = L + 1
          BY <1>3, <3>1, <5>1
        <5>2. CASE k \in (L + 2)..N
          BY <1>2, <1>6, <3>1, <5>2
        <5> QED
          BY <1>2, <2>3, <5>1, <5>2
      <4> QED
        BY <3>5, <4>1, <4>2
    <3>10. \A m \in (L + 1)..N : m <= k => \A e \in w.hot : e.fd # T[m]
      <4> SUFFICES ASSUME NEW m \in (L + 1)..N, m <= k, NEW e \in w.hot
                   PROVE  e.fd # T[m]
        OBVIOUS
      <4>1. CASE m = k
        BY <3>1, <3>5, <3>8, <4>1
      <4>2. CASE m <= k - 1
        BY <3>5, <3>6, <4>2
      <4> QED
        BY <1>2, <4>1, <4>2
    <3>11. Inv(k)
      BY <3>3, <3>5, <3>6, <3>7, <3>9, <3>10
    <3> QED
      BY <3>11
  <2> QED
    BY <1>2, <2>2, <2>3
<1>10. N \in Good
  <2> HIDE DEF Good
  <2> N \in 0..N
    BY <1>2
  <2> QED
    BY <1>2, <1>8, <1>9, UpTo
<1>11. Inv(N)
  BY <1>10
<1>12. \A e \in v.hot : e.fd \notin {b.comfd} \cup ToSet(b.comfds)
  <2>1. \A m \in (L + 1)..N : \A e \in v.hot : e.fd # T[m]
    BY <1>2, <1>4, <1>11
  <2>2. L + 1 \in (L + 1)..N /\ (L + 2)..N \subseteq (L + 1)..N
    BY <1>2
  <2> QED
    BY <1>3, <2>1, <2>2
<1> QED
  BY <1>4, <1>11, <1>12 DEF b

LEMMA InternalsListed ==
    ASSUME NEW bs \in Seq(BindType), NEW n \in ToSet(Internals(bs))
    PROVE  \E j \in DOMAIN bs : n \in {bs[j].comfd} \cup ToSet(bs[j].comfds)
<1> DEFINE S == {m \in Number : \E j \in DOMAIN bs : m \in {bs[j].comfd} \cup ToSet(bs[j].comfds)}
           one == [i \in DOMAIN bs |->
                     (IF bs[i].monitoring THEN <<bs[i].comfd>> ELSE <<>>) \o bs[i].comfds]
<1>1. ASSUME NEW i \in DOMAIN bs
      PROVE  one[i] \in Seq(S)
  <2>1. bs[i].comfds \in Seq(Number) /\ bs[i].comfd \in Number
    BY BindAt
  <2>2. bs[i].comfd \in S
    BY <2>1
  <2>3. \A k \in 1..Len(bs[i].comfds) : bs[i].comfds[k] \in S
    BY <2>1 DEF ToSet
  <2> HIDE DEF S
  <2>4. bs[i].comfds \in Seq(S)
    BY <2>1, <2>3
  <2>5. (IF bs[i].monitoring THEN <<bs[i].comfd>> ELSE <<>>) \in Seq(S)
    BY <2>2
  <2>6. one[i] = (IF bs[i].monitoring THEN <<bs[i].comfd>> ELSE <<>>) \o bs[i].comfds
    OBVIOUS
  <2> HIDE DEF one
  <2> QED
    BY <2>4, <2>5, <2>6, ConcatProperties
<1>2. one \in Seq(Seq(S))
  <2>1. DOMAIN one = 1..Len(bs) /\ Len(bs) \in Nat
    OBVIOUS
  <2>2. one \in [1..Len(bs) -> Seq(S)]
    BY <1>1, <2>1
  <2> HIDE DEF one, S
  <2> QED
    BY <2>1, <2>2
<1>3. Internals(bs) \in Seq(S)
  <2> Internals(bs) = FlattenSeq(one)
    BY DEF Internals
  <2> HIDE DEF one, S
  <2> QED
    BY <1>2, Flattened
<1>4. n \in S
  <2> HIDE DEF S
  <2> QED
    BY <1>3 DEF ToSet
<1> QED
  BY <1>4

LEMMA WatchedSingle ==
    ASSUME PortsInv, pc # "gone", mode.handler # "epoll", NEW hot \in SUBSET Watched
    PROVE  /\ \A e \in hot : e = Entry(e.fd) /\ e.fd \in Number
           /\ Single(hot) /\ hot \in Events /\ IsFiniteSet(hot)
           /\ \A e \in hot : e \in Internal <=> e.fd \in ToSet(Internals(binds))
<1>1. hot \in Events /\ IsFiniteSet(hot)
  BY WatchedOpen, FS_Subset DEF Events
<1>2. \A n : Entry(n).fd = n
  BY DEF Entry
<1>3. \A e \in hot : e = Entry(e.fd)
  BY <1>2 DEF Watched, Internal
<1>4. \A e \in hot : e \in Internal <=> e.fd \in ToSet(Internals(binds))
  BY <1>2, <1>3 DEF Internal
<1>5. -1 \notin Number
  BY MaxFdAssumption DEF Number
<1>6. \A e \in hot : e.fd \in Number
  <2> SUFFICES ASSUME NEW n, Entry(n) \in Watched
               PROVE  n \in Number
    BY <1>3
  <2>1. TypeOK /\ Lists(table, binds) /\ binds \in Seq(BindType)
    BY DEF PortsInv, TypeOK
  <2>2. ToSet(Internals(binds)) \subseteq Number
    BY <2>1, InternalsOpen DEF ToSet
  <2>3. n \in Shadows \cup Own \cup ToSet(Internals(binds))
    BY <1>2 DEF Watched, Internal
  <2> QED
    BY <2>1, <2>2, <2>3, BindAt DEF Shadows, Own, Monitoring
<1> QED
  BY <1>1, <1>3, <1>4, <1>6 DEF Single

(* When all ports had their turn, select() has taken away every internal    *)
(* event and counted it once.                                               *)
LEMMA SelectCounted ==
    ASSUME PortsInv, pc # "gone", mode.handler = "select", NEW hot \in SUBSET Watched,
           NEW s, s = Handled(hot, {})
    PROVE  /\ s.hot \subseteq hot \ Internal
           /\ s.corr + Cardinality(s.hot) = Cardinality(hot)
<1>1. /\ TypeOK /\ Lists(table, binds) /\ binds \in Seq(BindType) /\ asks \in [Requester -> Port]
      /\ hot \in Events /\ IsFiniteSet(hot) /\ Single(hot)
  BY WatchedSingle, AsksAssumption DEF PortsInv, TypeOK
<1>2. PICK f : HandledSteps(hot, {}, f)
  BY <1>1, HandledLoop
<1> DEFINE N == Len(binds)
           Inv(k) ==
             /\ f[k].hot \subseteq hot
             /\ f[k].corr + Cardinality(f[k].hot) = Cardinality(hot)
             /\ \A j \in DOMAIN binds : j > k => f[k].binds[j] = binds[j]
             /\ \A j \in DOMAIN binds : j <= k =>
                   \A e \in f[k].hot : e.fd \notin {binds[j].comfd} \cup ToSet(binds[j].comfds)
           Good == {k \in 0..N : Inv(k)}
<1>3. /\ N \in Nat /\ DOMAIN binds = 1..N /\ s = f[N] /\ f[0] = Before(hot)
      /\ \A k \in 1..N : f[k] = HandlePort({}, f[k - 1], k)
      /\ \A k \in 0..N : f[k] \in WorkType /\ Tracks(Before(hot), f[k])
  BY <1>1, <1>2 DEF HandledSteps
<1>4. 0 \in Good
  <2>1. Cardinality(hot) \in Nat
    BY <1>1, FS_CardinalityType
  <2>2. f[0].hot = hot /\ f[0].corr = 0 /\ f[0].binds = binds
    BY <1>3 DEF Before
  <2> Inv(0)
    BY <1>3, <2>1, <2>2
  <2> QED
    BY <1>3
<1> HIDE DEF N
<1>5. ASSUME NEW k \in 1..N, k - 1 \in Good
      PROVE  k \in Good
  <2>1. Inv(k - 1) /\ k - 1 \in 0..N
    BY <1>5
  <2>2. PICK u, v : u = f[k - 1] /\ v = f[k]
    OBVIOUS
  <2>3. /\ u.hot \subseteq hot
        /\ u.corr + Cardinality(u.hot) = Cardinality(hot)
        /\ \A j \in DOMAIN binds : j > k - 1 => u.binds[j] = binds[j]
        /\ \A j \in DOMAIN binds : j <= k - 1 =>
              \A e \in u.hot : e.fd \notin {binds[j].comfd} \cup ToSet(binds[j].comfds)
    BY <2>1, <2>2
  <2>4. /\ u \in WorkType /\ Lists(u.table, u.binds) /\ DOMAIN u.binds = DOMAIN binds
        /\ v = HandlePort({}, u, k) /\ k \in DOMAIN u.binds
    BY <1>3, <2>1, <2>2 DEF Tracks, Follows, SameBinds, Before
  <2>5. Single(u.hot)
    BY <1>1, <2>3 DEF Single
  <2>6. \A j \in DOMAIN u.binds : j # k => v.binds[j] = u.binds[j]
    BY <1>1, <2>4, <2>5, PortCounted
  <2>7. v.hot \subseteq u.hot /\ v.corr + Cardinality(v.hot) = u.corr + Cardinality(u.hot)
    BY <1>1, <2>4, <2>5, PortCounted
  <2>8. \A e \in v.hot : e.fd \notin {u.binds[k].comfd} \cup ToSet(u.binds[k].comfds)
    BY <1>1, <2>4, <2>5, PortCounted
  <2>9. u.binds[k] = binds[k]
    BY <1>3, <2>3
  <2>10. \A j \in DOMAIN binds : j > k => v.binds[j] = binds[j]
    BY <1>3, <2>3, <2>4, <2>6
  <2>11. \A j \in DOMAIN binds : j <= k =>
            \A e \in v.hot : e.fd \notin {binds[j].comfd} \cup ToSet(binds[j].comfds)
    <3> SUFFICES ASSUME NEW j \in DOMAIN binds, j <= k, NEW e \in v.hot
                 PROVE  e.fd \notin {binds[j].comfd} \cup ToSet(binds[j].comfds)
      OBVIOUS
    <3>1. CASE j = k
      BY <2>8, <2>9, <3>1
    <3>2. CASE j <= k - 1
      BY <2>3, <2>7, <3>2
    <3> QED
      BY <1>3, <3>1, <3>2
  <2>12. Inv(k)
    BY <2>2, <2>3, <2>7, <2>10, <2>11
  <2> QED
    BY <2>12
<1>6. N \in Good
  <2> HIDE DEF Good
  <2> N \in 0..N
    BY <1>3
  <2> QED
    BY <1>3, <1>4, <1>5, UpTo
<1>7. /\ s.hot \subseteq hot /\ s.corr + Cardinality(s.hot) = Cardinality(hot)
      /\ \A j \in DOMAIN binds :
            \A e \in s.hot : e.fd \notin {binds[j].comfd} \cup ToSet(binds[j].comfds)
  BY <1>3, <1>6
<1>8. \A e \in s.hot : e \notin Internal
  BY <1>1, <1>7, WatchedSingle, InternalsListed
<1> QED
  BY <1>7, <1>8

LEMMA SelectCleaned ==
    ASSUME PortsInv, pc # "gone", NEW hot \in SUBSET Watched, NEW s, Returned(hot, s)
    PROVE  Cleaned(s)
<1> SUFFICES ASSUME mode.handler = "select"
             PROVE  s.hot \cap Internal = {}
  BY DEF Cleaned
<1>1. s = Handled(hot, {})
  BY DEF Returned
<1> QED
  BY <1>1, SelectCounted

(* An event function (select.c:266-314, poll.c:280-359, epoll.c:240-332)    *)
(* hides the internal connections, translates the rest to the numbers of    *)
(* the application, and reports nothing that is not ready or not the        *)
(* application's, but for epoll's -1, epoll's numbers of listeners that are *)
(* closed or orphaned, and what poll found ready in an earlier call.        *)
THEOREM NothingSpuriousHolds == Spec => NothingSpurious
<1> DEFINE Right == Returns =>
              /\ report'.fds \cap Conns(binds') = {}
              /\ \A i \in Monitoring(binds') : binds'[i].comfd \notin report'.fds
              /\ Spurious' \subseteq
                     CASE mode.handler = "select" -> {}
                       [] mode.handler = "epoll"  -> {-1} \cup Ghosts' \cup Orphans'
                       [] mode.handler = "poll"   -> revents \cap Awaited
<1>1. PortsInv /\ ReportInv /\ [Next]_vars => [Right]_vars
  <2> SUFFICES ASSUME PortsInv, ReportInv, Next, Returns
               PROVE  Right
    BY DEF Returns
  <2>1. CASE Timeout
    BY <2>1 DEF Timeout, NoReport, Spurious
  <2>2. CASE Wake
    <3>1. PICK hot \in SUBSET Watched : \E s : Returned(hot, s)
      BY <2>2, WakeReturns
    <3>2. PICK s : Returned(hot, s)
      BY <3>1
    <3>3. /\ pc # "gone" /\ pc' = "user" /\ UNCHANGED mode
          /\ interest' = IF mode.handler = "epoll" THEN Internal ELSE {}
      BY <2>2 DEF Wake, Returns, environment
    <3>4. ASSUME NEW x \in report'.fds
          PROVE  /\ ~IsInternalConn(binds', x)
                 /\ x \notin report'.ready =>
                       \/ mode.handler = "poll" /\ x \in revents \cap Awaited
                       \/ mode.handler = "epoll" /\ x \in {-1} \cup Ghosts' \cup Orphans'
      BY <3>2, <3>3, <3>4, SelectCleaned, ReturnedRight
    <3>5. /\ report'.fds \cap Conns(binds') = {}
          /\ \A i \in Monitoring(binds') : binds'[i].comfd \notin report'.fds
      BY <3>4 DEF IsInternalConn
    <3>6. mode.handler \in {"select", "poll", "epoll"}
      BY ModesAssumption DEF PortsInv, TypeOK
    <3>7. Spurious' = report'.fds \ report'.ready
      BY DEF Spurious
    <3> QED
      BY <3>4, <3>5, <3>6, <3>7
  <2> QED
    BY <2>1, <2>2, WaitLeft
<1>2. Init => ReportInv
  BY InitialReport
<1> QED
  BY <1>1, <1>2, ReportPreserved, PortsInvHolds, PTL DEF Spec, NothingSpurious

(* The one port of a process with poll() counts what is ready of it.        *)
LEMMA PollCounted ==
    ASSUME PortsInv, pc # "gone", mode.handler = "poll", NEW hot \in SUBSET Watched,
           Len(binds) = 1, Stale = {}, NEW s, s = Handled(hot, {})
    PROVE  s.corr = Cardinality(hot \cap Internal)
<1>1. /\ TypeOK /\ Lists(table, binds) /\ binds \in Seq(BindType) /\ asks \in [Requester -> Port]
      /\ hot \in Events /\ IsFiniteSet(hot) /\ Single(hot) /\ DOMAIN binds = 1..1
  BY WatchedSingle, AsksAssumption DEF PortsInv, TypeOK
<1>2. PICK f : HandledSteps(hot, {}, f)
  BY <1>1, HandledLoop
<1>3. s = f[1] /\ f[0] = Before(hot) /\ f[1] = HandlePort({}, f[1 - 1], 1)
      /\ f[0] \in WorkType
  BY <1>2 DEF HandledSteps
<1>4. PICK u : u = Before(hot)
  OBVIOUS
<1>5. /\ u \in WorkType /\ s = HandlePort({}, u, 1) /\ u.binds = binds /\ u.table = table
      /\ u.hot = hot /\ u.corr = 0 /\ 1 \in DOMAIN u.binds
  BY <1>1, <1>3, <1>4 DEF Before
<1>6. PICK g : PortSteps({}, u, 1, g)
  BY <1>1, <1>5, PortLoop
<1> DEFINE b == u.binds[1]
           N == 2 * Len(b.comfds) + 1
           Good == {k \in 0..N : g[k].corr = Begun(u).corr}
<1>7. /\ N \in Nat /\ s = g[N] /\ g[0] = Begun(u)
      /\ \A k \in 1..N : g[k] = IF DueAt({}, b, k) THEN HandleEvent(g[k - 1], 1, Turn(b)[k]) ELSE g[k - 1]
      /\ \A k \in 0..N : g[k] \in WorkType /\ Tracks(u, g[k])
  <2>1. N \in Nat
    <3> b.comfds \in Seq(Number)
      BY <1>1, <1>5, BindAt
    <3> QED
      OBVIOUS
  <2>2. /\ HandlePort({}, u, 1) = g[N] /\ g[0] = Begun(u)
        /\ \A k \in 1..N : g[k] = IF DueAt({}, b, k) THEN HandleEvent(g[k - 1], 1, Turn(b)[k]) ELSE g[k - 1]
        /\ \A k \in 0..N : g[k] \in WorkType /\ Tracks(u, g[k])
    BY <1>6, Zenon DEF PortSteps
  <2> HIDE DEF b, N
  <2> QED
    BY <1>5, <2>1, <2>2
<1> HIDE DEF b, N
<1>8. 0 \in Good
  BY <1>7
<1>9. ASSUME NEW k \in 1..N, k - 1 \in Good
      PROVE  k \in Good
  <2>1. PICK w, v : w = g[k - 1] /\ v = g[k]
    OBVIOUS
  <2>2. k - 1 \in 0..N /\ w.corr = Begun(u).corr
    BY <1>9, <2>1
  <2>3. w \in WorkType /\ Lists(w.table, w.binds) /\ 1 \in DOMAIN w.binds
    BY <1>5, <1>7, <2>1, <2>2 DEF Tracks, Follows, SameBinds
  <2>4. v = w \/ \E n : v = HandleEvent(w, 1, n)
    BY <1>7, <2>1
  <2>5. mode.handler # "epoll"
    OBVIOUS
  <2>6. v.corr = w.corr
    BY <1>1, <2>3, <2>4, <2>5, EventCounted
  <2> QED
    BY <2>1, <2>2, <2>6
<1>10. N \in Good
  <2> HIDE DEF Good
  <2> N \in 0..N
    BY <1>7
  <2> QED
    BY <1>7, <1>8, <1>9, UpTo
<1>11. s.corr = Cardinality({e.fd : e \in hot} \cap Reached)
  <2>1. s.corr = Begun(u).corr
    BY <1>7, <1>10
  <2>2. Cardinality({e.fd : e \in hot} \cap Reached) \in Nat
    BY <1>1, FiniteEvents
  <2>3. PICK c : c = Cardinality({e.fd : e \in hot} \cap Reached)
    OBVIOUS
  <2>4. Begun(u).corr = 0 + c
    BY <1>5, <2>3 DEF Begun, WorkType
  <2> QED
    BY <2>1, <2>2, <2>3, <2>4
<1>12. Reached = ToSet(Internals(binds))
  <2>1. {i \in DOMAIN binds : ~binds[i].monitoring} = {}
    BY <1>1 DEF Stale, Monitoring
  <2>2. Internals(binds) \in Seq(Number)
    BY <1>1, InternalsOpen
  <2>3. SubSeq(Internals(binds), 0 + 1, Len(Internals(binds))) = Internals(binds)
    BY <2>2
  <2> QED
    BY <2>1, <2>3, FS_EmptySet DEF Reached
<1>13. {e.fd : e \in hot} \cap Reached = {e.fd : e \in hot \cap Internal}
  BY <1>12, WatchedSingle
<1>14. Cardinality({e.fd : e \in hot \cap Internal}) = Cardinality(hot \cap Internal)
  <2> DEFINE S == hot \cap Internal
             h == [e \in S |-> e.fd]
  <2>1. IsFiniteSet(S)
    BY <1>1, FS_Subset
  <2>2. \A x, y \in S : h[x] = h[y] => x = y
    BY <1>1 DEF Single
  <2>3. {h[e] : e \in S} = {e.fd : e \in S}
    OBVIOUS
  <2>4. DOMAIN h = S
    OBVIOUS
  <2> HIDE DEF S, h
  <2>5. Cardinality({h[e] : e \in S}) = Cardinality(S)
    BY <2>1, <2>2, <2>4, SameCount
  <2> QED
    BY <2>3, <2>5 DEF S
<1> QED
  BY <1>11, <1>13, <1>14

(* Two numbers that the application waits for are never one to it.          *)
LEMMA TranslatedOnce ==
    ASSUME PortsInv, pc # "gone", NEW t, SameBut(table, t),
           NEW bs \in Seq(BindType), SameBinds(binds, bs), Lists(t, bs),
           NEW m \in Shadows \cup Own, NEW n \in Shadows \cup Own,
           Original(bs, m) = Original(bs, n)
    PROVE  m = n
<1>1. TypeOK /\ Lists(table, binds) /\ binds \in Seq(BindType)
  BY DEF PortsInv, TypeOK
<1>2. ASSUME NEW k \in Own
      PROVE  Original(bs, k) = k /\ k \notin BoundFds
  <2>1. k \in Number /\ table[k] \notin Inner /\ \A p \in Port : table[k] # Tcp(p)
    BY <1>2, OwnApart DEF Own
  <2>2. t[k] = table[k]
    BY <2>1 DEF SameBut, Inner
  <2>3. \A i \in DOMAIN bs : bs[i].shadowfd # k
    BY <2>1, <2>2, BindAt DEF Lists, ListTrue
  <2>4. table[k] # Unbound
    BY DEF Own, File, Session, Unbound
  <2>5. \A i \in DOMAIN binds : binds[i].fd # k
    BY <1>1, <2>1, <2>4, BindAt DEF Lists, ListTrue
  <2> QED
    BY <2>3, <2>5, OriginalMeans DEF BoundFds
<1>3. ASSUME NEW k \in Shadows
      PROVE  \E i \in DOMAIN binds : k = binds[i].shadowfd /\ Original(bs, k) = binds[i].fd
  <2>1. PICK i \in DOMAIN binds : k = binds[i].shadowfd
    BY <1>3 DEF Shadows, Monitoring
  <2>2. i \in DOMAIN bs /\ bs[i].shadowfd = k /\ bs[i].fd = binds[i].fd
    BY <1>1, <2>1, SameFields
  <2> QED
    BY <2>1, <2>2, OriginalMeans
<1>4. CASE m \in Own /\ n \in Own
  BY <1>2, <1>4
<1>5. CASE m \in Shadows /\ n \in Shadows
  BY <1>1, <1>3, <1>5 DEF Lists, Distinct
<1>6. CASE (m \in Own /\ n \in Shadows) \/ (m \in Shadows /\ n \in Own)
  BY <1>2, <1>3, <1>6 DEF BoundFds
<1> QED
  BY <1>4, <1>5, <1>6

(* So as many numbers are reported as there are entries that lead to them.  *)
LEMMA TranslatedCount ==
    ASSUME PortsInv, pc # "gone", NEW t, SameBut(table, t),
           NEW bs \in Seq(BindType), SameBinds(binds, bs), Lists(t, bs),
           NEW S \in SUBSET Ours, IsFiniteSet(S)
    PROVE  Cardinality({Original(bs, e.fd) : e \in S}) = Cardinality(S)
<1> DEFINE f == [e \in S |-> Original(bs, e.fd)]
<1>1. ASSUME NEW d \in S, NEW e \in S, Original(bs, d.fd) = Original(bs, e.fd)
      PROVE  d = e
  <2>1. PICK m \in Shadows \cup Own : d = Entry(m)
    BY DEF Ours
  <2>2. PICK n \in Shadows \cup Own : e = Entry(n)
    BY DEF Ours
  <2>3. d.fd = m /\ e.fd = n
    BY <2>1, <2>2 DEF Entry
  <2>4. m = n
    BY <1>1, <2>3, TranslatedOnce
  <2> QED
    BY <2>1, <2>2, <2>4
<1>2. DOMAIN f = S /\ \A d, e \in S : f[d] = f[e] => d = e
  BY <1>1
<1>3. {f[e] : e \in S} = {Original(bs, e.fd) : e \in S}
  OBVIOUS
<1> HIDE DEF f
<1>4. Cardinality({f[e] : e \in S}) = Cardinality(S)
  BY <1>2, SameCount
<1> QED
  BY <1>3, <1>4

(* When epoll() reports nothing on -1 and on dead listeners, all it reports *)
(* is what the application asked for; select() never reports anything else. *)
LEMMA VisibleOurs ==
    ASSUME PortsInv, ReportInv, pc # "gone", pc' = "user", UNCHANGED mode,
           interest' = IF mode.handler = "epoll" THEN Internal ELSE {},
           mode.handler = "epoll" => report'.fds \cap ({-1} \cup Ghosts' \cup Orphans') = {},
           NEW hot \in SUBSET Watched, NEW s, Returned(hot, s), Cleaned(s)
    PROVE  Visible(s) \subseteq Ours
<1>1. Tracks(Before(hot), s) /\ table' = s.table /\ binds' = s.binds
      /\ Fds(s) \subseteq report'.fds
  BY DEF Returned
<1> SUFFICES ASSUME NEW e \in Visible(s)
             PROVE  e \in Ours
  OBVIOUS
<1>2. PICK m : m = Original(s.binds, e.fd)
  OBVIOUS
<1>3. m \in report'.fds
  BY <1>1, <1>2 DEF Fds
<1>4. /\ ~IsInternalConn(s.binds, m)
      /\ \/ m \in Ready(hot) /\ e \in Ours
         \/ /\ mode.handler = "epoll"
            /\ \/ m = -1
               \/ /\ m = e.fd /\ m \in Number
                  /\ \/ e \in Internal /\ e.of[1] = "com" /\ s.table[m] # e.of
                     \/ s.table[m] \in Inner \ {None}
  BY <1>1, <1>2, VisibleMeans
<1>5. mode.handler = "epoll" => m # -1 /\ m \notin Ghosts' /\ m \notin Orphans'
  BY <1>3
<1>6. ASSUME mode.handler = "epoll", m = e.fd, e \in Internal, e.of[1] = "com", s.table[m] # e.of
      PROVE  FALSE
  <2> e \in interest' /\ table'[e.fd] # e.of
    BY <1>1, <1>6
  <2> QED
    BY <1>5, <1>6 DEF Ghosts
<1>7. ASSUME mode.handler = "epoll", m \in Number, s.table[m] \in Inner \ {None}
      PROVE  FALSE
  <2>1. table'[m] \in {Com(p) : p \in Port} \cup {Conn(r) : r \in Requester}
    BY <1>1, <1>7 DEF Inner, Passing
  <2>2. ~IsInternalConn(binds', m)
    BY <1>1, <1>4
  <2> QED
    BY <1>5, <1>7, <2>1, <2>2 DEF Orphans
<1> QED
  BY <1>4, <1>5, <1>6, <1>7

(* What poll() reports as ready is what the kernel found, but the internal. *)
LEMMA ReadyCounted ==
    ASSUME PortsInv, pc # "gone", mode.handler # "epoll", NEW hot \in SUBSET Watched
    PROVE  Cardinality(Ready(hot)) = Cardinality(hot) - Cardinality(hot \cap Internal)
<1>1. /\ TypeOK /\ Lists(table, binds) /\ binds \in Seq(BindType) /\ IsFiniteSet(hot)
      /\ \A e \in hot : e = Entry(e.fd) /\ e.fd \in Number
      /\ SameBut(table, table) /\ SameBinds(binds, binds)
  <2>1. \A i \in DOMAIN binds : binds[i] = [binds[i] EXCEPT !.comfds = binds[i].comfds]
    BY BindAt DEF PortsInv, TypeOK, BindType
  <2> QED
    BY <2>1, WatchedSingle DEF PortsInv, TypeOK, SameBut, SameBinds
<1>2. \A n : Entry(n).fd = n /\ Entry(n).of = table[n]
  BY DEF Entry
<1>3. \A e \in Ours : e \notin Internal
  <2> SUFFICES ASSUME NEW n \in Shadows \cup Own, NEW k \in ToSet(Internals(binds)),
                      Entry(n) = Entry(k)
               PROVE  FALSE
    BY DEF Ours, Internal
  <2>1. n = k /\ table[k] \in Inner
    BY <1>1, <1>2, InternalsOpen
  <2>2. CASE n \in Own
    BY <2>1, <2>2, OwnApart
  <2>3. CASE n \in Shadows
    BY <1>1, <2>1, <2>3, BoundApart, BindAt DEF Shadows, Monitoring, Lists, ListTrue
  <2> QED
    BY <2>2, <2>3
<1>4. hot \ Internal \subseteq Ours /\ hot \cap Ours = hot \ Internal
  BY <1>3 DEF Watched, Ours
<1>5. \A i \in DOMAIN binds : Original(binds, binds[i].shadowfd) = binds[i].fd
  BY <1>1, OriginalMeans
<1>6. \A n \in Own : Original(binds, n) = n
  <2> SUFFICES ASSUME NEW n \in Own
               PROVE  \A i \in DOMAIN binds : binds[i].shadowfd # n
    BY <1>1, OriginalMeans
  <2> QED
    BY <1>1, OwnApart, BindAt DEF Lists, ListTrue
<1>7. Ready(hot) = {Original(binds, e.fd) : e \in hot \cap Ours}
  <2>1. ASSUME NEW m \in Ready(hot)
        PROVE  \E e \in hot \cap Ours : m = Original(binds, e.fd)
    <3>1. CASE m \in Own /\ Entry(m) \in hot
      BY <1>2, <1>6, <3>1 DEF Ours
    <3>2. CASE \E i \in Monitoring(binds) : m = binds[i].fd /\ Entry(binds[i].shadowfd) \in hot
      BY <1>2, <1>5, <3>2 DEF Ours, Shadows, Monitoring
    <3> QED
      BY <3>1, <3>2 DEF Ready
  <2>2. ASSUME NEW e \in hot, e \in Ours
        PROVE  Original(binds, e.fd) \in Ready(hot)
    <3>1. PICK n \in Shadows \cup Own : e = Entry(n)
      BY <2>2 DEF Ours
    <3>2. e.fd = n
      BY <1>2, <3>1
    <3>3. CASE n \in Own
      BY <1>6, <3>1, <3>2, <3>3 DEF Ready
    <3>4. CASE n \in Shadows
      BY <1>5, <3>1, <3>2, <3>4 DEF Ready, Shadows, Monitoring
    <3> QED
      BY <3>3, <3>4
  <2> QED
    BY <2>1, <2>2
<1>8. Cardinality(Ready(hot)) = Cardinality(hot \cap Ours)
  <2> PICK S : S = hot \cap Ours
    OBVIOUS
  <2>1. S \in SUBSET Ours /\ IsFiniteSet(S)
    BY <1>1, FS_Subset
  <2>2. Cardinality({Original(binds, e.fd) : e \in S}) = Cardinality(S)
    BY <1>1, <2>1, TranslatedCount
  <2> QED
    BY <1>7, <2>2
<1>9. Cardinality(hot \ Internal) = Cardinality(hot) - Cardinality(hot \cap Internal)
  BY <1>1, FS_Difference
<1> QED
  BY <1>4, <1>8, <1>9

LEMMA ReturnCounted ==
    ASSUME PortsInv, ReportInv, pc # "gone", pc' = "user", UNCHANGED mode,
           interest' = IF mode.handler = "epoll" THEN Internal ELSE {},
           NEW hot \in SUBSET Watched, NEW s, Returned(hot, s)
    PROVE  IF mode.handler = "poll"
           THEN Len(binds) = 1 /\ Stale = {} => report'.count = Cardinality(report'.ready)
           ELSE report'.fds \cap ({-1} \cup Ghosts' \cup Orphans') = {} =>
                    report'.count = Cardinality(report'.fds)
<1>1. /\ Tracks(Before(hot), s) /\ revents' = IF mode.handler = "poll" THEN revents \cup Fds(s) ELSE {}
      /\ report'.fds = Fds(s) \cup revents' /\ report'.ready = Ready(hot)
      /\ report'.count = Counted(hot, s)
      /\ mode.handler # "epoll" => s = Handled(hot, {})
  BY DEF Returned
<1>2. /\ s.binds \in Seq(BindType) /\ Lists(s.table, s.binds) /\ SameBut(table, s.table)
      /\ SameBinds(binds, s.binds) /\ IsFiniteSet(s.hot)
  BY <1>1 DEF Before, Tracks, Follows, WorkType, Events
<1>3. CASE mode.handler = "poll"
  <2> SUFFICES ASSUME Len(binds) = 1, Stale = {}
               PROVE  report'.count = Cardinality(report'.ready)
    BY <1>3
  <2>1. s.corr = Cardinality(hot \cap Internal)
    BY <1>1, <1>3, PollCounted
  <2>2. Cardinality(Ready(hot)) = Cardinality(hot) - Cardinality(hot \cap Internal)
    BY <1>3, ReadyCounted
  <2> QED
    BY <1>1, <1>3, <2>1, <2>2 DEF Counted
<1>4. CASE mode.handler # "poll"
  <2> SUFFICES ASSUME report'.fds \cap ({-1} \cup Ghosts' \cup Orphans') = {}
               PROVE  report'.count = Cardinality(report'.fds)
    BY <1>4
  <2>1. Visible(s) \subseteq Ours
    BY SelectCleaned, VisibleOurs
  <2>2. Visible(s) \subseteq s.hot /\ IsFiniteSet(Visible(s))
    BY <1>2, VisibleHot, FS_Subset DEF PortsInv
  <2>3. Cardinality(Fds(s)) = Cardinality(Visible(s))
    <3>1. PICK S : S = Visible(s)
      OBVIOUS
    <3>2. Cardinality({Original(s.binds, e.fd) : e \in S}) = Cardinality(S)
      BY <1>2, <2>1, <2>2, <3>1, TranslatedCount
    <3> QED
      BY <3>1, <3>2 DEF Fds
  <2>4. report'.fds = Fds(s)
    BY <1>1, <1>4
  <2>5. Counted(hot, s) = Cardinality(Visible(s))
    <3>1. CASE mode.handler = "epoll"
      BY <3>1 DEF Counted
    <3>2. CASE mode.handler = "select"
      <4>2. s.corr + Cardinality(s.hot) = Cardinality(hot)
        BY <1>1, <3>2, SelectCounted
      <4>3. Visible(s) = s.hot
        BY <3>2 DEF Visible
      <4>4. Cardinality(s.hot) \in Nat
        BY <1>2, FS_CardinalityType
      <4>5. s.corr \in Int
        BY <1>1 DEF Tracks, Follows, WorkType
      <4> QED
        BY <3>2, <4>2, <4>3, <4>4, <4>5 DEF Counted
    <3> QED
      BY <1>4, <3>1, <3>2, ModesAssumption DEF PortsInv, TypeOK
  <2> QED
    BY <1>1, <2>3, <2>4, <2>5
<1> QED
  BY <1>3, <1>4

(* The number that an event function returns is that of the descriptors it  *)
(* reports: select takes off what its handlers have cleared (select.c:61,   *)
(* 356), epoll takes the internal events out (epoll.c:293-310), poll takes  *)
(* off the internal entries (poll.c:91, 389), which is right only while     *)
(* there is one port and it is monitored.                                   *)
THEOREM CountRightHolds == Spec => CountRight
<1> DEFINE Right == Returns =>
              IF mode.handler = "poll"
              THEN Len(binds) = 1 /\ Stale = {} => report'.count = Cardinality(report'.ready)
              ELSE report'.fds \cap ({-1} \cup Ghosts' \cup Orphans') = {} =>
                       report'.count = Cardinality(report'.fds)
<1>1. PortsInv /\ ReportInv /\ [Next]_vars => [Right]_vars
  <2> SUFFICES ASSUME PortsInv, ReportInv, Next, Returns
               PROVE  Right
    BY DEF Returns
  <2>1. CASE Timeout
    BY <2>1, FS_EmptySet DEF Timeout, NoReport
  <2>2. CASE Wake
    <3>1. PICK hot \in SUBSET Watched : \E s : Returned(hot, s)
      BY <2>2, WakeReturns
    <3>2. PICK s : Returned(hot, s)
      BY <3>1
    <3>3. /\ pc # "gone" /\ pc' = "user" /\ UNCHANGED mode
          /\ interest' = IF mode.handler = "epoll" THEN Internal ELSE {}
      BY <2>2 DEF Wake, Returns, environment
    <3> QED
      BY <3>2, <3>3, ReturnCounted
  <2> QED
    BY <2>1, <2>2, WaitLeft
<1>2. Init => ReportInv
  BY InitialReport
<1> QED
  BY <1>1, <1>2, ReportPreserved, PortsInvHolds, PTL DEF Spec, CountRight
=============================================================================
