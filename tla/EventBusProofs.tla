---------------------------- MODULE EventBusProofs ----------------------------
(***************************************************************************)
(* What a subscriber of the bus can rely on, for any buffer: an event that *)
(* is published is put behind the others or lost, so events are neither    *)
(* reordered nor doubled.                                                  *)
(***************************************************************************)
EXTENDS EventBus, TLAPS

\* Event m waits in the channel.
Queued(channel, m) == \E k \in DOMAIN channel : channel[k] = m

\* Event m waits there once at most.
Once(channel, m) == \A j, k \in DOMAIN channel : channel[j] = m /\ channel[k] = m => j = k

\* No m waits behind an n.
NoneAfter(channel, m, n) ==
    \A j, k \in DOMAIN channel : channel[j] = n /\ channel[k] = m => k <= j

\* publish: the channel has the event behind the others, or as it was.
THEOREM PublishedChannel ==
    ASSUME NEW S, NEW c \in Seq(S), NEW limit \in Nat, Len(c) <= limit, NEW e \in S,
           NEW d, d = Published(c, e, limit)
    PROVE  /\ d \in Seq(S) /\ Len(d) <= limit
           /\ \A m : Queued(d, m) => Queued(c, m) \/ m = e
           /\ \A m : Queued(c, m) => Queued(d, m)
           /\ Len(c) < limit => Queued(d, e)
           /\ \A m : Once(c, m) /\ (e # m \/ ~Queued(c, m)) => Once(d, m)
           /\ \A m, n : NoneAfter(c, m, n) /\ m # n /\ (e # m \/ ~Queued(c, n)) => NoneAfter(d, m, n)
<1>0. Len(c) \in Nat /\ DOMAIN c = 1..Len(c)
  OBVIOUS
<1>1. CASE ~(Len(c) < limit)
  <2>1. d = c
    BY <1>1 DEF Published
  <2> QED BY <1>1, <2>1
<1>2. CASE Len(c) < limit
  <2>1. d = Append(c, e)
    BY <1>2 DEF Published
  <2>2. /\ d \in Seq(S) /\ Len(d) = Len(c) + 1
        /\ DOMAIN d = 1..(Len(c) + 1) /\ d[Len(c) + 1] = e
        /\ \A k \in DOMAIN c : d[k] = c[k]
    BY <2>1
  <2>3. /\ Len(d) <= limit
        /\ \A k \in DOMAIN d : k \in DOMAIN c \/ k = Len(c) + 1
        /\ \A k \in DOMAIN c : k \in Nat /\ k < Len(c) + 1
    BY <1>0, <1>2, <2>2
  <2>4. ASSUME NEW m, Queued(d, m) PROVE Queued(c, m) \/ m = e
    BY <2>2, <2>3, <2>4 DEF Queued
  <2>5. ASSUME NEW m, Once(c, m), e # m \/ ~Queued(c, m) PROVE Once(d, m)
    BY <2>2, <2>3, <2>5 DEF Queued, Once
  <2>6. ASSUME NEW m, NEW n, NoneAfter(c, m, n), m # n, e # m \/ ~Queued(c, n)
        PROVE  NoneAfter(d, m, n)
    BY <1>0, <2>2, <2>3, <2>6 DEF Queued, NoneAfter
  <2>7. ASSUME NEW m, Queued(c, m) PROVE Queued(d, m)
    BY <1>0, <2>2, <2>7 DEF Queued
  <2>8. Queued(d, e)
    BY <1>0, <2>2 DEF Queued
  <2> QED BY <2>2, <2>3, <2>4, <2>5, <2>6, <2>7, <2>8
<1> QED BY <1>1, <1>2

\* A receive: the first event goes, the others stay in their order.
LEMMA ReceivedChannel ==
    ASSUME NEW S, NEW c \in Seq(S), c # <<>>, NEW d, d = Tail(c)
    PROVE  /\ d \in Seq(S) /\ Len(d) = Len(c) - 1
           /\ Queued(c, Head(c))
           /\ \A m : Queued(d, m) => Queued(c, m)
           /\ \A m : Queued(c, m) => Queued(d, m) \/ m = Head(c)
           /\ \A m : Once(c, m) => Once(d, m) /\ (Head(c) = m => ~Queued(d, m))
           /\ \A m, n : NoneAfter(c, m, n) =>
                            NoneAfter(d, m, n) /\ (Head(c) = n => ~Queued(d, m))
<1>1. /\ d \in Seq(S) /\ Len(d) = Len(c) - 1 /\ Len(c) \in Nat \ {0}
      /\ DOMAIN c = 1..Len(c) /\ Head(c) = c[1]
      /\ DOMAIN d = 1..(Len(c) - 1)
      /\ \A k \in DOMAIN d : d[k] = c[k + 1]
  OBVIOUS
<1>2. 1 \in DOMAIN c /\ \A k \in DOMAIN d : k \in Nat \ {0} /\ k + 1 \in DOMAIN c
  BY <1>1
<1>3. ASSUME NEW m, Queued(d, m) PROVE Queued(c, m)
  BY <1>1, <1>2, <1>3 DEF Queued
<1>4. ASSUME NEW m, Once(c, m) PROVE Once(d, m) /\ (Head(c) = m => ~Queued(d, m))
  <2>1. Once(d, m)
    BY <1>1, <1>2, <1>4 DEF Once
  <2>2. Head(c) = m => ~Queued(d, m)
    BY <1>1, <1>2, <1>4 DEF Once, Queued
  <2> QED BY <2>1, <2>2
<1>5. ASSUME NEW m, NEW n, NoneAfter(c, m, n)
      PROVE  NoneAfter(d, m, n) /\ (Head(c) = n => ~Queued(d, m))
  <2>1. NoneAfter(d, m, n)
    BY <1>1, <1>2, <1>5 DEF NoneAfter
  <2>2. Head(c) = n => ~Queued(d, m)
    BY <1>1, <1>2, <1>5 DEF NoneAfter, Queued
  <2> QED BY <2>1, <2>2
<1>6. Queued(c, Head(c))
  BY <1>1, <1>2 DEF Queued
<1>7. ASSUME NEW m, Queued(c, m), m # Head(c) PROVE Queued(d, m)
  <2>1. PICK k \in DOMAIN c : c[k] = m
    BY <1>7 DEF Queued
  <2>2. k # 1 /\ k \in 1..Len(c)
    BY <1>1, <1>7, <2>1
  <2>3. k - 1 \in DOMAIN d /\ d[k - 1] = c[(k - 1) + 1] /\ (k - 1) + 1 = k
    BY <1>1, <2>2
  <2> QED BY <2>1, <2>3 DEF Queued
<1> QED BY <1>1, <1>3, <1>4, <1>5, <1>6, <1>7

\* A channel with nothing in it has no event, and so every order.
LEMMA EmptyChannel ==
    ASSUME NEW S
    PROVE  /\ <<>> \in Seq(S) /\ Len(<<>>) = 0
           /\ \A m : ~Queued(<<>>, m) /\ Once(<<>>, m)
           /\ \A m, n : NoneAfter(<<>>, m, n)
<1>1. <<>> \in Seq(S) /\ Len(<<>>) = 0 /\ DOMAIN <<>> = {}
  OBVIOUS
<1> QED BY <1>1 DEF Queued, Once, NoneAfter
=============================================================================
