---------------------------- MODULE NetTimeProofs ----------------------------
(***************************************************************************)
(* Proofs about the network time and the pings of NetTime, for every value *)
(* of its constants.  A reading is exact only while the clock's seconds    *)
(* fit the word that holds them, and a round trip only while an uptime in  *)
(* fractions does: both limits are stated as hypotheses.                   *)
(***************************************************************************)
EXTENDS NetTime, SequenceTheorems, TLAPS

CONSTANT Peer   \* any one of the other nodes

(***************************** the limits **********************************)

\* No time that is set runs past the last second of an unsigned word (the
\* year 2106) before the uptime ends.
ClockLasts == \A time \in Times : (time.seconds + 1) * Millis + MaxUp <= Word * Millis

\* The uptime, in fractions, fits an unsigned word (194 days).
UptimeFits == MaxUp * Parts + Millis <= Word * Millis

(***************************** the inductive invariant *********************)

\* The seconds are zero, before the first store, or those of some time command.
Commanded ==
    /\ sync_time.seconds \in {0} \cup {time.seconds : time \in Times}
    /\ epoch = 0 => sync_time.seconds = 0

\* Nothing was stamped after now, or read before it was stamped.
Stamped ==
    /\ sync_stamp <= up
    /\ \A t \in Tasks : get[t].epoch <= epoch /\ get[t].now <= up

\* What a reading that no setting disturbed has seen is still what is set.
Fresh ==
    \A t \in Tasks : Undisturbed(t) =>
        /\ get[t].at \in {"now", "sync", "seconds"} => sync_time.seconds # 0
        /\ get[t].at \in {"sync", "seconds"} => sync_stamp <= get[t].now
        /\ get[t].at = "seconds" => /\ get[t].stamp = sync_stamp
                                    /\ get[t].parts = sync_time.parts

\* The packets in the air and in the hands of the two tasks.
Out     == UNION {Members(toPeer[p]) : p \in Peers}
Carried == Out \cup Members(toMe) \cup {get[t].pkt : t \in Tasks}

\* A ping that left under the clock that is still set carries its reading, and
\* one that left before it was ever set carries zero.
Timed(p) ==
    /\ sync_time.seconds = 0 => p.out = Zero
    /\ sync_time.seconds # 0 =>
          /\ sync_stamp <= p.now
          /\ p.out = After(sync_time.seconds, Elapsed(p.now, sync_stamp, sync_time.parts))
Sound(p) ==
    /\ p.epoch <= epoch /\ p.now <= up
    /\ p.origin = "me" /\ p.epoch = epoch /\ set.at = "idle" => Timed(p)
AllSound == \A p \in Carried : Sound(p)

\* What ping_receive measures is a reply to this node, and left before it
\* looked at the clock.
Replying ==
    /\ get["svc"].use = "rtt" => get["svc"].pkt.origin = "me"
    /\ \A t \in Tasks : get[t].at \in {"sync", "seconds"} => get[t].pkt.now <= get[t].now

\* A ping on its way to be sent is within the bound.
Budget == get["main"].use = "ping" => pings < MaxPings

IInv == TypeOK /\ Commanded /\ Stamped /\ Fresh /\ AllSound /\ Replying /\ Budget

(***************************** arithmetic **********************************)

LEMMA DivLaw ==
    ASSUME NEW a \in Int, NEW b \in Nat \ {0}
    PROVE  a \div b \in Int /\ b * (a \div b) <= a /\ a < b * (a \div b) + b
OBVIOUS

LEMMA DivNat ==
    ASSUME NEW a \in Nat, NEW b \in Nat \ {0}
    PROVE  a \div b \in Nat
OBVIOUS

LEMMA ModLaw ==
    ASSUME NEW a \in Int, NEW b \in Nat \ {0}
    PROVE  a = b * (a \div b) + (a % b) /\ (a % b) \in 0..b - 1
OBVIOUS

LEMMA SmallMod ==
    ASSUME NEW b \in Nat \ {0}, NEW a \in 0..b - 1 PROVE a % b = a
OBVIOUS

LEMMA Cancel ==
    ASSUME NEW b \in Nat \ {0}, NEW x \in Int, NEW y \in Int, x * b < y * b + b
    PROVE  x <= y
OBVIOUS

LEMMA Scale ==
    ASSUME NEW b \in Nat, NEW x \in Int, NEW y \in Int, x <= y PROVE x * b <= y * b
OBVIOUS

LEMMA ModUnique ==
    ASSUME NEW b \in Nat \ {0}, NEW q \in Int, NEW r \in 0..b - 1
    PROVE  (b * q + r) % b = r
<1> DEFINE a == b * q + r
           k == a \div b
           s == a % b
<1>1. a \in Int /\ a = b * q + r
  OBVIOUS
<1> HIDE DEF a
<1>2. b * q + r = b * k + s /\ k \in Int /\ s \in 0..b - 1
  BY <1>1, ModLaw, DivLaw
<1> HIDE DEF k, s
<1>3. q * b < k * b + b /\ k * b < q * b + b
  BY <1>2
<1>4. q <= k /\ k <= q
  BY <1>2, <1>3, Cancel
<1>5. s = r
  BY <1>2, <1>4
<1> QED
  BY <1>5 DEF a, s

\* Differences survive the reduction to a word.
LEMMA ModDiff ==
    ASSUME NEW b \in Nat \ {0}, NEW x \in Int, NEW y \in Int, x - y \in 0..b - 1
    PROVE  ((x % b) - (y % b)) % b = x - y
<1> DEFINE d == x \div b e == y \div b r == x % b t == y % b
<1>1. x = b * d + r /\ y = b * e + t /\ d \in Int /\ e \in Int /\ r \in Int /\ t \in Int
  BY ModLaw, DivLaw
<1> HIDE DEF d, e, r, t
<1>2. r - t = b * (e - d) + (x - y) /\ e - d \in Int
  BY <1>1
<1>3. (b * (e - d) + (x - y)) % b = x - y
  BY <1>2, ModUnique
<1>4. (r - t) % b = x - y
  BY <1>2, <1>3
<1> QED
  BY <1>4 DEF r, t

LEMMA Constants ==
    /\ Parts \in Nat \ {0} /\ Millis \in Nat \ {0} /\ Word \in Nat \ {0}
    /\ Zero \in Time /\ Nothing \in Packet
<1>1. Parts \in Nat \ {0} /\ Millis \in Nat \ {0} /\ Word \in Nat \ {0} /\ MaxUp \in Nat
  BY TimeAssumption
<1>2. Zero \in Time
  BY <1>1 DEF Zero, Time
<1> QED
  BY <1>1, <1>2 DEF Nothing, Packet, Nodes

LEMMA QuotNat ==
    ASSUME NEW a \in Nat, NEW b \in Nat \ {0}
    PROVE  Quot(a, b) = a \div b /\ Rem(a, b) = a - b * (a \div b) /\ Rem(a, b) \in 0..b - 1
<1>1. Quot(a, b) = a \div b
  BY DEF Quot
<1>2. Rem(a, b) = a - b * (a \div b)
  BY <1>1 DEF Rem
<1> QED
  BY <1>1, <1>2, DivLaw

LEMMA QuotInt ==
    ASSUME NEW a \in Int, NEW b \in Nat \ {0} PROVE Quot(a, b) \in Int /\ Rem(a, b) \in Int
<1>1. Quot(a, b) \in Int
  BY DivLaw DEF Quot
<1> QED
  BY <1>1 DEF Rem

\* Whatever the delta, the result has the fields of a time.
LEMMA AfterType ==
    ASSUME NEW s \in Int, NEW d \in Int PROVE After(s, d) \in Time
<1>1. s + Quot(d, Millis) \in Int
  BY Constants, QuotInt
<1>2. Rem(d, Millis) * Parts \in Int
  BY Constants, QuotInt
<1>3. Quot(Rem(d, Millis) * Parts, Millis) \in Int
  BY <1>2, Constants, QuotInt
<1>4. (s + Quot(d, Millis)) % Word \in 0..Word - 1
  BY <1>1, Constants, ModLaw
<1>5. Quot(Rem(d, Millis) * Parts, Millis) % Parts \in 0..Parts - 1
  BY <1>3, Constants, ModLaw
<1> QED
  BY <1>4, <1>5 DEF After, Time

\* The result is the whole fraction at or just below the exact time.
LEMMA FloorLaw ==
    ASSUME NEW s \in Nat, NEW d \in Nat, s * Millis + d < Word * Millis
    PROVE  LET exact == s * Parts * Millis + d * Parts
           IN  /\ After(s, d).seconds * Parts + After(s, d).parts \in Nat
               /\ Fine(After(s, d)) \in Nat
               /\ Fine(After(s, d)) <= exact /\ exact < Fine(After(s, d)) + Millis
<1> DEFINE k == d \div Millis
           r == d - Millis * k
           f == (r * Parts) \div Millis
<1>1. k \in Nat /\ r \in 0..Millis - 1 /\ d = Millis * k + r
  BY Constants, DivLaw, DivNat
<1>2. Quot(d, Millis) = k /\ Rem(d, Millis) = r
  BY Constants, QuotNat
<1> HIDE DEF k, r
<1>3. r * Parts \in Nat /\ r * Parts < Millis * Parts
  BY <1>1, Constants
<1>4. f \in Nat /\ Millis * f <= r * Parts /\ r * Parts < Millis * f + Millis
  BY <1>3, Constants, DivLaw, DivNat
<1>5. Quot(Rem(d, Millis) * Parts, Millis) = f
  BY <1>2, <1>3, Constants, QuotNat
<1> HIDE DEF f
<1>6. f \in 0..Parts - 1
  <2>1. f * Millis < Parts * Millis
    BY <1>3, <1>4, Constants
  <2> QED
    BY <1>4, <2>1, Constants
<1>7. s + k \in 0..Word - 1
  <2>1. (s + k) * Millis < Word * Millis
    BY <1>1, Constants
  <2> QED
    BY <1>1, <2>1, Constants
<1>8. After(s, d) = [seconds |-> s + k, parts |-> f]
  BY <1>2, <1>5, <1>6, <1>7, Constants, SmallMod DEF After
<1>9. Fine(After(s, d)) = ((s + k) * Parts + f) * Millis
  BY <1>8 DEF Fine
<1>10. ((s + k) * Parts + f) * Millis = s * Parts * Millis + k * Parts * Millis + f * Millis
  BY <1>1, <1>4, Constants
<1>11. d * Parts = k * Parts * Millis + r * Parts
  BY <1>1, Constants
<1>12. (s + k) * Parts + f \in Nat /\ ((s + k) * Parts + f) * Millis \in Nat
  BY <1>1, <1>4, Constants
<1>13. /\ s * Parts * Millis \in Nat /\ k * Parts * Millis \in Nat
       /\ f * Millis \in Nat /\ r * Parts \in Nat
  BY <1>1, <1>4, Constants
<1> QED
  BY <1>4, <1>8, <1>9, <1>10, <1>11, <1>12, <1>13, Constants

\* The milliseconds of a fraction are cut to whole ones.
LEMMA ElapsedLaw ==
    ASSUME NEW now \in Nat, NEW stamp \in 0..now, NEW parts \in 0..Parts - 1
    PROVE  LET d == Elapsed(now, stamp, parts)
               x == parts * Millis + (now - stamp) * Parts
           IN  /\ d \in Nat /\ d < now + Millis
               /\ d * Parts <= x /\ x < d * Parts + Parts
<1> DEFINE c == (parts * Millis) \div Parts
<1>1. parts * Millis \in Nat /\ parts * Millis < Parts * Millis
  BY Constants
<1>2. c \in Nat /\ Parts * c <= parts * Millis /\ parts * Millis < Parts * c + Parts
  BY <1>1, Constants, DivLaw, DivNat
<1>3. Elapsed(now, stamp, parts) = now - stamp + c
  BY <1>1, Constants, QuotNat DEF Elapsed
<1> HIDE DEF c
<1>4. c < Millis
  <2>1. Parts * c < Parts * Millis
    BY <1>1, <1>2, Constants
  <2> QED
    BY <1>2, <2>1, Constants
<1>5. (now - stamp + c) * Parts = (now - stamp) * Parts + Parts * c
  BY <1>2, Constants
<1>6. (now - stamp) * Parts \in Nat /\ Parts * c \in Nat
  BY <1>2, Constants
<1> QED
  BY <1>1, <1>2, <1>3, <1>4, <1>5, <1>6, Constants

\* A reading of the clock that is set, at the uptime now.
Reading(now) == After(sync_time.seconds, Elapsed(now, sync_stamp, sync_time.parts))
Counted(t)   == t.seconds * Parts + t.parts

\* It is the exact time, cut to whole fractions.
LEMMA ReadingLaw ==
    ASSUME NEW now \in 0..MaxUp, sync_time \in Time, sync_stamp \in 0..now,
           (sync_time.seconds + 1) * Millis + MaxUp <= Word * Millis
    PROVE  LET d == Elapsed(now, sync_stamp, sync_time.parts)
               x == sync_time.seconds * Parts * Millis + d * Parts
           IN  /\ d \in Nat /\ x \in Nat
               /\ Counted(Reading(now)) \in Nat
               /\ Fine(Reading(now)) = Counted(Reading(now)) * Millis
               /\ Fine(Reading(now)) \in Nat
               /\ Fine(Reading(now)) <= x /\ x < Fine(Reading(now)) + Millis
               /\ x <= Exact(now) /\ Exact(now) < x + Parts
<1> DEFINE s == sync_time.seconds
           p == sync_time.parts
           d == Elapsed(now, sync_stamp, p)
           x == s * Parts * Millis + d * Parts
<1>0. s \in Nat /\ p \in 0..Parts - 1 /\ now \in Nat /\ MaxUp \in Nat
  BY TimeAssumption DEF Time
<1>1. LET y == p * Millis + (now - sync_stamp) * Parts
      IN  d \in Nat /\ d < now + Millis /\ d * Parts <= y /\ y < d * Parts + Parts
  BY <1>0, ElapsedLaw
<1> HIDE DEF d
<1>2. s * Millis + d < Word * Millis
  BY <1>0, <1>1, Constants
<1>3. /\ Counted(After(s, d)) \in Nat
      /\ Fine(After(s, d)) \in Nat
      /\ Fine(After(s, d)) <= x /\ x < Fine(After(s, d)) + Millis
  BY <1>0, <1>1, <1>2, FloorLaw DEF Counted
<1>4. Reading(now) = After(s, d)
  BY DEF Reading, d
<1>5. Fine(Reading(now)) = Counted(Reading(now)) * Millis
  BY DEF Fine, Counted
<1>6. Exact(now) = (s * Parts + p) * Millis + (now - sync_stamp) * Parts
  BY DEF Exact, Fine
<1>7. (s * Parts + p) * Millis = s * Parts * Millis + p * Millis
  BY <1>0, Constants
<1>8. s * Parts * Millis \in Nat /\ p * Millis \in Nat /\ d * Parts \in Nat
      /\ (now - sync_stamp) * Parts \in Nat
  BY <1>0, <1>1, Constants
<1>9. x \in Nat /\ x <= Exact(now) /\ Exact(now) < x + Parts
  BY <1>1, <1>6, <1>7, <1>8, Constants
<1>10. /\ d \in Nat /\ x \in Nat
       /\ Counted(Reading(now)) \in Nat
       /\ Fine(Reading(now)) = Counted(Reading(now)) * Millis
       /\ Fine(Reading(now)) \in Nat
       /\ Fine(Reading(now)) <= x /\ x < Fine(Reading(now)) + Millis
       /\ x <= Exact(now) /\ Exact(now) < x + Parts
  BY <1>1, <1>3, <1>4, <1>5, <1>9
<1> QED
  BY <1>10 DEF d

\* Two readings of the same clock are in order, and as far apart as the
\* uptimes they were taken at, give or take one fraction.
LEMMA ReadingsLaw ==
    ASSUME NEW a \in 0..MaxUp, NEW b \in a..MaxUp, sync_time \in Time, sync_stamp \in 0..a,
           (sync_time.seconds + 1) * Millis + MaxUp <= Word * Millis
    PROVE  LET off == (Counted(Reading(b)) - Counted(Reading(a))) * Millis - (b - a) * Parts
           IN  /\ Counted(Reading(a)) \in Nat /\ Counted(Reading(b)) \in Nat
               /\ Counted(Reading(a)) <= Counted(Reading(b))
               /\ Fine(Reading(a)) <= Fine(Reading(b))
               /\ -Millis < off /\ off < Millis
<1> DEFINE s == sync_time.seconds
           da == Elapsed(a, sync_stamp, sync_time.parts)
           db == Elapsed(b, sync_stamp, sync_time.parts)
           ra == Counted(Reading(a))
           rb == Counted(Reading(b))
           x == s * Parts * Millis
<1>0. b \in 0..MaxUp /\ sync_stamp \in 0..b /\ a \in Nat /\ b \in Nat /\ s \in Nat
  BY TimeAssumption DEF Time
<1>1. /\ da \in Nat /\ ra \in Nat /\ Fine(Reading(a)) = ra * Millis
      /\ ra * Millis <= x + da * Parts /\ x + da * Parts < ra * Millis + Millis
  BY ReadingLaw
<1>2. /\ db \in Nat /\ rb \in Nat /\ Fine(Reading(b)) = rb * Millis
      /\ rb * Millis <= x + db * Parts /\ x + db * Parts < rb * Millis + Millis
  BY <1>0, ReadingLaw
<1>3. db = da + (b - a)
  <2>1. Quot(sync_time.parts * Millis, Parts) \in Int
    <3>1. sync_time.parts * Millis \in Int
      BY Constants DEF Time
    <3> QED
      BY <3>1, Constants, QuotInt
  <2> QED
    BY <1>0, <2>1 DEF Elapsed
<1>4. x \in Nat
  BY <1>0, Constants
<1> HIDE DEF s, da, db, ra, rb, x
<1>5. db * Parts = da * Parts + (b - a) * Parts /\ (b - a) * Parts \in Nat /\ da * Parts \in Nat
  BY <1>0, <1>1, <1>3, Constants
<1>6. ra <= rb
  <2>1. ra * Millis < rb * Millis + Millis
    BY <1>1, <1>2, <1>4, <1>5, Constants
  <2> QED
    BY <1>1, <1>2, <2>1, Constants, Cancel
<1>7. ra * Millis <= rb * Millis
  BY <1>1, <1>2, <1>6, Constants, Scale
<1>8. (rb - ra) * Millis = rb * Millis - ra * Millis
  BY <1>1, <1>2, Constants
<1>9. /\ -Millis < (rb - ra) * Millis - (b - a) * Parts
      /\ (rb - ra) * Millis - (b - a) * Parts < Millis
  BY <1>1, <1>2, <1>4, <1>5, <1>8, Constants
<1> QED
  BY <1>1, <1>2, <1>6, <1>7, <1>9 DEF ra, rb

(***************************** one call ************************************)

Gets == [at : {"idle", "test", "now", "sync", "seconds"},
         use : {"date", "ping", "rtt", "back"}, pkt : Packet, to : SUBSET Peers, epoch : Nat,
         now : 0..MaxUp, stamp : 0..MaxUp, parts : 0..Parts - 1]

LEMMA NoGetType == NoGet \in Gets
<1>1. 0 \in 0..MaxUp /\ 0 \in 0..Parts - 1 /\ 0 \in Nat
  BY TimeAssumption
<1> QED
  BY <1>1, Constants DEF NoGet, Gets

\* A step of lownet_get_time touches the locals of one task.
LEMMA GetType ==
    ASSUME get \in [Tasks -> Gets], NEW t \in Tasks, NEW g \in Gets,
           get' = [get EXCEPT ![t] = g]
    PROVE  /\ get' \in [Tasks -> Gets] /\ get'[t] = g
           /\ \A u \in Tasks : u # t => get'[u] = get[u]
OBVIOUS

LEMMA CallEffect ==
    ASSUME get \in [Tasks -> Gets], epoch \in Nat, NEW t \in Tasks, NEW pkt \in Packet,
           NEW to \in SUBSET Peers,
           NEW use \in {"date", "ping", "rtt", "back"}, Call(t, use, pkt, to)
    PROVE  /\ get' \in [Tasks -> Gets]
           /\ get'[t].at = "test" /\ get'[t].use = use /\ get'[t].pkt = pkt
           /\ get'[t].epoch = epoch /\ get'[t].now = 0
           /\ \A u \in Tasks : u # t => get'[u] = get[u]
<1> DEFINE g == [NoGet EXCEPT !.at = "test", !.use = use, !.pkt = pkt, !.to = to,
                          !.epoch = epoch]
<1>1. g \in Gets
  BY NoGetType DEF Gets
<1>2. g.at = "test" /\ g.use = use /\ g.pkt = pkt /\ g.epoch = epoch /\ g.now = NoGet.now
  BY NoGetType DEF Gets
<1>3. NoGet.now = 0
  BY DEF NoGet
<1>4. get' = [get EXCEPT ![t] = g]
  BY DEF Call
<1> HIDE DEF g
<1>5. /\ get' \in [Tasks -> Gets] /\ get'[t] = g
      /\ \A u \in Tasks : u # t => get'[u] = get[u]
  BY <1>1, <1>4, GetType
<1> QED
  BY <1>2, <1>3, <1>5

LEMMA ReadEffect ==
    ASSUME TypeOK, NEW t \in Tasks, GetTime(t)
    PROVE  /\ get' \in [Tasks -> Gets]
           /\ get'[t].use = get[t].use /\ get'[t].pkt = get[t].pkt
           /\ get'[t].epoch = get[t].epoch
           /\ \/ /\ get'[t].at = "now" /\ get'[t].now = get[t].now /\ sync_time.seconds # 0
              \/ /\ get[t].at = "now" /\ get'[t].at = "sync" /\ get'[t].now = up
              \/ /\ get[t].at = "sync" /\ get'[t].at = "seconds" /\ get'[t].now = get[t].now
                 /\ get'[t].stamp = sync_stamp /\ get'[t].parts = sync_time.parts
           /\ \A u \in Tasks : u # t => get'[u] = get[u]
<1>1. get \in [Tasks -> Gets] /\ get[t] \in Gets
  BY DEF TypeOK, Gets
<1>2. CASE Synced(t)
  <2> DEFINE g == [get[t] EXCEPT !.at = "now"]
  <2>1. g \in Gets /\ get' = [get EXCEPT ![t] = g] /\ sync_time.seconds # 0
    BY <1>1, <1>2 DEF Synced, Gets
  <2>2. /\ g.at = "now" /\ g.now = get[t].now /\ g.use = get[t].use /\ g.pkt = get[t].pkt
        /\ g.epoch = get[t].epoch
    BY <1>1 DEF Gets
  <2> HIDE DEF g
  <2> QED
    BY <1>1, <2>1, <2>2, GetType
<1>3. CASE ReadNow(t)
  <2> DEFINE g == [get[t] EXCEPT !.at = "sync", !.now = up]
  <2>1. g \in Gets /\ get' = [get EXCEPT ![t] = g] /\ get[t].at = "now"
    BY <1>1, <1>3 DEF ReadNow, Gets, TypeOK
  <2>2. /\ g.at = "sync" /\ g.now = up /\ g.use = get[t].use /\ g.pkt = get[t].pkt
        /\ g.epoch = get[t].epoch
    BY <1>1 DEF Gets
  <2> HIDE DEF g
  <2> QED
    BY <1>1, <2>1, <2>2, GetType
<1>4. CASE ReadSync(t)
  <2> DEFINE g == [get[t] EXCEPT !.at = "seconds", !.stamp = sync_stamp,
                                 !.parts = sync_time.parts]
  <2>1. g \in Gets /\ get' = [get EXCEPT ![t] = g] /\ get[t].at = "sync"
    BY <1>1, <1>4 DEF ReadSync, Gets, TypeOK, Time
  <2>2. /\ g.at = "seconds" /\ g.now = get[t].now /\ g.use = get[t].use /\ g.pkt = get[t].pkt
        /\ g.epoch = get[t].epoch /\ g.stamp = sync_stamp /\ g.parts = sync_time.parts
    BY <1>1 DEF Gets
  <2> HIDE DEF g
  <2> QED
    BY <1>1, <2>1, <2>2, GetType
<1> QED
  BY <1>2, <1>3, <1>4 DEF GetTime

LEMMA ReturnEffect ==
    ASSUME get \in [Tasks -> Gets], NEW t \in Tasks, NEW use, Return(t, use)
    PROVE  /\ get' \in [Tasks -> Gets] /\ get'[t] = NoGet
           /\ \A u \in Tasks : u # t => get'[u] = get[u]
BY NoGetType, GetType DEF Return

\* What is returned has the fields of a time, whatever the reading saw.
LEMMA ResultType ==
    ASSUME TypeOK, NEW t \in Tasks PROVE Result(t) \in Time
<1>1. get[t] \in Gets
  BY DEF TypeOK, Gets
<1>2. sync_time.seconds \in Int /\ get[t].now \in Int /\ get[t].stamp \in Int
      /\ get[t].parts * Millis \in Int
  BY <1>1, Constants, TimeAssumption DEF TypeOK, Time, Gets
<1>3. Quot(get[t].parts * Millis, Parts) \in Int
  BY <1>2, Constants, QuotInt
<1>4. Elapsed(get[t].now, get[t].stamp, get[t].parts) \in Int
  BY <1>2, <1>3 DEF Elapsed
<1> QED
  BY <1>2, <1>4, AfterType, Constants DEF Result

(***************************** packets in the air **************************)

LEMMA MembersType == ASSUME NEW q \in Seq(Packet) PROVE Members(q) \subseteq Packet
BY ElementOfSeq DEF Members

LEMMA SendEffect ==
    ASSUME NEW q \in Seq(Packet), Len(q) <= NetDepth, NEW p \in Packet, NEW r \in Send(q, p)
    PROVE  /\ r \in Seq(Packet) /\ Len(r) <= NetDepth
           /\ Members(r) \subseteq Members(q) \cup {p}
<1>1. CASE r = q
  BY <1>1
<1>2. CASE r = Append(q, p) /\ Len(q) < NetDepth
  <2>1. /\ Len(q) \in Nat /\ NetDepth \in Nat /\ r \in Seq(Packet) /\ Len(r) = Len(q) + 1
        /\ r[Len(q) + 1] = p /\ \A i \in 1..Len(q) : r[i] = q[i]
    BY <1>2, AppendProperties, LenProperties, TimeAssumption
  <2>2. Members(r) \subseteq Members(q) \cup {p}
    BY <2>1 DEF Members
  <2> QED
    BY <1>2, <2>1, <2>2
<1> QED
  BY <1>1, <1>2 DEF Send

LEMMA TakeEffect ==
    ASSUME NEW q \in Seq(Packet), q # <<>>, Len(q) <= NetDepth
    PROVE  /\ Tail(q) \in Seq(Packet) /\ Len(Tail(q)) <= NetDepth
           /\ Head(q) \in Members(q) /\ Members(Tail(q)) \subseteq Members(q)
<1>1. /\ Len(q) \in Nat /\ Len(q) >= 1 /\ Head(q) = q[1] /\ Len(Tail(q)) = Len(q) - 1
      /\ Tail(q) \in Seq(Packet) /\ \A i \in 1..Len(Tail(q)) : Tail(q)[i] = q[i + 1]
  BY HeadTailProperties, LenProperties
<1>2. Head(q) \in Members(q)
  BY <1>1 DEF Members
<1>3. Members(Tail(q)) \subseteq Members(q)
  <2> SUFFICES ASSUME NEW i \in 1..Len(Tail(q)) PROVE Tail(q)[i] \in Members(q)
    BY DEF Members
  <2>1. i + 1 \in 1..Len(q) /\ Tail(q)[i] = q[i + 1]
    BY <1>1
  <2> QED
    BY <2>1 DEF Members
<1> QED
  BY <1>1, <1>2, <1>3, TimeAssumption

(***************************** one step ************************************)

\* A frame and the call that handles it: what a step puts into the hands of a
\* task is new, or was in the air.
LEMMA CallStep ==
    ASSUME TypeOK, PingCommand \/ DateCommand \/ Receive
    PROVE  \E t \in Tasks :
              /\ get' \in [Tasks -> Gets] /\ \A u \in Tasks : u # t => get'[u] = get[u]
              /\ get'[t].at = "test" /\ get'[t].epoch = epoch /\ get'[t].now = 0
              /\ get'[t].use = "rtt" => get'[t].pkt.origin = "me"
              /\ t = "main" /\ get'[t].use = "ping" => pings < MaxPings
              /\ get'[t].pkt \in Members(toMe) \cup {Nothing}
<1>1. get \in [Tasks -> Gets] /\ epoch \in Nat /\ toMe \in Seq(Packet)
  BY DEF TypeOK, Gets
<1>2. CASE PingCommand
  <2>1. \E to \in SUBSET Peers : Call("main", "ping", Nothing, to)
    BY <1>2 DEF PingCommand, Destinations
  <2>2. pings < MaxPings
    BY <1>2 DEF PingCommand
  <2> QED
    BY <1>1, <2>1, <2>2, Constants, CallEffect DEF Tasks
<1>3. CASE DateCommand
  <2>1. Call("main", "date", Nothing, {})
    BY <1>3 DEF DateCommand
  <2> QED
    BY <1>1, <2>1, Constants, CallEffect DEF Tasks
<1>4. CASE Receive
  <2> DEFINE use == IF Head(toMe).origin = "me" THEN "rtt" ELSE "back"
  <2>1. Call("svc", use, Head(toMe), {}) /\ toMe # <<>>
    BY <1>4 DEF Receive
  <2>2. Head(toMe) \in Members(toMe) /\ Head(toMe) \in Packet
    BY <1>1, <2>1, TakeEffect, MembersType DEF TypeOK
  <2>3. use \in {"date", "ping", "rtt", "back"} /\ (use = "rtt" => Head(toMe).origin = "me")
    OBVIOUS
  <2> HIDE DEF use
  <2> QED
    BY <1>1, <2>1, <2>2, <2>3, CallEffect DEF Tasks
<1> QED
  BY <1>2, <1>3, <1>4

TypeOfClock ==
    /\ up \in 0..MaxUp /\ sync_time \in Time /\ sync_stamp \in 0..MaxUp
    /\ set \in [at : {"idle", "parts", "stamp"}, parts : 0..Parts - 1]
    /\ epoch \in Nat /\ sets \in 0..MaxSets
TypeOfAir ==
    /\ toPeer \in [Peers -> Seq(Packet)] /\ \A p \in Peers : Len(toPeer[p]) <= NetDepth
    /\ toMe \in Seq(Packet) /\ Len(toMe) <= NetDepth
TypeOfCounts ==
    pings \in 0..MaxPings /\ peers \in 0..MaxPeer /\ replies \in [Peers -> Seq(Nat)]

LEMMA TypeParts ==
    TypeOK <=> TypeOfClock /\ get \in [Tasks -> Gets] /\ TypeOfAir /\ TypeOfCounts
BY DEF TypeOK, TypeOfClock, TypeOfAir, TypeOfCounts, Gets

LEMMA InitType == Init => TypeOK
<1> SUFFICES ASSUME Init PROVE TypeOK
  OBVIOUS
<1>1. TypeOfClock
  <2>1. 0 \in 0..MaxUp /\ 0 \in 0..Parts - 1 /\ 0 \in 0..MaxSets /\ Zero \in Time
    BY TimeAssumption, Constants DEF Zero, Time
  <2> QED
    BY <2>1 DEF Init, TypeOfClock
<1>2. get \in [Tasks -> Gets]
  BY NoGetType DEF Init
<1>3. TypeOfAir /\ TypeOfCounts
  <2>1. <<>> \in Seq(Packet) /\ <<>> \in Seq(Nat) /\ Len(<<>>) = 0
    BY EmptySeq
  <2>2. \A p \in Peers : [q \in Peers |-> <<>>][p] = <<>>
    OBVIOUS
  <2> QED
    BY <2>1, <2>2, TimeAssumption DEF Init, TypeOfAir, TypeOfCounts
<1> QED
  BY <1>1, <1>2, <1>3, TypeParts

LEMMA PingedType == ASSUME TypeOK, NEW p \in Peers PROVE Pinged(p) \in Packet
<1>1. Result("main") \in Time
  BY ResultType DEF Tasks
<1>2. get["main"] \in Gets /\ pings \in Nat /\ epoch \in Nat
  BY TimeAssumption DEF TypeOK, Gets, Tasks
<1> QED
  BY <1>1, <1>2 DEF Pinged, Packet, Gets, Nodes

\* A ping of another node.
PeerPacket(p) == [Nothing EXCEPT !.origin = p, !.node = p, !.id = peers + 1]

LEMMA PeerPacketType == ASSUME TypeOK, NEW p \in Peers PROVE PeerPacket(p) \in Packet
<1>1. peers + 1 \in Nat
  BY TimeAssumption DEF TypeOK
<1> QED
  BY <1>1, Constants DEF PeerPacket, Packet, Nodes

\* The ping that is sent gets to some of the nodes it is for.
LEMMA PingEffect ==
    ASSUME TypeOK, Ping
    PROVE  /\ toPeer' \in [Peers -> Seq(Packet)] /\ toMe' = toMe
           /\ \A p \in Peers : toPeer'[p] \in Send(toPeer[p], Pinged(p))
<1>1. PICK got \in SUBSET get["main"].to :
          toPeer' = [p \in Peers |-> IF p \in got /\ Len(toPeer[p]) < NetDepth
                                     THEN Append(toPeer[p], Pinged(p)) ELSE toPeer[p]]
  BY DEF Ping
<1>2. \A p \in Peers : toPeer[p] \in Seq(Packet) /\ Append(toPeer[p], Pinged(p)) \in Seq(Packet)
  BY PingedType, AppendProperties DEF TypeOK
<1>3. \A p \in Peers : toPeer'[p] \in Send(toPeer[p], Pinged(p))
  BY <1>1 DEF Send
<1>4. toPeer' \in [Peers -> Seq(Packet)]
  BY <1>1, <1>2
<1> QED
  BY <1>3, <1>4 DEF Ping

\* The answer goes to the node the ping came from.
LEMMA AnswerEffect ==
    ASSUME TypeOK, Answer
    PROVE  LET pkt == get["svc"].pkt
           IN  /\ toPeer' \in [Peers -> Seq(Packet)] /\ toMe' = toMe
               /\ \A p \in Peers : /\ p = pkt.node => toPeer'[p] \in Send(toPeer[p], pkt)
                                   /\ p # pkt.node => toPeer'[p] = toPeer[p]
<1> DEFINE pkt == get["svc"].pkt
<1>1. PICK q \in Send(toPeer[pkt.node], pkt) : toPeer' = [toPeer EXCEPT ![pkt.node] = q]
  BY DEF Answer
<1>2. toPeer \in [Peers -> Seq(Packet)] /\ pkt \in Packet
  BY DEF TypeOK, Tasks
<1> HIDE DEF pkt
<1>3. pkt.node \in Peers => q \in Seq(Packet)
  BY <1>1, <1>2, AppendProperties DEF Send
<1>4. toPeer' \in [Peers -> Seq(Packet)]
  BY <1>1, <1>2, <1>3
<1>5. \A p \in Peers : /\ p = pkt.node => toPeer'[p] \in Send(toPeer[p], pkt)
                       /\ p # pkt.node => toPeer'[p] = toPeer[p]
  BY <1>1, <1>2
<1> QED
  BY <1>4, <1>5 DEF pkt, Answer

\* Another node takes the frame that came first, and answers this node's ping.
LEMMA EchoEffect ==
    ASSUME TypeOK, NEW p \in Peers, Echo(p)
    PROVE  /\ toPeer' \in [Peers -> Seq(Packet)]
           /\ toPeer[p] # <<>> /\ toPeer'[p] = Tail(toPeer[p])
           /\ \A q \in Peers : q # p => toPeer'[q] = toPeer[q]
           /\ \/ Head(toPeer[p]).origin # p /\ toMe' \in Send(toMe, Head(toPeer[p]))
              \/ Head(toPeer[p]).origin = p /\ toMe' = toMe
<1>1. /\ toPeer[p] # <<>> /\ toPeer' = [toPeer EXCEPT ![p] = Tail(toPeer[p])]
      /\ toPeer \in [Peers -> Seq(Packet)]
  BY DEF Echo, TypeOK
<1>2. Tail(toPeer[p]) \in Seq(Packet)
  BY <1>1, TakeEffect DEF TypeOK
<1> QED
  BY <1>1, <1>2 DEF Echo

\* What a step leaves in the air: what was there, the ping that is sent, the
\* packet that is answered, or a ping of another node.
New == Carried \cup {PeerPacket(p) : p \in Peers}
               \cup (IF Ping THEN {Pinged(p) : p \in Peers} ELSE {})

LEMMA AirStep ==
    ASSUME TypeOK, Next
    PROVE  /\ TypeOfAir'
           /\ Members(toMe') \subseteq New
           /\ \A p \in Peers : Members(toPeer'[p]) \subseteq New
<1>0. /\ toPeer \in [Peers -> Seq(Packet)] /\ toMe \in Seq(Packet) /\ Len(toMe) <= NetDepth
      /\ \A p \in Peers : Len(toPeer[p]) <= NetDepth /\ Members(toPeer[p]) \subseteq New
      /\ Members(toMe) \subseteq New
      /\ \A t \in Tasks : get[t].pkt \in New /\ get[t].pkt \in Packet
  BY DEF TypeOK, Carried, Out, New
<1>1. CASE Ping
  <2>1. /\ toPeer' \in [Peers -> Seq(Packet)] /\ toMe' = toMe
        /\ \A p \in Peers : toPeer'[p] \in Send(toPeer[p], Pinged(p))
    BY <1>1, PingEffect
  <2>2. \A p \in Peers : /\ Len(toPeer'[p]) <= NetDepth
                         /\ Members(toPeer'[p]) \subseteq Members(toPeer[p]) \cup {Pinged(p)}
    BY <1>0, <2>1, PingedType, SendEffect
  <2>3. \A p \in Peers : Pinged(p) \in New
    BY <1>1 DEF New
  <2> QED
    BY <1>0, <2>1, <2>2, <2>3 DEF TypeOfAir
<1>2. CASE Answer
  <2>1. /\ toPeer' \in [Peers -> Seq(Packet)] /\ toMe' = toMe
        /\ \A p \in Peers : toPeer'[p] = toPeer[p] \/ toPeer'[p] \in Send(toPeer[p], get["svc"].pkt)
    BY <1>2, AnswerEffect
  <2>2. \A p \in Peers : /\ Len(toPeer'[p]) <= NetDepth
                         /\ Members(toPeer'[p]) \subseteq Members(toPeer[p]) \cup {get["svc"].pkt}
    <3> DEFINE s == get["svc"].pkt
    <3>1. s \in Packet
      BY <1>0 DEF Tasks
    <3> HIDE DEF s
    <3>2. ASSUME NEW p \in Peers, toPeer'[p] \in Send(toPeer[p], s)
          PROVE  Len(toPeer'[p]) <= NetDepth /\ Members(toPeer'[p]) \subseteq Members(toPeer[p]) \cup {s}
      BY <1>0, <3>1, <3>2, SendEffect
    <3> QED
      BY <1>0, <2>1, <3>2 DEF s
  <2>3. get["svc"].pkt \in New
    BY <1>0 DEF Tasks
  <2> QED
    BY <1>0, <2>1, <2>2, <2>3 DEF TypeOfAir
<1>3. CASE Receive
  <2>1. toMe # <<>> /\ toMe' = Tail(toMe) /\ toPeer' = toPeer
    BY <1>3 DEF Receive
  <2>2. /\ toMe' \in Seq(Packet) /\ Len(toMe') <= NetDepth
        /\ Members(toMe') \subseteq Members(toMe)
    BY <1>0, <2>1, TakeEffect
  <2> QED
    BY <1>0, <2>1, <2>2 DEF TypeOfAir
<1>4. CASE \E p \in Peers : Echo(p)
  <2>1. PICK p \in Peers : Echo(p)
    BY <1>4
  <2> DEFINE h == Head(toPeer[p])
  <2>2. /\ toPeer' \in [Peers -> Seq(Packet)] /\ toPeer[p] # <<>> /\ toPeer'[p] = Tail(toPeer[p])
        /\ \A q \in Peers : q # p => toPeer'[q] = toPeer[q]
        /\ toMe' \in Send(toMe, h) \/ toMe' = toMe
    BY <2>1, EchoEffect
  <2>3. /\ Len(toPeer'[p]) <= NetDepth /\ Members(toPeer'[p]) \subseteq Members(toPeer[p])
        /\ h \in Members(toPeer[p])
    BY <1>0, <2>2, TakeEffect
  <2>4. h \in Packet
    BY <1>0, <2>3, MembersType
  <2> HIDE DEF h
  <2>5. /\ toMe' \in Seq(Packet) /\ Len(toMe') <= NetDepth
        /\ Members(toMe') \subseteq Members(toMe) \cup {h}
    BY <1>0, <2>2, <2>4, SendEffect
  <2>6. \A q \in Peers : Len(toPeer'[q]) <= NetDepth /\ Members(toPeer'[q]) \subseteq New
    BY <1>0, <2>2, <2>3
  <2> QED
    BY <1>0, <2>2, <2>3, <2>5, <2>6 DEF TypeOfAir
<1>5. CASE \E p \in Peers : PeerPing(p)
  <2>1. PICK p \in Peers : toMe' \in Send(toMe, PeerPacket(p)) /\ toPeer' = toPeer
    BY <1>5 DEF PeerPing, PeerPacket
  <2>2. /\ toMe' \in Seq(Packet) /\ Len(toMe') <= NetDepth
        /\ Members(toMe') \subseteq Members(toMe) \cup {PeerPacket(p)}
    BY <1>0, <2>1, PeerPacketType, SendEffect
  <2> QED
    BY <1>0, <2>1, <2>2 DEF TypeOfAir, New
<1>6. CASE UNCHANGED <<toPeer, toMe>>
  BY <1>0, <1>6 DEF TypeOfAir
<1> QED
  BY <1>1, <1>2, <1>3, <1>4, <1>5, <1>6
  DEF Next, Main, Svc, User, GetTime, Synced, ReadNow, ReadSync, Date, SetTime, SetParts,
      SetStamp, PrintReply, PingCommand, DateCommand, Tick, pingVars

\* How a step changes the locals of the tasks.
Kept(t) == \A u \in Tasks : u # t => get'[u] = get[u]

LEMMA TaskStep ==
    ASSUME TypeOK, Next
    PROVE  \/ get' = get
           \/ GetTime("main") \/ GetTime("svc")
           \/ PingCommand \/ DateCommand \/ Receive
           \/ \E t \in Tasks : /\ get' \in [Tasks -> Gets] /\ get'[t] = NoGet /\ Kept(t)
                              /\ UNCHANGED <<up, clockVars>>
<1>0. get \in [Tasks -> Gets]
  BY DEF TypeOK, Gets
<1>1. CASE Ping \/ Date \/ PrintReply \/ Answer
  <2>1. PICK t \in Tasks : \E use \in {"ping", "date", "rtt", "back"} : Return(t, use)
    BY <1>1 DEF Ping, Date, PrintReply, Answer, Tasks
  <2>2. /\ get' \in [Tasks -> Gets] /\ get'[t] = NoGet /\ Kept(t) /\ UNCHANGED <<up, clockVars>>
    BY <1>0, <2>1, ReturnEffect DEF Return, Kept
  <2> QED
    BY <2>2
<1> QED
  BY <1>1 DEF Next, Main, Svc, User, Tick, Echo, PeerPing, SetTime, SetParts, SetStamp

LEMMA TypeStep == ASSUME TypeOK, Budget, [Next]_vars PROVE TypeOK'
<1>0. TypeOfClock /\ get \in [Tasks -> Gets] /\ TypeOfAir /\ TypeOfCounts
  BY TypeParts
<1>1. CASE UNCHANGED vars
  BY <1>1 DEF vars, clockVars, pingVars, TypeOK
<1>2. CASE Next
  <2>1. TypeOfClock'
    <3>1. CASE Tick
      BY <1>0, <3>1, TimeAssumption DEF TypeOfClock, Tick, clockVars
    <3>2. CASE \E time \in Times : SetTime(time)
      <4>1. PICK time \in Times : SetTime(time)
        BY <3>2
      <4>2. time \in Time
        BY TimeAssumption
      <4> QED
        BY <1>0, <4>1, <4>2, TimeAssumption DEF TypeOfClock, SetTime, Time
    <3>3. CASE SetParts
      BY <1>0, <3>3 DEF TypeOfClock, SetParts, Time
    <3>4. CASE SetStamp
      BY <1>0, <3>4, Constants DEF TypeOfClock, SetStamp
    <3>5. CASE UNCHANGED <<up, clockVars>>
      BY <1>0, <3>5 DEF TypeOfClock, clockVars
    <3> QED
      BY <1>2, <3>1, <3>2, <3>3, <3>4, <3>5
      DEF Next, Main, Svc, User, GetTime, Synced, ReadNow, ReadSync, Ping, Date, Return,
          Receive, PrintReply, Answer, PingCommand, DateCommand, Echo, PeerPing
  <2>2. get' \in [Tasks -> Gets]
    <3>1. CASE get' = get
      BY <1>0, <3>1
    <3>2. CASE GetTime("main") \/ GetTime("svc")
      BY <3>2, ReadEffect DEF Tasks
    <3>3. CASE PingCommand \/ DateCommand \/ Receive
      BY <3>3, CallStep
    <3> QED
      BY <1>2, <3>1, <3>2, <3>3, TaskStep
  <2>3. TypeOfAir'
    BY <1>2, AirStep, SMTT(30)
  <2>4. TypeOfCounts'
    <3>1. CASE Ping
      <4>1. pings < MaxPings
        BY <3>1 DEF Ping, Return, Budget
      <4> QED
        BY <1>0, <3>1, <4>1, TimeAssumption DEF TypeOfCounts, Ping
    <3>2. CASE PrintReply
      <4>1. get["svc"].pkt.id \in Nat
        BY <1>0 DEF Tasks, Gets, Packet
      <4> QED
        <5>1. \A p \in Peers : Append(replies[p], get["svc"].pkt.id) \in Seq(Nat)
          BY <1>0, <4>1, AppendProperties DEF TypeOfCounts
        <5> QED
          BY <1>0, <3>2, <5>1 DEF TypeOfCounts, PrintReply
    <3>3. CASE \E p \in Peers : PeerPing(p)
      BY <1>0, <3>3, TimeAssumption, SMTT(30) DEF TypeOfCounts, PeerPing
    <3>4. CASE UNCHANGED <<pings, peers, replies>>
      BY <1>0, <3>4 DEF TypeOfCounts
    <3> QED
      BY <1>2, <3>1, <3>2, <3>3, <3>4
      DEF Next, Main, Svc, User, GetTime, Synced, ReadNow, ReadSync, Date, SetTime, SetParts,
          SetStamp, Receive, Answer, PingCommand, DateCommand, Echo, Tick, pingVars
  <2> QED
    BY <2>1, <2>2, <2>3, <2>4, TypeParts DEF TypeOK, TypeOfClock, TypeOfAir, TypeOfCounts, Gets
<1> QED
  BY <1>1, <1>2

\* The clock: a store counts and changes nothing else, and every other step
\* leaves it as it is, with time passing.
Setting  == (\E time \in Times : SetTime(time)) \/ SetParts \/ SetStamp
Stored   == /\ epoch' = epoch + 1 /\ up' = up /\ get' = get
            /\ toPeer' = toPeer /\ toMe' = toMe
Ticking  == /\ UNCHANGED clockVars /\ (up' = up \/ up' = up + 1)

LEMMA ClockStep ==
    ASSUME Next
    PROVE  (Setting /\ Stored) \/ (~Setting /\ Ticking)
<1>1. CASE Setting
  BY <1>1 DEF Setting, SetTime, SetParts, SetStamp, Stored, pingVars
<1>2. CASE ~Setting
  BY <1>2 DEF Setting, Next, Main, Svc, User, GetTime, Synced, ReadNow, ReadSync, Ping, Date,
      Return, Receive, PrintReply, Answer, PingCommand, DateCommand, Echo, PeerPing, Tick,
      Ticking
<1> QED
  BY <1>1, <1>2

(***************************** the invariant *******************************)

LEMMA InitIInv == Init => IInv
<1> SUFFICES ASSUME Init PROVE IInv
  OBVIOUS
<1>1. TypeOK
  BY InitType
<1>2. Commanded
  BY DEF Init, Commanded, Zero
<1>3. \A t \in Tasks : get[t] = NoGet /\ get[t].epoch = 0 /\ get[t].now = 0
                       /\ get[t].at = "idle" /\ get[t].use = "date" /\ get[t].pkt = Nothing
  BY DEF Init, NoGet
<1>4. Stamped /\ Fresh /\ Replying /\ Budget
  BY <1>3 DEF Stamped, Fresh, Replying, Budget, Init, Tasks
<1>5. AllSound
  <2>1. Out = {} /\ Members(toMe) = {}
    BY DEF Init, Members, Out
  <2>2. Carried \subseteq {Nothing}
    BY <1>3, <2>1 DEF Carried
  <2>3. Sound(Nothing)
    BY DEF Sound, Timed, Nothing, Init, Zero
  <2> QED
    BY <2>2, <2>3 DEF AllSound
<1> QED
  BY <1>1, <1>2, <1>4, <1>5 DEF IInv

\* A store: every reading under way is disturbed, and every ping in the air
\* has left under an older clock.
LEMMA StoreStep ==
    ASSUME IInv, Setting, Stored
    PROVE  Commanded' /\ Stamped' /\ Fresh' /\ AllSound' /\ Replying' /\ Budget'
<1>0. /\ epoch \in Nat /\ get \in [Tasks -> Gets] /\ up \in Nat /\ sync_time \in Time
      /\ sync_stamp \in Nat
      /\ epoch' = epoch + 1 /\ up' = up /\ get' = get /\ toPeer' = toPeer /\ toMe' = toMe
  BY TimeAssumption DEF IInv, TypeOK, Stored, Gets
<1>1. Commanded'
  <2>1. CASE \E time \in Times : SetTime(time)
    <3>1. PICK time \in Times : SetTime(time)
      BY <2>1
    <3>2. sync_time'.seconds = time.seconds
      BY <1>0, <3>1 DEF SetTime, Time
    <3> QED
      BY <1>0, <3>2 DEF Commanded
  <2>2. CASE SetParts \/ SetStamp
    <3>1. sync_time'.seconds = sync_time.seconds
      BY <1>0, <2>2 DEF SetParts, SetStamp, Time
    <3> QED
      BY <1>0, <3>1 DEF Commanded, IInv
  <2> QED
    BY <2>1, <2>2 DEF Setting
<1>2. \A t \in Tasks : get[t].epoch \in Nat /\ get[t].epoch <= epoch /\ get[t].now <= up
  BY <1>0 DEF IInv, Stamped, Gets
<1>3. Stamped'
  <2>1. sync_stamp' <= up
    BY <1>0 DEF Setting, SetTime, SetParts, SetStamp, IInv, Stamped
  <2> QED
    BY <1>0, <1>2, <2>1 DEF Stamped
<1>4. Fresh'
  BY <1>0, <1>2 DEF Fresh, Undisturbed
<1>5. Carried' = Carried
  BY <1>0 DEF Carried, Out, Members
<1>6. AllSound'
  <2> SUFFICES ASSUME NEW p \in Carried PROVE Sound(p)'
    BY <1>5 DEF AllSound
  <2>1. p \in Packet
    BY MembersType DEF Carried, Out, IInv, TypeOK
  <2>2. p.epoch \in Int /\ p.epoch <= epoch /\ p.now <= up
    BY <2>1 DEF IInv, AllSound, Sound, Packet
  <2> QED
    BY <1>0, <2>2 DEF Sound
<1>7. Replying' /\ Budget'
  <2>1. pings' = pings
    BY DEF Setting, SetTime, SetParts, SetStamp, pingVars
  <2> QED
    BY <1>0, <2>1 DEF Replying, Budget, IInv
<1> QED
  BY <1>1, <1>3, <1>4, <1>6, <1>7

\* What a reading has seen of a clock that stands still.
Seen(t) ==
    /\ get[t].epoch <= epoch /\ get[t].now <= up
    /\ Undisturbed(t) =>
          /\ get[t].at \in {"now", "sync", "seconds"} => sync_time.seconds # 0
          /\ get[t].at \in {"sync", "seconds"} => sync_stamp <= get[t].now
          /\ get[t].at = "seconds" => /\ get[t].stamp = sync_stamp
                                      /\ get[t].parts = sync_time.parts
    /\ get[t].at \in {"sync", "seconds"} => get[t].pkt.now <= get[t].now

LEMMA AllSeen ==
    (\A t \in Tasks : Seen(t)) /\ sync_stamp <= up
        <=> Stamped /\ Fresh /\ (\A t \in Tasks : get[t].at \in {"sync", "seconds"}
                                                     => get[t].pkt.now <= get[t].now)
BY DEF Seen, Stamped, Fresh

\* A task whose locals do not change keeps what it has seen.
LEMMA SeenStays ==
    ASSUME NEW t \in Tasks, IInv, Seen(t), Ticking, get'[t] = get[t]
    PROVE  Seen(t)'
<1>1. get[t] \in Gets /\ up \in Nat
  BY TimeAssumption DEF IInv, TypeOK, Gets
<1>2. get[t].now <= up'
  BY <1>1 DEF Seen, Ticking, Gets
<1> QED
  BY <1>2 DEF Seen, Undisturbed, Ticking, clockVars

\* The two tasks, while the clock stands still.
LEMMA ReadStep ==
    ASSUME IInv, Next, ~Setting, Ticking
    PROVE  Stamped' /\ Fresh' /\ Replying' /\ Budget'
<1>0. /\ get \in [Tasks -> Gets] /\ epoch \in Nat /\ up \in Nat /\ sync_stamp \in Nat
      /\ epoch' = epoch /\ set' = set /\ sync_time' = sync_time /\ sync_stamp' = sync_stamp
  BY TimeAssumption DEF IInv, TypeOK, Gets, Ticking, clockVars
<1>1. (\A t \in Tasks : Seen(t)) /\ sync_stamp <= up
  BY AllSeen DEF IInv, Replying
<1>2. sync_stamp' <= up'
  BY <1>0, <1>1 DEF Ticking
<1>3. \A t \in Tasks : get[t].pkt.now <= up
  BY DEF IInv, AllSound, Sound, Carried
<1>4. /\ \A t \in Tasks : Seen(t)'
      /\ get'["svc"].use = "rtt" => get'["svc"].pkt.origin = "me"
  <2>0. "svc" \in Tasks /\ (get["svc"].use = "rtt" => get["svc"].pkt.origin = "me")
    BY DEF Tasks, IInv, Replying
  <2>1. CASE get' = get
    BY <1>1, <2>0, <2>1, SeenStays
  <2>2. CASE GetTime("main") \/ GetTime("svc")
    <3>1. PICK t \in Tasks : GetTime(t)
      BY <2>2 DEF Tasks
    <3>2. up' = up
      BY <3>1 DEF GetTime, Synced, ReadNow, ReadSync
    <3>3. /\ get'[t].use = get[t].use /\ get'[t].pkt = get[t].pkt
          /\ get'[t].epoch = get[t].epoch
          /\ \A u \in Tasks : u # t => get'[u] = get[u]
      BY <3>1, ReadEffect DEF IInv
    <3>9. Seen(t) /\ get[t].pkt.now <= up
      BY <1>1, <1>3
    <3>7. Seen(t)'
      <4>1. CASE get'[t].at = "now" /\ get'[t].now = get[t].now /\ sync_time.seconds # 0
        BY <1>0, <3>2, <3>3, <3>9, <4>1 DEF Seen, Undisturbed
      <4>2. CASE get[t].at = "now" /\ get'[t].at = "sync" /\ get'[t].now = up
        BY <1>0, <1>1, <3>2, <3>3, <3>9, <4>2 DEF Seen, Undisturbed
      <4>3. CASE /\ get[t].at = "sync" /\ get'[t].at = "seconds" /\ get'[t].now = get[t].now
                 /\ get'[t].stamp = sync_stamp /\ get'[t].parts = sync_time.parts
        BY <1>0, <3>2, <3>3, <3>9, <4>3 DEF Seen, Undisturbed
      <4> QED
        BY <3>1, <4>1, <4>2, <4>3, ReadEffect DEF IInv
    <3>8. \A u \in Tasks : Seen(u)'
      BY <1>1, <3>3, <3>7, SeenStays
    <3> QED
      BY <2>0, <3>3, <3>8
  <2>3. CASE PingCommand \/ DateCommand \/ Receive
    <3>1. PICK t \in Tasks :
              /\ \A u \in Tasks : u # t => get'[u] = get[u]
              /\ get'[t].at = "test" /\ get'[t].epoch = epoch /\ get'[t].now = 0
              /\ get'[t].use = "rtt" => get'[t].pkt.origin = "me"
      BY <2>3, CallStep DEF IInv
    <3>2. 0 <= up'
      BY <1>0 DEF Ticking
    <3>3. Seen(t)'
      BY <1>0, <3>1, <3>2 DEF Seen
    <3>4. \A u \in Tasks : Seen(u)'
      BY <1>1, <3>1, <3>3, SeenStays
    <3> QED
      BY <2>0, <3>1, <3>4
  <2>4. CASE \E t \in Tasks : get'[t] = NoGet /\ Kept(t)
    <3>1. PICK t \in Tasks : get'[t] = NoGet /\ Kept(t)
      BY <2>4
    <3>2. get'[t].at = "idle" /\ get'[t].use = "date" /\ get'[t].epoch = 0 /\ get'[t].now = 0
      BY <3>1 DEF NoGet
    <3>3. 0 <= up' /\ 0 <= epoch
      BY <1>0 DEF Ticking
    <3>4. Seen(t)'
      BY <1>0, <3>2, <3>3 DEF Seen
    <3>5. \A u \in Tasks : Seen(u)'
      BY <1>1, <3>1, <3>4, SeenStays DEF Kept
    <3> QED
      BY <2>0, <3>1, <3>2, <3>5 DEF Kept
  <2> QED
    BY <2>1, <2>2, <2>3, <2>4, TaskStep DEF IInv
<1>5. Stamped' /\ Fresh' /\ Replying'
  BY <1>2, <1>4 DEF Seen, Stamped, Fresh, Replying
<1>6. Budget'
  <2>1. CASE Ping
    <3>1. get'["main"] = NoGet
      BY <1>0, <2>1, ReturnEffect DEF Ping, Tasks
    <3> QED
      BY <3>1 DEF Budget, NoGet
  <2>2. CASE ~Ping
    <3>1. pings' = pings
      BY <2>2 DEF Next, Main, Svc, User, GetTime, Synced, ReadNow, ReadSync, Date, SetTime,
          SetParts, SetStamp, PrintReply, Answer, Receive, PingCommand, DateCommand, Tick,
          Echo, PeerPing, pingVars
    <3>2. \/ get'["main"] = get["main"] \/ get'["main"].use = get["main"].use
          \/ get'["main"].use = "date" \/ (get'["main"].use = "ping" => pings < MaxPings)
      <4>1. CASE GetTime("main") \/ GetTime("svc")
        BY <4>1, ReadEffect DEF IInv, Tasks
      <4>2. CASE PingCommand \/ DateCommand \/ Receive
        BY <4>2, CallStep DEF IInv, Tasks
      <4>3. CASE \E t \in Tasks : get'[t] = NoGet /\ Kept(t)
        BY <4>3 DEF Kept, Tasks, NoGet
      <4> QED
        BY <4>1, <4>2, <4>3, TaskStep DEF IInv
    <3> QED
      BY <3>1, <3>2, SMTT(30) DEF Budget, IInv
  <2> QED
    BY <2>1, <2>2
<1> QED
  BY <1>5, <1>6

LEMMA SoundStays ==
    ASSUME IInv, Ticking, NEW p \in Packet, Sound(p)
    PROVE  Sound(p)'
<1>1. /\ epoch' = epoch /\ set' = set /\ sync_time' = sync_time /\ sync_stamp' = sync_stamp
      /\ p.now \in Nat /\ up \in Nat
  BY TimeAssumption DEF Ticking, clockVars, Packet, IInv, TypeOK
<1>2. p.now <= up'
  BY <1>1 DEF Sound, Ticking
<1> QED
  BY <1>1, <1>2 DEF Sound, Timed

LEMMA NothingSound ==
    ASSUME IInv PROVE Sound(Nothing) /\ \A p \in Peers : Sound(PeerPacket(p))
<1>1. up \in Nat /\ epoch \in Nat /\ "me" \notin Peers
  BY TimeAssumption DEF IInv, TypeOK
<1>2. Nothing.epoch = 0 /\ Nothing.now = 0 /\ Nothing.out = Zero
  BY DEF Nothing
<1>3. \A p \in Peers : /\ PeerPacket(p).origin = p /\ PeerPacket(p).epoch = 0
                       /\ PeerPacket(p).now = 0
  BY <1>2 DEF PeerPacket, Nothing
<1>4. epoch = 0 => sync_time.seconds = 0
  BY DEF IInv, Commanded
<1> QED
  BY <1>1, <1>2, <1>3, <1>4 DEF Sound, Timed

\* The ping that leaves carries the reading of the clock that is set.
LEMMA PingedSound ==
    ASSUME IInv, Ping, NEW p \in Peers PROVE Sound(Pinged(p))
<1>1. get["main"] \in Gets /\ epoch \in Nat /\ "main" \in Tasks
  BY DEF IInv, TypeOK, Gets, Tasks
<1>2. Pinged(p).now = get["main"].now /\ Pinged(p).out = Result("main")
      /\ Pinged(p).epoch = IF Undisturbed("main") THEN epoch ELSE -1
  BY DEF Pinged
<1>3. Pinged(p).now <= up /\ Pinged(p).epoch <= epoch
  BY <1>1, <1>2 DEF IInv, Stamped
<1>4. ASSUME Pinged(p).epoch = epoch, sync_time.seconds # 0
      PROVE  /\ sync_stamp <= Pinged(p).now
             /\ Pinged(p).out = After(sync_time.seconds,
                                   Elapsed(Pinged(p).now, sync_stamp, sync_time.parts))
  <2>1. Undisturbed("main")
    BY <1>1, <1>2, <1>4
  <2>2. get["main"].at = "seconds"
    BY <1>4 DEF Ping, Return, Returns
  <2>3. sync_stamp <= get["main"].now /\ get["main"].stamp = sync_stamp
        /\ get["main"].parts = sync_time.parts
    BY <1>1, <2>1, <2>2 DEF IInv, Fresh
  <2>4. Result("main") = After(sync_time.seconds,
                               Elapsed(get["main"].now, sync_stamp, sync_time.parts))
    BY <2>2, <2>3 DEF Result
  <2> QED
    BY <1>2, <2>3, <2>4
<1>5. ASSUME Pinged(p).epoch = epoch, sync_time.seconds = 0
      PROVE  Pinged(p).out = Zero
  <2>1. Undisturbed("main")
    BY <1>1, <1>2, <1>5
  <2>2. get["main"].at = "test"
    BY <1>1, <1>5, <2>1 DEF Ping, Return, Returns, IInv, Fresh
  <2> QED
    BY <1>2, <2>2 DEF Result
<1> QED
  BY <1>3, <1>4, <1>5 DEF Sound, Timed

\* The packets, while the clock stands still.
LEMMA CarryStep ==
    ASSUME IInv, Next, ~Setting, Ticking
    PROVE  AllSound' /\ Commanded'
<1>1. \A p \in Carried : Sound(p) /\ p \in Packet
  <2>1. /\ \A p \in Peers : Members(toPeer[p]) \subseteq Packet
        /\ Members(toMe) \subseteq Packet /\ \A t \in Tasks : get[t].pkt \in Packet
    BY MembersType DEF IInv, TypeOK
  <2>2. \A p \in Carried : p \in Packet
    BY <2>1 DEF Carried, Out
  <2> QED
    BY <2>2 DEF IInv, AllSound
<1>2. (Out \cup Members(toMe))' \subseteq New
  <2>1. Members(toMe)' = Members(toMe') /\ Out' = UNION {Members(toPeer'[p]) : p \in Peers}
    BY DEF Out, Members
  <2> QED
    BY <2>1, AirStep DEF IInv
<1>3. \A t \in Tasks : get'[t].pkt \in Carried \cup {Nothing}
  <2>1. \A t \in Tasks : get[t].pkt \in Carried
    BY DEF Carried
  <2>2. CASE GetTime("main") \/ GetTime("svc")
    BY <2>1, <2>2, ReadEffect DEF IInv, Tasks
  <2>3. CASE PingCommand \/ DateCommand \/ Receive
    <3>1. PICK t \in Tasks : /\ \A u \in Tasks : u # t => get'[u] = get[u]
                             /\ get'[t].pkt \in Members(toMe) \cup {Nothing}
      BY <2>3, CallStep DEF IInv
    <3> QED
      BY <2>1, <3>1 DEF Carried
  <2>4. CASE \E t \in Tasks : get'[t] = NoGet /\ Kept(t)
    BY <2>1, <2>4 DEF Kept, NoGet
  <2> QED
    BY <2>1, <2>2, <2>3, <2>4, TaskStep DEF IInv
<1>4. ASSUME NEW p \in Carried' PROVE Sound(p)'
  <2>1. p \in New \cup {Nothing}
    BY <1>2, <1>3 DEF Carried, New
  <2>2. p \in Packet /\ Sound(p)
    <3>1. CASE p \in Carried
      BY <1>1, <3>1
    <3>2. CASE p = Nothing \/ \E q \in Peers : p = PeerPacket(q)
      BY <3>2, NothingSound, PeerPacketType, Constants DEF IInv
    <3>3. CASE Ping /\ \E q \in Peers : p = Pinged(q)
      BY <3>3, PingedSound, PingedType DEF IInv
    <3> QED
      BY <2>1, <3>1, <3>2, <3>3 DEF New
  <2> QED
    BY <2>2, SoundStays
<1>5. Commanded'
  BY DEF IInv, Commanded, Ticking, clockVars
<1> QED
  BY <1>4, <1>5 DEF AllSound

LEMMA StepIInv == IInv /\ [Next]_vars => IInv'
<1> SUFFICES ASSUME IInv, [Next]_vars PROVE IInv'
  OBVIOUS
<1>1. CASE UNCHANGED vars
  BY <1>1 DEF vars, clockVars, pingVars, IInv, TypeOK, Commanded, Stamped, Fresh, AllSound,
      Sound, Timed, Carried, Out, Members, Replying, Budget, Undisturbed
<1>2. CASE Next
  <2>1. TypeOK'
    BY TypeStep DEF IInv
  <2>2. CASE Setting /\ Stored
    BY <2>1, <2>2, StoreStep DEF IInv
  <2>3. CASE ~Setting /\ Ticking
    BY <1>2, <2>1, <2>3, ReadStep, CarryStep DEF IInv
  <2> QED
    BY <1>2, <2>2, <2>3, ClockStep
<1> QED
  BY <1>1, <1>2

\* The inductive invariant: the two tasks read and store unlocked, yet a
\* reading that no store came between holds what is still set (lownet.c,
\* lines 230-258).
THEOREM NetTimeInvariant == Spec => []IInv
BY InitIInv, StepIInv, PTL DEF Spec

\* Each variable keeps its type, the words of the readings included.
THEOREM NetTimeTypeCorrect == Spec => []TypeOK
<1>1. IInv => TypeOK
  BY DEF IInv
<1> QED
  BY <1>1, NetTimeInvariant, PTL

(***************************** the readings ********************************)

\* What an undisturbed reading returns, under the limit of the seconds.
LEMMA ReadFacts ==
    ASSUME IInv, ClockLasts, NEW t \in Tasks, Read(t)
    PROVE  /\ get[t].now \in 0..MaxUp /\ sync_stamp \in 0..get[t].now
           /\ sync_time \in Time /\ sync_time.seconds # 0
           /\ (sync_time.seconds + 1) * Millis + MaxUp <= Word * Millis
           /\ Result(t) = Reading(get[t].now)
<1>1. /\ get[t] \in Gets /\ sync_stamp \in 0..MaxUp /\ sync_time \in Time
  BY DEF IInv, TypeOK, Gets
<1>2. /\ sync_time.seconds # 0 /\ sync_stamp <= get[t].now
      /\ get[t].stamp = sync_stamp /\ get[t].parts = sync_time.parts
  BY DEF IInv, Fresh, Read
<1>3. Result(t) = Reading(get[t].now)
  BY <1>2 DEF Read, Result, Reading
<1>4. get[t].now \in 0..MaxUp /\ sync_stamp \in 0..get[t].now
  BY <1>1, <1>2 DEF Gets
<1>5. (sync_time.seconds + 1) * Millis + MaxUp <= Word * Millis
  BY <1>2 DEF IInv, Commanded, ClockLasts
<1> QED
  BY <1>1, <1>2, <1>3, <1>4, <1>5

\* Behind the exact time by less than a fraction and a millisecond, and never
\* ahead of it (lownet.c, lines 252-256).
THEOREM NetTimePunctual == ClockLasts /\ Spec => []Punctual
<1>1. ASSUME IInv, ClockLasts PROVE Punctual
  <2> SUFFICES ASSUME NEW t \in Tasks, Read(t)
               PROVE  LET late == Exact(get[t].now) - Fine(Result(t))
                      IN  late >= 0 /\ late < Millis + Parts
    BY DEF Punctual
  <2> DEFINE now == get[t].now
             x == sync_time.seconds * Parts * Millis
                    + Elapsed(now, sync_stamp, sync_time.parts) * Parts
  <2>1. /\ now \in 0..MaxUp /\ sync_stamp \in 0..now
        /\ sync_time \in Time /\ (sync_time.seconds + 1) * Millis + MaxUp <= Word * Millis
        /\ Result(t) = Reading(now)
    BY <1>1, ReadFacts
  <2> HIDE DEF now
  <2>2. /\ x \in Nat /\ Fine(Reading(now)) \in Nat
        /\ Fine(Reading(now)) <= x /\ x < Fine(Reading(now)) + Millis
        /\ x <= Exact(now) /\ Exact(now) < x + Parts
    BY <2>1, ReadingLaw
  <2>3. Exact(now) \in Int
    <3>1. /\ now \in Int /\ sync_stamp \in Int /\ Parts \in Int /\ Millis \in Int
          /\ sync_time.seconds \in Int /\ sync_time.parts \in Int
      BY <2>1, TimeAssumption DEF Time
    <3> QED
      BY <3>1 DEF Exact, Fine
  <2> HIDE DEF x
  <2>4. /\ Exact(now) - Fine(Reading(now)) >= 0
        /\ Exact(now) - Fine(Reading(now)) < Millis + Parts
    BY <2>2, <2>3, Constants
  <2> QED
    BY <2>1, <2>4 DEF now
<1> SUFFICES ASSUME ClockLasts PROVE Spec => []Punctual
  OBVIOUS
<1>2. IInv => Punctual
  BY <1>1
<1> QED
  BY <1>2, NetTimeInvariant, PTL

\* Two readings of one clock never run back, whichever tasks took them
\* (lownet.c, lines 252-256).
THEOREM NetTimeNeverBack == ClockLasts /\ Spec => []NeverBack
<1> SUFFICES ASSUME ClockLasts PROVE Spec => []NeverBack
  OBVIOUS
<1>1. IInv => NeverBack
  <2> SUFFICES ASSUME IInv, NEW t \in Tasks, NEW u \in Tasks, Read(t), Read(u),
                      get[t].now <= get[u].now
               PROVE  Fine(Result(t)) <= Fine(Result(u))
    BY DEF NeverBack
  <2> DEFINE a == get[t].now
             b == get[u].now
  <2>1. /\ a \in 0..MaxUp /\ sync_stamp \in 0..a /\ sync_time \in Time
        /\ (sync_time.seconds + 1) * Millis + MaxUp <= Word * Millis
        /\ Result(t) = Reading(a)
    BY ReadFacts
  <2>2. b \in 0..MaxUp /\ a <= b /\ Result(u) = Reading(b)
    BY ReadFacts
  <2> HIDE DEF a, b
  <2>3. b \in a..MaxUp
    BY <2>1, <2>2
  <2>4. Fine(Reading(a)) <= Fine(Reading(b))
    BY <2>1, <2>3, ReadingsLaw
  <2> QED
    BY <2>1, <2>2, <2>4
<1> QED
  BY <1>1, NetTimeInvariant, PTL

\* The difference of two times counts the fractions between them, across the
\* wrap of the word that time_to_milliseconds returns.
LEMMA TimeDiff ==
    ASSUME NEW s, NEW t, Counted(s) \in Nat, Counted(t) \in Nat,
           Counted(t) - Counted(s) \in 0..Word - 1
    PROVE  Fine(time_diff(s, t)) = (Counted(t) - Counted(s)) * Millis
<1> DEFINE n == Counted(t) - Counted(s)
<1>1. time_to_milliseconds(s) = Counted(s) % Word /\ time_to_milliseconds(t) = Counted(t) % Word
  BY DEF time_to_milliseconds, Counted
<1>2. ((Counted(t) % Word) - (Counted(s) % Word)) % Word = n
  BY Constants, ModDiff
<1>3. time_diff(s, t) = time_from_milliseconds(n)
  BY <1>1, <1>2 DEF time_diff
<1>4. n \in Nat
  BY Constants
<1> HIDE DEF n
<1>5. Fine(time_from_milliseconds(n)) = ((n \div Parts) * Parts + (n % Parts)) * Millis
  BY DEF Fine, time_from_milliseconds
<1>6. n = Parts * (n \div Parts) + (n % Parts) /\ n \div Parts \in Int
  BY <1>4, Constants, ModLaw, DivLaw
<1>7. (n \div Parts) * Parts + (n % Parts) = n
  BY <1>6, Constants
<1> QED
  BY <1>3, <1>5, <1>7 DEF n

\* Two readings of a clock that was never set are both zero, and nothing lies
\* between them.
LEMMA ZeroDiff == time_diff(Zero, Zero) = Zero
<1>1. time_to_milliseconds(Zero) = 0
  BY Constants, SmallMod DEF time_to_milliseconds, Zero
<1>2. 0 % Word = 0 /\ 0 % Parts = 0 /\ 0 \div Parts = 0
  BY Constants
<1> QED
  BY <1>1, <1>2 DEF time_diff, time_from_milliseconds, Zero

\* What "Reply from" prints, whatever the clock: on one that is set, within one
\* fraction of the time between the two readings, across seconds and across
\* the wrap; on one that was never set, zero (ping.c, lines 50, 78 and 79;
\* lownet.c, line 247; lownet_util.c, lines 5 and 38).
THEOREM NetTimeRttFollowsClock == ClockLasts /\ UptimeFits /\ Spec => []RttFollowsClock
<1> SUFFICES ASSUME ClockLasts, UptimeFits PROVE Spec => []RttFollowsClock
  OBVIOUS
<1>1. ASSUME IInv, Returns("svc"), Undisturbed("svc"), get["svc"].use = "rtt",
             get["svc"].pkt.epoch = epoch, sync_time.seconds = 0
      PROVE  RoundTrip = Zero
  <2>1. get["svc"].at = "test"
    BY <1>1 DEF Returns, IInv, Fresh, Tasks
  <2>2. get["svc"].pkt.origin = "me" /\ Sound(get["svc"].pkt)
    BY <1>1 DEF IInv, Replying, AllSound, Carried, Tasks
  <2>3. get["svc"].pkt.out = Zero
    BY <1>1, <2>2 DEF Sound, Timed, Undisturbed
  <2> QED
    BY <2>1, <2>3, ZeroDiff DEF RoundTrip, Result
<1>2. ASSUME IInv, Returns("svc"), Undisturbed("svc"), get["svc"].use = "rtt",
             get["svc"].pkt.epoch = epoch, sync_time.seconds # 0
      PROVE  LET off == Fine(RoundTrip) - (get["svc"].now - get["svc"].pkt.now) * Parts
             IN  -Millis < off /\ off < Millis
  <2> DEFINE pkt == get["svc"].pkt
             a == pkt.now
             b == get["svc"].now
  <2>0. "svc" \in Tasks /\ Read("svc")
    BY <1>2 DEF Tasks, Returns, Read
  <2>1. /\ b \in 0..MaxUp /\ sync_stamp \in 0..b /\ sync_time \in Time /\ sync_time.seconds # 0
        /\ (sync_time.seconds + 1) * Millis + MaxUp <= Word * Millis
        /\ Result("svc") = Reading(b)
    BY <1>2, <2>0, ReadFacts
  <2>2. pkt \in Packet /\ Sound(pkt)
    BY <1>2, <2>0 DEF IInv, AllSound, Carried, TypeOK
  <2>3. pkt.origin = "me" /\ a <= b
    BY <1>2, <2>0 DEF IInv, Replying, Read
  <2>4. set.at = "idle"
    BY <2>0 DEF Read, Undisturbed
  <2>5. sync_stamp <= a /\ pkt.out = Reading(a)
    BY <1>2, <2>1, <2>2, <2>3, <2>4 DEF Sound, Timed, Reading
  <2>6. a \in 0..MaxUp
    BY <2>2 DEF Packet
  <2>7. RoundTrip = time_diff(Reading(a), Reading(b))
    BY <2>1, <2>5 DEF RoundTrip
  <2> HIDE DEF a, b
  <2>8. b \in a..MaxUp /\ sync_stamp \in 0..a
    BY <2>1, <2>3, <2>5, <2>6
  <2> DEFINE ra == Counted(Reading(a))
             rb == Counted(Reading(b))
  <2>9. LET off == (rb - ra) * Millis - (b - a) * Parts
        IN  ra \in Nat /\ rb \in Nat /\ ra <= rb /\ -Millis < off /\ off < Millis
    BY <2>1, <2>6, <2>8, ReadingsLaw
  <2> HIDE DEF ra, rb
  <2>10. (b - a) * Parts <= MaxUp * Parts /\ (b - a) * Parts \in Int
    BY <2>6, <2>8, Constants, TimeAssumption, Scale
  <2>11. (rb - ra) * Millis < Word * Millis
    <3>1. (rb - ra) * Millis \in Int /\ MaxUp * Parts \in Int /\ Word * Millis \in Int
          /\ Millis \in Int
      BY <2>9, Constants, TimeAssumption
    <3> QED
      BY <2>9, <2>10, <3>1 DEF UptimeFits
  <2>12. rb - ra <= Word - 1
    <3>1. (Word - 1) * Millis + Millis = Word * Millis
      BY Constants
    <3> QED
      BY <2>9, <2>11, <3>1, Constants, Cancel
  <2>13. Fine(time_diff(Reading(a), Reading(b))) = (rb - ra) * Millis
    BY <2>9, <2>12, Constants, TimeDiff DEF ra, rb
  <2>14. Fine(RoundTrip) = (rb - ra) * Millis
    BY <2>7, <2>13
  <2> QED
    BY <2>9, <2>14 DEF a, b
<1>3. IInv => RttFollowsClock
  BY <1>1, <1>2 DEF RttFollowsClock
<1> QED
  BY <1>3, NetTimeInvariant, PTL

(***************************** pings and replies ***************************)

\* Node p is to answer this ping, or has answered it.  Of two such pings, the
\* first left before the second.
With(p, r)         == r.origin = "me" /\ r.node = p
Before(p, r, s)    == With(p, r) /\ With(p, s) => r.id < s.id
Ordered(p, q)      == \A i, j \in 1..Len(q) : i < j => Before(p, q[i], q[j])
AllBefore(p, R, S) == \A r \in R, s \in S : Before(p, r, s)

\* A packet on its way to a node is for that node.
Addressed == \A p \in Peers : \A r \in Members(toPeer[p]) : r.node = p

\* What svc has in its hands: nothing while it waits, and never a reply to
\* answer.
Handling ==
    /\ get["svc"].use = "back" => get["svc"].pkt.origin # "me"
    /\ get["svc"].at = "idle" => get["svc"].use = "date"

\* Of the pings one node answers, that in the hands of svc left before those
\* on the way back, and these before those on the way out.
OrderInv(p) ==
    /\ Ordered(p, toMe) /\ Ordered(p, toPeer[p])
    /\ AllBefore(p, Members(toMe), Members(toPeer[p]))
    /\ AllBefore(p, Working, Members(toMe) \cup Members(toPeer[p]))
    /\ \A r \in Own(p) : r.id <= pings

LEMMA OrderedTake ==
    ASSUME NEW p, NEW q \in Seq(Packet), q # <<>>, Ordered(p, q)
    PROVE  /\ Ordered(p, Tail(q)) /\ AllBefore(p, {Head(q)}, Members(Tail(q)))
           /\ Members(q) = Members(Tail(q)) \cup {Head(q)}
<1>1. /\ Len(q) \in Nat /\ Len(q) >= 1 /\ Head(q) = q[1] /\ Len(Tail(q)) = Len(q) - 1
      /\ \A i \in 1..Len(Tail(q)) : Tail(q)[i] = q[i + 1]
  BY HeadTailProperties, LenProperties, EmptySeq
<1>2. Ordered(p, Tail(q))
  BY <1>1 DEF Ordered
<1>3. \A i \in 1..Len(Tail(q)) : Before(p, q[1], Tail(q)[i])
  BY <1>1 DEF Ordered
<1>4. AllBefore(p, {Head(q)}, Members(Tail(q)))
  BY <1>1, <1>3 DEF AllBefore, Members
<1>5. ASSUME NEW i \in 1..Len(q) PROVE q[i] \in Members(Tail(q)) \cup {Head(q)}
  <2>1. CASE i = 1
    BY <1>1, <2>1
  <2>2. CASE i # 1
    <3>1. i - 1 \in 1..Len(Tail(q)) /\ Tail(q)[i - 1] = q[i]
      BY <1>1, <2>2
    <3> QED
      BY <3>1 DEF Members
  <2> QED
    BY <2>1, <2>2
<1>6. Members(Tail(q)) \cup {Head(q)} \subseteq Members(q)
  <2>1. \A i \in 1..Len(Tail(q)) : i + 1 \in 1..Len(q) /\ Tail(q)[i] = q[i + 1]
    BY <1>1
  <2>2. 1 \in 1..Len(q)
    BY <1>1
  <2> QED
    BY <1>1, <2>1, <2>2 DEF Members
<1>7. Members(q) \subseteq Members(Tail(q)) \cup {Head(q)}
  BY <1>5 DEF Members
<1> QED
  BY <1>2, <1>4, <1>6, <1>7

LEMMA OrderedSend ==
    ASSUME NEW p, NEW q \in Seq(Packet), Ordered(p, q), NEW s \in Packet,
           AllBefore(p, Members(q), {s}), NEW r \in Send(q, s)
    PROVE  Ordered(p, r) /\ (Members(r) = Members(q) \/ Members(r) = Members(q) \cup {s})
<1>1. CASE r = q
  BY <1>1
<1>2. CASE r = Append(q, s)
  <2>1. /\ Len(q) \in Nat /\ Len(r) = Len(q) + 1 /\ r[Len(q) + 1] = s
        /\ \A i \in 1..Len(q) : r[i] = q[i]
    BY <1>2, AppendProperties, LenProperties
  <2>2. \A i \in 1..Len(q) : Before(p, q[i], s)
    BY DEF AllBefore, Members
  <2>3. \A i \in 1..Len(r) : \/ i \in 1..Len(q) /\ r[i] = q[i]
                             \/ i = Len(q) + 1 /\ r[i] = s
    <3>1. \A i \in 1..Len(r) : i \in 1..Len(q) \/ i = Len(q) + 1
      BY <2>1
    <3> QED
      BY <2>1, <3>1
  <2>4. Ordered(p, r)
    <3> SUFFICES ASSUME NEW i \in 1..Len(r), NEW j \in 1..Len(r), i < j
                 PROVE  Before(p, r[i], r[j])
      BY DEF Ordered
    <3>1. i \in 1..Len(q) /\ r[i] = q[i]
      BY <2>1, <2>3
    <3>2. CASE j \in 1..Len(q) /\ r[j] = q[j]
      BY <3>1, <3>2 DEF Ordered
    <3>3. CASE r[j] = s
      BY <2>2, <3>1, <3>3
    <3> QED
      BY <2>3, <3>2, <3>3
  <2>5. Members(r) = Members(q) \cup {s}
    <3>1. Len(q) + 1 \in 1..Len(r) /\ \A i \in 1..Len(q) : i \in 1..Len(r)
      BY <2>1
    <3>2. Members(q) \cup {s} \subseteq Members(r)
      BY <2>1, <3>1 DEF Members
    <3>3. Members(r) \subseteq Members(q) \cup {s}
      BY <2>3 DEF Members
    <3> QED
      BY <3>2, <3>3
  <2> QED
    BY <2>4, <2>5
<1> QED
  BY <1>1, <1>2 DEF Send

LEMMA InitOrder == Init => Addressed /\ Handling /\ \A p \in Peers : OrderInv(p)
<1> SUFFICES ASSUME Init PROVE Addressed /\ Handling /\ \A p \in Peers : OrderInv(p)
  OBVIOUS
<1>1. /\ Members(toMe) = {} /\ Len(toMe) = 0
      /\ \A p \in Peers : Members(toPeer[p]) = {} /\ Len(toPeer[p]) = 0
  BY DEF Init, Members
<1>2. get["svc"].use = "date"
  BY DEF Init, NoGet, Tasks
<1> QED
  BY <1>1, <1>2 DEF OrderInv, Addressed, Handling, Ordered, AllBefore, Working, Own

\* What a step does to the packets svc has in its hands.
SvcKept == /\ get'["svc"].use = get["svc"].use /\ get'["svc"].pkt = get["svc"].pkt
           /\ get'["svc"].at = "idle" => get["svc"].at = "idle"

LEMMA SvcStep ==
    ASSUME IInv, Next PROVE SvcKept \/ Receive \/ PrintReply \/ Answer
<1>0. "svc" \in Tasks /\ "main" \in Tasks /\ "svc" # "main" /\ get \in [Tasks -> Gets]
  BY DEF Tasks, IInv, TypeOK, Gets
<1>1. CASE GetTime("main") \/ GetTime("svc")
  <2>1. PICK t \in Tasks : GetTime(t)
    BY <1>0, <1>1
  <2>2. /\ get'[t].use = get[t].use /\ get'[t].pkt = get[t].pkt
        /\ get'[t].at \in {"now", "sync", "seconds"}
        /\ \A u \in Tasks : u # t => get'[u] = get[u]
    BY <2>1, ReadEffect DEF IInv
  <2> QED
    BY <1>0, <2>2 DEF SvcKept
<1>2. CASE Ping \/ Date
  <2>1. \E use \in {"ping", "date"} : Return("main", use)
    BY <1>2 DEF Ping, Date
  <2>2. get'["svc"] = get["svc"]
    BY <1>0, <2>1, ReturnEffect
  <2> QED
    BY <2>2 DEF SvcKept
<1>3. CASE PingCommand \/ DateCommand
  <2>1. get'["svc"] = get["svc"]
    BY <1>0, <1>3 DEF PingCommand, DateCommand, Call
  <2> QED
    BY <2>1 DEF SvcKept
<1>4. CASE get' = get
  BY <1>4 DEF SvcKept
<1> QED
  BY <1>1, <1>2, <1>3, <1>4 DEF Next, Main, Svc, User, Tick, Echo, PeerPing, SetTime,
      SetParts, SetStamp

OwnIds(p) == {r.id : r \in Own(p)}

\* The queues as sets, after a step.
LEMMA MembersPrime ==
    ASSUME NEW p \in Peers
    PROVE  Members(toMe)' = Members(toMe') /\ Members(toPeer[p])' = Members(toPeer'[p])
BY DEF Members

\* A step that moves none of the pings node p answers.
LEMMA OthersMove ==
    ASSUME NEW p \in Peers, OrderInv(p), UNCHANGED replies[p],
           pings \in Nat, pings' = pings \/ pings' = pings + 1,
           \A r \in Own(p) : r.id \in Nat,
           \/ SvcKept
           \/ \A r \in Working \cup Working' : ~With(p, r),
           Ordered(p, toMe'), Ordered(p, toPeer'[p]),
           AllBefore(p, Members(toMe'), Members(toPeer'[p])),
           \A r \in Members(toMe') \ Members(toMe) : ~With(p, r),
           \A r \in Members(toMe) \ Members(toMe') : ~With(p, r),
           \A r \in Members(toPeer'[p]) \ Members(toPeer[p]) : ~With(p, r),
           \A r \in Members(toPeer[p]) \ Members(toPeer'[p]) : ~With(p, r)
    PROVE  OrderInv(p)' /\ PingStep(p)
<1>1. \A r : With(p, r) => (r \in Working <=> r \in Working')
  BY DEF SvcKept, Working
<1>2. Own(p)' = Own(p)
  BY <1>1, MembersPrime DEF Own, With
<1>3. OrderInv(p)'
  <2>1. /\ Ordered(p, toMe)' /\ Ordered(p, toPeer[p])'
        /\ AllBefore(p, Members(toMe), Members(toPeer[p]))'
    BY MembersPrime DEF Ordered, AllBefore
  <2>2. AllBefore(p, Working', Members(toMe') \cup Members(toPeer'[p]))
    BY <1>1 DEF OrderInv, AllBefore, Before
  <2>3. AllBefore(p, Working, Members(toMe) \cup Members(toPeer[p]))'
    BY <2>2, MembersPrime DEF AllBefore
  <2>4. (\A r \in Own(p) : r.id <= pings)'
    BY <1>2 DEF OrderInv
  <2> QED
    BY <2>1, <2>3, <2>4 DEF OrderInv
<1>5. {r.id : r \in Own(p)}' = {r.id : r \in Own(p)}
  BY <1>2
<1>6. CASE pings' = pings
  BY <1>3, <1>5, <1>6 DEF PingStep, PingFifo!fifoVars
<1>7. CASE pings' = pings + 1
  <2>1. pings' \in Nat /\ pings' > pings
    BY <1>7
  <2> QED
    BY <1>3, <1>5, <1>7, <2>1 DEF PingStep, PingFifo!Offer
<1> QED
  BY <1>6, <1>7
\* Packets are put on the way to the node they are for.
LEMMA AddressedStep == ASSUME IInv, Addressed, Next PROVE Addressed'
<1>0. /\ toPeer \in [Peers -> Seq(Packet)] /\ get["svc"].pkt \in Packet
      /\ \A p \in Peers : Len(toPeer[p]) <= NetDepth
      /\ \A p \in Peers : \A r \in Members(toPeer[p]) : r.node = p
  BY DEF IInv, TypeOK, Tasks, Addressed
<1>1. CASE Ping
  <2>1. \A p \in Peers : toPeer'[p] \in Send(toPeer[p], Pinged(p))
    BY <1>1, PingEffect DEF IInv
  <2>2. \A p \in Peers : Members(toPeer'[p]) \subseteq Members(toPeer[p]) \cup {Pinged(p)}
    BY <1>0, <2>1, PingedType, SendEffect DEF IInv
  <2>3. \A p \in Peers : Pinged(p).node = p
    BY DEF Pinged
  <2> QED
    BY <1>0, <2>2, <2>3 DEF Addressed, Members
<1>2. CASE Answer
  <2> DEFINE s == get["svc"].pkt
  <2>1. \A p \in Peers : /\ p = s.node => toPeer'[p] \in Send(toPeer[p], s)
                         /\ p # s.node => toPeer'[p] = toPeer[p]
    BY <1>2, AnswerEffect DEF IInv
  <2>2. s \in Packet
    BY <1>0
  <2> HIDE DEF s
  <2>3. \A p \in Peers : \A r \in Members(toPeer'[p]) : r.node = p
    <3> SUFFICES ASSUME NEW p \in Peers PROVE \A r \in Members(toPeer'[p]) : r.node = p
      OBVIOUS
    <3>1. CASE p = s.node
      <4>1. Members(toPeer'[p]) \subseteq Members(toPeer[p]) \cup {s}
        BY <1>0, <2>1, <2>2, <3>1, SendEffect
      <4> QED
        BY <1>0, <3>1, <4>1
    <3>2. CASE p # s.node
      BY <1>0, <2>1, <3>2
    <3> QED
      BY <3>1, <3>2
  <2> QED
    BY <2>3 DEF Addressed, Members
<1>3. CASE \E p \in Peers : Echo(p)
  <2>1. PICK p \in Peers : Echo(p)
    BY <1>3
  <2>2. /\ toPeer[p] # <<>> /\ toPeer'[p] = Tail(toPeer[p])
        /\ \A q \in Peers : q # p => toPeer'[q] = toPeer[q]
    BY <2>1, EchoEffect DEF IInv
  <2>3. Members(toPeer'[p]) \subseteq Members(toPeer[p])
    BY <1>0, <2>2, TakeEffect
  <2>4. \A q \in Peers : \A r \in Members(toPeer'[q]) : r.node = q
    BY <1>0, <2>2, <2>3
  <2> QED
    BY <2>4 DEF Addressed, Members
<1>4. CASE toPeer' = toPeer
  BY <1>0, <1>4 DEF Addressed, Members
<1> QED
  BY <1>1, <1>2, <1>3, <1>4
  DEF Next, Main, Svc, User, GetTime, Synced, ReadNow, ReadSync, Date, SetTime, SetParts,
      SetStamp, PrintReply, Receive, PingCommand, DateCommand, PeerPing, Tick, pingVars

\* What Receive puts into the hands of svc.
LEMMA ReceiveEffect ==
    ASSUME IInv, Receive
    PROVE  LET h == Head(toMe)
           IN  /\ toMe # <<>> /\ toMe' = Tail(toMe) /\ toPeer' = toPeer
               /\ pings' = pings /\ replies' = replies /\ h \in Packet
               /\ get["svc"].at = "idle" /\ get'["svc"].at = "test" /\ get'["svc"].pkt = h
               /\ get'["svc"].use = IF h.origin = "me" THEN "rtt" ELSE "back"
<1> DEFINE h == Head(toMe)
           use == IF h.origin = "me" THEN "rtt" ELSE "back"
<1>1. /\ toMe # <<>> /\ toMe' = Tail(toMe) /\ toPeer' = toPeer /\ pings' = pings
      /\ replies' = replies /\ get["svc"].at = "idle" /\ Call("svc", use, h, {})
  BY DEF Receive, Call
<1>2. h \in Members(toMe) /\ toMe \in Seq(Packet)
  BY <1>1, TakeEffect DEF IInv, TypeOK
<1>3. h \in Packet
  BY <1>2, MembersType
<1>4. use \in {"date", "ping", "rtt", "back"} /\ {} \in SUBSET Peers /\ "svc" \in Tasks
      /\ get \in [Tasks -> Gets] /\ epoch \in Nat
  BY DEF Tasks, IInv, TypeOK, Gets
<1> HIDE DEF h, use
<1>5. get'["svc"].at = "test" /\ get'["svc"].pkt = h /\ get'["svc"].use = use
  BY <1>1, <1>3, <1>4, CallEffect
<1> QED
  BY <1>1, <1>3, <1>5 DEF h, use

LEMMA HandlingStep == ASSUME IInv, Handling, Next PROVE Handling'
<1>1. CASE SvcKept
  BY <1>1 DEF SvcKept, Handling
<1>2. CASE Receive
  BY <1>2, ReceiveEffect DEF Handling
<1>3. CASE PrintReply \/ Answer
  <2>1. get'["svc"] = NoGet
    BY <1>3, ReturnEffect DEF PrintReply, Answer, IInv, TypeOK, Gets, Tasks
  <2> QED
    BY <2>1 DEF Handling, NoGet
<1> QED
  BY <1>1, <1>2, <1>3, SvcStep

LEMMA OrderStep ==
    ASSUME NEW p \in Peers, IInv, Addressed, Handling, OrderInv(p), Next
    PROVE  OrderInv(p)' /\ PingStep(p)
<1>0. /\ toMe \in Seq(Packet) /\ toPeer[p] \in Seq(Packet) /\ pings \in Nat
      /\ "svc" \in Tasks /\ "main" \in Tasks /\ "svc" # "main" /\ get \in [Tasks -> Gets]
      /\ get["svc"].pkt \in Packet /\ "me" \notin Peers
      /\ replies \in [Peers -> Seq(Nat)]
  BY TimeAssumption DEF IInv, TypeOK, Tasks, Gets
<1>1. /\ Ordered(p, toMe) /\ Ordered(p, toPeer[p])
      /\ AllBefore(p, Members(toMe), Members(toPeer[p]))
      /\ AllBefore(p, Working, Members(toMe) \cup Members(toPeer[p]))
      /\ \A r \in Own(p) : r.id <= pings
  BY DEF OrderInv
<1>2. get["svc"].use = "rtt" => get["svc"].pkt.origin = "me"
  BY DEF IInv, Replying
<1>3. /\ Members(toMe) \subseteq Packet /\ Members(toPeer[p]) \subseteq Packet
      /\ Working \subseteq Packet /\ \A r \in Packet : r.id \in Nat
  BY <1>0, MembersType DEF Working, Packet
<1>4. \A r \in Own(p) : r.id \in Nat
  BY <1>3 DEF Own
<1>5. CASE Ping
  <2>1. /\ toPeer'[p] \in Send(toPeer[p], Pinged(p)) /\ toMe' = toMe /\ pings' = pings + 1
        /\ replies' = replies /\ get'["svc"] = get["svc"]
    <3>1. toPeer'[p] \in Send(toPeer[p], Pinged(p)) /\ toMe' = toMe
      BY <1>5, PingEffect DEF IInv
    <3>2. get'["svc"] = get["svc"]
      BY <1>0, <1>5, ReturnEffect DEF Ping
    <3> QED
      BY <1>5, <3>1, <3>2 DEF Ping
  <2>2. Pinged(p) \in Packet /\ Pinged(p).id = pings + 1 /\ Pinged(p).origin = "me"
        /\ Pinged(p).node = p
    BY PingedType DEF Pinged, IInv
  <2>3. \A r \in Working \cup Members(toMe) \cup Members(toPeer[p]) : Before(p, r, Pinged(p))
    BY <1>0, <1>1, <1>3, <2>2 DEF Own, Before, With
  <2>4. /\ Ordered(p, toPeer'[p])
        /\ \/ Members(toPeer'[p]) = Members(toPeer[p])
           \/ Members(toPeer'[p]) = Members(toPeer[p]) \cup {Pinged(p)}
    <3>1. AllBefore(p, Members(toPeer[p]), {Pinged(p)})
      BY <2>3 DEF AllBefore
    <3>2. toPeer[p] \in Seq(Packet) /\ Ordered(p, toPeer[p]) /\ Pinged(p) \in Packet
          /\ toPeer'[p] \in Send(toPeer[p], Pinged(p))
      BY <1>0, <1>1, <2>1, <2>2
    <3> QED
      BY <3>1, <3>2, OrderedSend
  <2>5. Working' = Working
    BY <2>1 DEF Working
  <2>6. Own(p)' = Own(p) \/ Own(p)' = Own(p) \cup {Pinged(p)}
    BY <2>1, <2>2, <2>4, <2>5, MembersPrime DEF Own
  <2>7. \A r \in Own(p)' : r.id <= pings'
    BY <1>0, <1>1, <1>4, <2>1, <2>2, <2>6
  <2>8. /\ AllBefore(p, Members(toMe), Members(toPeer'[p]))
        /\ AllBefore(p, Working, Members(toMe) \cup Members(toPeer'[p]))
    BY <1>1, <2>3, <2>4 DEF AllBefore
  <2>9. OrderInv(p)'
    BY <1>1, <2>1, <2>4, <2>5, <2>7, <2>8, MembersPrime DEF OrderInv, Ordered, AllBefore
  <2>10. OwnIds(p)' = OwnIds(p) \/ OwnIds(p)' = OwnIds(p) \cup {pings'}
    BY <2>1, <2>2, <2>6 DEF OwnIds
  <2>11. PingFifo(p)!Offer
    <3>1. pings' \in Nat /\ pings' > pings
      BY <1>0, <2>1
    <3> QED
      BY <2>1, <2>10, <3>1 DEF PingFifo!Offer, OwnIds
  <2> QED
    BY <2>9, <2>11 DEF PingStep
<1>6. CASE Receive
  <2> DEFINE h == Head(toMe)
             T == Members(Tail(toMe))
  <2>1. /\ toMe # <<>> /\ toMe' = Tail(toMe) /\ toPeer' = toPeer
        /\ pings' = pings /\ replies' = replies
        /\ get["svc"].at = "idle" /\ get'["svc"].pkt = h
        /\ get'["svc"].use = IF h.origin = "me" THEN "rtt" ELSE "back"
    BY <1>6, ReceiveEffect
  <2>2. /\ Ordered(p, toMe') /\ AllBefore(p, {h}, T) /\ Members(toMe) = T \cup {h}
        /\ Members(toMe') = T
    BY <1>0, <1>1, <2>1, OrderedTake
  <2>3. Working = {} /\ Working' = IF h.origin = "me" THEN {h} ELSE {}
    BY <2>1 DEF Working, Handling
  <2> HIDE DEF h, T
  <2>4. Own(p)' = Own(p)
    BY <2>1, <2>2, <2>3, MembersPrime DEF Own
  <2>5. /\ AllBefore(p, T, Members(toPeer[p])) /\ AllBefore(p, {h}, T \cup Members(toPeer[p]))
    BY <1>1, <2>2 DEF AllBefore
  <2>6. AllBefore(p, Working', T \cup Members(toPeer[p]))
    BY <2>3, <2>5 DEF AllBefore
  <2>7. OrderInv(p)'
    BY <1>1, <2>1, <2>2, <2>4, <2>5, <2>6, MembersPrime DEF OrderInv, Ordered, AllBefore
  <2>8. {r.id : r \in Own(p)}' = {r.id : r \in Own(p)}
    BY <2>4
  <2> QED
    BY <2>1, <2>7, <2>8 DEF PingStep, PingFifo!fifoVars
<1>7. CASE PrintReply
  <2> DEFINE s == get["svc"].pkt
  <2>1. /\ replies' = [replies EXCEPT ![s.node] = Append(@, s.id)] /\ toMe' = toMe
        /\ toPeer' = toPeer /\ pings' = pings /\ get["svc"].use = "rtt" /\ get'["svc"] = NoGet
    BY <1>0, <1>7, ReturnEffect DEF PrintReply, Return
  <2>2. Working = {s} /\ Working' = {} /\ s.origin = "me" /\ s \in Packet
    BY <1>0, <1>2, <2>1 DEF Working, NoGet
  <2> HIDE DEF s
  <2>3. CASE s.node = p
    <3>1. replies'[p] = Append(replies[p], s.id)
      BY <1>0, <2>1, <2>3
    <3>2. Own(p) = {s} \cup Own(p)'
      BY <2>1, <2>2, <2>3, MembersPrime DEF Own
    <3>3. \A r \in Own(p)' : s.id < r.id /\ r.id \in Nat
      BY <1>1, <1>3, <2>1, <2>2, <2>3, MembersPrime DEF Own, AllBefore, Before, With
    <3>4. s.id \in Nat
      BY <1>3, <2>2
    <3>5. OwnIds(p)' = {r.id : r \in Own(p)'}
      BY DEF OwnIds
    <3>6. /\ s.id \in OwnIds(p) /\ (\A m \in OwnIds(p) : s.id <= m)
          /\ OwnIds(p)' = OwnIds(p) \ {s.id}
      BY <3>2, <3>3, <3>4, <3>5 DEF OwnIds
    <3>7. PingFifo(p)!Deliver
      BY <2>1, <3>1, <3>6 DEF PingFifo!Deliver, OwnIds
    <3>8. OrderInv(p)'
      <4>1. (\A r \in Own(p) : r.id <= pings)'
        BY <1>1, <2>1, <3>2
      <4> QED
        BY <1>1, <2>1, <2>2, <4>1, MembersPrime DEF OrderInv, Ordered, AllBefore
    <3> QED
      BY <3>7, <3>8 DEF PingStep
  <2>4. CASE s.node # p
    <3>1. replies'[p] = replies[p]
      BY <1>0, <2>1, <2>4
    <3>2. \A r \in Working \cup Working' : ~With(p, r)
      BY <2>2, <2>4 DEF With
    <3> QED
      BY <1>0, <1>1, <1>4, <2>1, <3>1, <3>2, OthersMove
  <2> QED
    BY <2>3, <2>4
<1>8. CASE Answer
  <2> DEFINE s == get["svc"].pkt
  <2>1. /\ toMe' = toMe /\ pings' = pings /\ replies' = replies
        /\ get["svc"].use = "back" /\ get'["svc"] = NoGet
        /\ toPeer'[p] = toPeer[p] \/ toPeer'[p] \in Send(toPeer[p], s)
    <3>1. toPeer'[p] = toPeer[p] \/ toPeer'[p] \in Send(toPeer[p], s)
      BY <1>8, AnswerEffect DEF IInv
    <3>2. get'["svc"] = NoGet
      BY <1>0, <1>8, ReturnEffect DEF Answer
    <3> QED
      BY <1>8, <3>1, <3>2 DEF Answer, Return
  <2>2. s.origin # "me" /\ s \in Packet /\ Working = {} /\ Working' = {}
    BY <1>0, <2>1 DEF Working, Handling, NoGet
  <2> HIDE DEF s
  <2>3. AllBefore(p, Members(toPeer[p]), {s}) /\ ~With(p, s)
    BY <2>2 DEF AllBefore, Before, With
  <2>4. /\ Ordered(p, toPeer'[p])
        /\ \/ Members(toPeer'[p]) = Members(toPeer[p])
           \/ Members(toPeer'[p]) = Members(toPeer[p]) \cup {s}
    <3>1. CASE toPeer'[p] = toPeer[p]
      BY <1>1, <3>1
    <3>2. CASE toPeer'[p] \in Send(toPeer[p], s)
      <4>1. toPeer[p] \in Seq(Packet) /\ Ordered(p, toPeer[p]) /\ s \in Packet
        BY <1>0, <1>1, <2>2
      <4>2. AllBefore(p, Members(toPeer[p]), {s})
        BY <2>3
      <4> QED
        BY <3>2, <4>1, <4>2, OrderedSend
    <3> QED
      BY <2>1, <3>1, <3>2
  <2>5. AllBefore(p, Members(toMe), Members(toPeer'[p]))
    BY <1>1, <2>3, <2>4 DEF AllBefore, Before
  <2> QED
    BY <1>0, <1>1, <1>4, <2>1, <2>2, <2>3, <2>4, <2>5, OthersMove
<1>9. CASE \E q \in Peers : Echo(q)
  <2>1. PICK q \in Peers : Echo(q)
    BY <1>9
  <2> DEFINE h == Head(toPeer[q])
             T == Members(Tail(toPeer[q]))
  <2>2. /\ pings' = pings /\ replies' = replies /\ get' = get
        /\ toPeer[q] # <<>> /\ toPeer'[q] = Tail(toPeer[q])
        /\ q # p => toPeer'[p] = toPeer[p]
        /\ \/ h.origin # q /\ toMe' \in Send(toMe, h)
           \/ h.origin = q /\ toMe' = toMe
    <3>1. pings' = pings /\ replies' = replies /\ get' = get
      BY <2>1 DEF Echo
    <3>2. /\ toPeer[q] # <<>> /\ toPeer'[q] = Tail(toPeer[q])
          /\ q # p => toPeer'[p] = toPeer[p]
          /\ \/ h.origin # q /\ toMe' \in Send(toMe, h)
             \/ h.origin = q /\ toMe' = toMe
      BY <2>1, EchoEffect DEF IInv
    <3> QED
      BY <3>1, <3>2
  <2>3. h \in Members(toPeer[q]) /\ h \in Packet /\ h.node = q
    <3>1. h \in Members(toPeer[q]) /\ toPeer[q] \in Seq(Packet)
      BY <2>2, TakeEffect DEF IInv, TypeOK
    <3> QED
      BY <3>1, MembersType DEF Addressed
  <2>4. q = p => /\ Ordered(p, toPeer'[p]) /\ AllBefore(p, {h}, T)
                 /\ Members(toPeer[p]) = T \cup {h} /\ Members(toPeer'[p]) = T
    <3> SUFFICES ASSUME q = p
                 PROVE  /\ Ordered(p, Tail(toPeer[p])) /\ AllBefore(p, {Head(toPeer[p])}, T)
                        /\ Members(toPeer[p]) = T \cup {Head(toPeer[p])}
      BY <2>2
    <3>1. toPeer[p] # <<>>
      BY <2>2
    <3> QED
      BY <1>0, <1>1, <3>1, OrderedTake
  <2>5. Working' = Working /\ SvcKept
    BY <2>2 DEF Working, SvcKept
  <2> HIDE DEF h, T
  <2>6. CASE ~With(p, h)
    <3>1. Ordered(p, toPeer'[p]) /\ Ordered(p, toMe')
      <4>1. AllBefore(p, Members(toMe), {h})
        BY <2>6 DEF AllBefore, Before
      <4> QED
        BY <1>0, <1>1, <2>2, <2>3, <2>4, <4>1, OrderedSend
    <3>2. Members(toMe') = Members(toMe) \/ Members(toMe') = Members(toMe) \cup {h}
      <4>1. AllBefore(p, Members(toMe), {h})
        BY <2>6 DEF AllBefore, Before
      <4> QED
        BY <1>0, <1>1, <2>2, <2>3, <4>1, OrderedSend
    <3>3. Members(toPeer'[p]) = Members(toPeer[p]) \/ Members(toPeer[p]) = Members(toPeer'[p]) \cup {h}
      BY <2>2, <2>4
    <3>4. AllBefore(p, Members(toMe'), Members(toPeer'[p]))
      BY <1>1, <2>6, <3>2, <3>3 DEF AllBefore, Before
    <3> QED
      BY <1>0, <1>1, <1>4, <2>2, <2>5, <2>6, <3>1, <3>2, <3>3, <3>4, OthersMove
  <2>7. CASE With(p, h)
    <3>0. q = p /\ h.origin = "me" /\ toMe' \in Send(toMe, h)
      BY <1>0, <2>2, <2>3, <2>7 DEF With
    <3>1. AllBefore(p, Members(toMe), {h}) /\ AllBefore(p, Working, {h})
      BY <1>1, <2>4, <3>0 DEF AllBefore
    <3>2. /\ Ordered(p, toMe')
          /\ Members(toMe') = Members(toMe) \/ Members(toMe') = Members(toMe) \cup {h}
      <4>1. toMe \in Seq(Packet) /\ Ordered(p, toMe)
        BY <1>0, <1>1
      <4> QED
        BY <2>3, <3>0, <3>1, <4>1, OrderedSend
    <3>3. /\ AllBefore(p, Members(toMe'), T)
          /\ AllBefore(p, Working, Members(toMe') \cup T)
      BY <1>1, <2>4, <3>0, <3>1, <3>2 DEF AllBefore
    <3>4. Own(p)' = Own(p) \/ (Own(p) = Own(p)' \cup {h} /\ \A r \in Own(p)' : r.id # h.id)
      <4>1. CASE Members(toMe') = Members(toMe) \cup {h}
        BY <2>4, <2>5, <3>0, <4>1, MembersPrime DEF Own
      <4>2. CASE Members(toMe') = Members(toMe)
        <5>1. Own(p) = Own(p)' \cup {h}
          BY <2>4, <2>5, <2>7, <3>0, <4>2, MembersPrime DEF Own, With
        <5>2. ASSUME NEW r \in Own(p)' PROVE r.id # h.id
          <6>1. r \in Working \cup Members(toMe) \cup T /\ With(p, r)
            BY <2>4, <2>5, <3>0, <4>2, MembersPrime DEF Own, With
          <6>2. r.id \in Nat /\ h.id \in Nat
            BY <1>3, <2>3, <2>4, <3>0, <6>1
          <6>3. r.id < h.id \/ h.id < r.id
            BY <2>4, <2>7, <3>0, <3>1, <6>1 DEF AllBefore, Before
          <6> QED
            BY <6>2, <6>3
        <5> QED
          BY <5>1, <5>2
      <4> QED
        BY <3>2, <4>1, <4>2
    <3>5. OrderInv(p)'
      <4>1. (\A r \in Own(p) : r.id <= pings)'
        BY <1>1, <2>2, <3>4
      <4> QED
        BY <1>1, <2>2, <2>4, <2>5, <3>0, <3>2, <3>3, <4>1, MembersPrime
        DEF OrderInv, Ordered, AllBefore
    <3>6. OwnIds(p)' = {r.id : r \in Own(p)'}
      BY DEF OwnIds
    <3>7. h.id \in OwnIds(p)
      BY <2>4, <2>7, <3>0 DEF OwnIds, Own, With
    <3>8. OwnIds(p)' = OwnIds(p) \/ OwnIds(p)' = OwnIds(p) \ {h.id}
      BY <3>4, <3>6 DEF OwnIds
    <3> QED
      BY <2>2, <3>5, <3>7, <3>8 DEF PingStep, PingFifo!Lose, PingFifo!fifoVars, OwnIds
  <2> QED
    BY <2>6, <2>7
<1>10. CASE \E q \in Peers : PeerPing(q)
  <2>1. PICK q \in Peers : PeerPing(q)
    BY <1>10
  <2> DEFINE s == PeerPacket(q)
  <2>2. /\ toMe' \in Send(toMe, s) /\ toPeer' = toPeer /\ pings' = pings
        /\ replies' = replies /\ get' = get
    BY <2>1 DEF PeerPing, PeerPacket
  <2>3. s \in Packet /\ s.origin # "me"
    <3>1. s.origin = q
      BY DEF PeerPacket, Nothing
    <3> QED
      BY <1>0, <3>1, PeerPacketType DEF IInv
  <2> HIDE DEF s
  <2>4. /\ ~With(p, s) /\ AllBefore(p, Members(toMe), {s})
        /\ AllBefore(p, {s}, Members(toPeer[p]))
    BY <2>3 DEF AllBefore, Before, With
  <2>5. /\ Ordered(p, toMe')
        /\ \/ Members(toMe') = Members(toMe)
           \/ Members(toMe') = Members(toMe) \cup {s}
    BY <1>0, <1>1, <2>2, <2>3, <2>4, OrderedSend
  <2>6. AllBefore(p, Members(toMe'), Members(toPeer[p]))
    BY <1>1, <2>4, <2>5 DEF AllBefore
  <2> QED
    BY <1>0, <1>1, <1>4, <2>2, <2>4, <2>5, <2>6, OthersMove DEF SvcKept
<1>11. CASE UNCHANGED pingVars /\ SvcKept
  BY <1>0, <1>1, <1>4, <1>11, OthersMove DEF pingVars
<1>12. \/ Ping \/ Receive \/ PrintReply \/ Answer \/ UNCHANGED pingVars
       \/ (\E q \in Peers : Echo(q)) \/ (\E q \in Peers : PeerPing(q))
  BY DEF Next, Main, Svc, User, GetTime, Synced, ReadNow, ReadSync, Date, SetTime, SetParts,
     SetStamp, PingCommand, DateCommand, Tick
<1> QED
  BY <1>5, <1>6, <1>7, <1>8, <1>9, <1>10, <1>11, <1>12, SvcStep

\* The replies of each node answer pings of this node, in the order they were
\* sent and once each, however many frames are lost, whether a ping went to
\* one node or to all (ping.c, lines 31-38 and 77-104).
THEOREM NetTimeRepliesInOrder == Spec => RepliesInOrder
<1> DEFINE Order == Addressed /\ Handling /\ \A p \in Peers : OrderInv(p)
<1>1. Init => Order /\ \A p \in Peers : PingFifo(p)!FifoInit
  <2>1. Init => \A p \in Peers : PingFifo(p)!FifoInit
    <3> SUFFICES ASSUME Init, NEW p \in Peers PROVE PingFifo(p)!FifoInit
      OBVIOUS
    <3>1. Working = {} /\ Members(toMe) = {} /\ Members(toPeer[p]) = {} /\ replies[p] = <<>>
      BY DEF Init, Working, Members, NoGet, Tasks
    <3>2. Own(p) = {}
      BY <3>1 DEF Own
    <3> QED
      BY <3>1, <3>2 DEF Init, PingFifo!FifoInit
  <2> QED
    BY <2>1, InitOrder
<1>2. IInv /\ Order /\ [Next]_vars => Order' /\ [\A p \in Peers : PingStep(p)]_vars
  <2>1. CASE Next
    BY <2>1, OrderStep, AddressedStep, HandlingStep
  <2>2. CASE UNCHANGED vars
    BY <2>2 DEF vars, clockVars, pingVars, OrderInv, Ordered, AllBefore, Before, Members, Own,
       Working, Addressed, Handling
  <2> QED
    BY <2>1, <2>2
<1> HIDE DEF Order
<1> QED
  BY <1>1, <1>2, NetTimeInvariant, PTL DEF Spec, RepliesInOrder

PingPath == INSTANCE LossyFifoProofs WITH
                top <- pings, pending <- {r.id : r \in Own(Peer)}, delivered <- replies[Peer]

\* The "Reply from" lines of any one node count up: it is not printed twice
\* for a ping (ping.c, lines 77-104).
THEOREM NetTimeNoDoubleReply == Peer \in Peers /\ Spec => []PingPath!InOrder
<1> SUFFICES ASSUME Peer \in Peers PROVE Spec => []PingPath!InOrder
  OBVIOUS
<1>1. (\A p \in Peers : PingFifo(p)!FifoInit) => PingPath!FifoInit
  BY DEF PingFifo!FifoInit, PingPath!FifoInit
<1>2. [\A p \in Peers : PingStep(p)]_vars
        => [PingPath!Offer \/ PingPath!Lose \/ PingPath!Deliver]_(PingPath!fifoVars)
  <2>1. PingStep(Peer)
            => [PingPath!Offer \/ PingPath!Lose \/ PingPath!Deliver]_(PingPath!fifoVars)
    BY DEF PingStep, PingFifo!Offer, PingFifo!Lose, PingFifo!Deliver, PingFifo!fifoVars,
       PingPath!Offer, PingPath!Lose, PingPath!Deliver, PingPath!fifoVars
  <2>2. CASE UNCHANGED vars
    BY <2>2 DEF vars, pingVars, Own, Working, Members, PingPath!fifoVars
  <2> QED
    BY <2>1, <2>2
<1>3. PingPath!FifoSpec => []PingPath!InOrder
  BY PingPath!FifoInOrder
<1> QED
  BY <1>1, <1>2, <1>3, NetTimeRepliesInOrder, PTL DEF RepliesInOrder, PingPath!FifoSpec
=============================================================================
