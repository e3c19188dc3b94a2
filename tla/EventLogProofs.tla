--------------------------- MODULE EventLogProofs ---------------------------
(***************************************************************************)
(* Proofs about EventLog: what a replay hands to the pipeline is what was  *)
(* recorded, for every set of messages, every range of the numbers and     *)
(* every length of the log.                                                *)
(*                                                                         *)
(* The argument has two parts.  The codec loses nothing: the event in the  *)
(* record that write_event makes of an event is that event, and the j-th   *)
(* record of a log is at fields 2 + 7(j - 1) to 1 + 7j.  The recorder and  *)
(* the replay never leave a prefix: the file is one of the log, what is    *)
(* loaded is one of the events, and so is what is replayed.                *)
(*                                                                         *)
(* Then about ReplayMetrics, on any such log: the window of trades is the  *)
(* end of a list of the trades that count, and the percentiles that the    *)
(* histogram yields are samples of the right rank, because bucket_of keeps *)
(* the order of the values and the counters up to a bucket add up to the   *)
(* number of the samples up to there.                                      *)
(***************************************************************************)
EXTENDS ReplayMetrics, DataTheorems, SequenceTheorems

-----------------------------------------------------------------------------
(* Flattened records *)

(* The fields of the first i records, one after the other.                 *)
Flat(w, i) == [k \in 1 .. (7 * i) |-> w[((k - 1) \div 7) + 1][((k - 1) % 7) + 1]]

(* Sequences of seven fields.                                              *)
Sevens(S) == {r \in Seq(S) : Len(r) = 7}

LEMMA FlatStep ==
    ASSUME NEW S, NEW n \in Nat, NEW w \in [1 .. n -> Sevens(S)], NEW i \in 1 .. n
    PROVE  /\ Flat(w, i) \in Seq(S) /\ Len(Flat(w, i)) = 7 * i
           /\ Flat(w, i) = IF i = 1 THEN w[i] ELSE Flat(w, i - 1) \o w[i]
<1>1. \A j \in 1 .. n : w[j] \in Seq(S) /\ Len(w[j]) = 7
  BY DEF Sevens
<1>2. \A j \in 1 .. n : \A k \in 1 .. 7 : w[j][k] \in S
  BY <1>1, LenProperties
<1>3. ASSUME NEW m \in 0 .. n
      PROVE  /\ Flat(w, m) \in Seq(S) /\ Len(Flat(w, m)) = 7 * m
             /\ DOMAIN Flat(w, m) = 1 .. (7 * m)
             /\ \A k \in 1 .. (7 * m) :
                   Flat(w, m)[k] = w[((k - 1) \div 7) + 1][((k - 1) % 7) + 1]
  <2>1. \A k \in 1 .. (7 * m) : ((k - 1) \div 7) + 1 \in 1 .. n /\ ((k - 1) % 7) + 1 \in 1 .. 7
    OBVIOUS
  <2>2. 7 * m \in Nat
    OBVIOUS
  <2> DEFINE g == Flat(w, m)
  <2>3. g \in [1 .. (7 * m) -> S] /\ \A k \in 1 .. (7 * m) : g[k] = w[((k - 1) \div 7) + 1][((k - 1) % 7) + 1]
    BY <1>2, <2>1 DEF Flat
  <2> HIDE DEF g
  <2>4. g \in Seq(S) /\ Len(g) = 7 * m /\ DOMAIN g = 1 .. (7 * m)
    BY <2>2, <2>3, SeqDef, LenProperties
  <2> QED BY <2>3, <2>4 DEF g
<1>4. CASE i = 1
  <2>1. w[1] = [k \in 1 .. 7 |-> w[1][k]]
    <3>1. w[1] \in [1 .. Len(w[1]) -> S]
      BY <1>1, <1>4, LenProperties
    <3> QED BY <1>1, <1>4, <3>1
  <2>2. \A k \in 1 .. 7 : (k - 1) \div 7 = 0 /\ (k - 1) % 7 = k - 1
    OBVIOUS
  <2>3. Flat(w, 1) = [k \in 1 .. 7 |-> w[1][k]]
    BY <2>2 DEF Flat
  <2> QED BY <1>3, <1>4, <2>1, <2>3
<1>5. CASE i # 1
  <2> DEFINE a == Flat(w, i - 1)
             b == w[i]
             c == Flat(w, i)
             d == a \o b
  <2>1. i - 1 \in 0 .. n /\ i \in 0 .. n
    BY <1>5
  <2>2. /\ a \in Seq(S) /\ Len(a) = 7 * (i - 1)
        /\ \A k \in 1 .. (7 * (i - 1)) : a[k] = w[((k - 1) \div 7) + 1][((k - 1) % 7) + 1]
    BY <1>3, <2>1
  <2>3. /\ c \in Seq(S) /\ Len(c) = 7 * i
        /\ \A k \in 1 .. (7 * i) : c[k] = w[((k - 1) \div 7) + 1][((k - 1) % 7) + 1]
    BY <1>3, <2>1
  <2>4. b \in Seq(S) /\ Len(b) = 7
    BY <1>1
  <2>5. /\ d \in Seq(S) /\ Len(d) = Len(a) + Len(b)
        /\ \A k \in 1 .. Len(a) + Len(b) : d[k] = IF k <= Len(a) THEN a[k] ELSE b[k - Len(a)]
    BY <2>2, <2>4, ConcatProperties
  <2> HIDE DEF a, b, c, d
  <2>6. Len(d) = 7 * i
    BY <2>2, <2>4, <2>5
  <2>7. ASSUME NEW k \in 1 .. (7 * i) PROVE c[k] = d[k]
    <3>1. CASE k <= 7 * (i - 1)
      <4>1. k \in 1 .. (7 * (i - 1)) /\ k \in 1 .. (Len(a) + Len(b)) /\ k <= Len(a)
        BY <2>2, <2>4, <3>1
      <4>2. d[k] = a[k]
        BY <2>5, <4>1
      <4> QED BY <2>2, <2>3, <4>1, <4>2, Zenon
    <3>2. CASE ~(k <= 7 * (i - 1))
      <4>1. (k - 1) \div 7 = i - 1 /\ (k - 1) % 7 = k - 7 * (i - 1) - 1
        BY <3>2
      <4>2. c[k] = w[i][k - 7 * (i - 1)]
        BY <2>3, <4>1
      <4>3. d[k] = b[k - 7 * (i - 1)]
        BY <2>2, <2>4, <2>5, <3>2
      <4> QED BY <4>2, <4>3 DEF b
    <3> QED BY <3>1, <3>2
  <2>8. c = d
    BY <2>3, <2>5, <2>6, <2>7, SeqEqual
  <2> QED BY <1>5, <2>3, <2>8 DEF a, b, c, d
<1> QED BY <1>4, <1>5

(* FlattenSeq puts the records one after the other.                        *)
LEMMA FlattenIsFlat ==
    ASSUME NEW S, NEW n \in Nat, NEW w \in [1 .. n -> Sevens(S)]
    PROVE  FlattenSeq(w) = Flat(w, n)
<1>1. w \in Seq(Sevens(S)) /\ Len(w) = n
  BY SeqDef, LenProperties
<1>2. CASE n = 0
  BY <1>1, <1>2 DEF FlattenSeq, Flat
<1>3. CASE n # 0
  <2> DEFINE F == CHOOSE f : f = [i \in 1 .. n |-> IF i = 1 THEN w[i] ELSE f[i - 1] \o w[i]]
             G == [i \in 1 .. n |-> Flat(w, i)]
  <2>1. FlattenSeq(w) = F[n]
    BY <1>1, <1>3 DEF FlattenSeq
  <2>2. \A i \in 1 .. n : G[i] = IF i = 1 THEN w[i] ELSE G[i - 1] \o w[i]
    <3> TAKE i \in 1 .. n
    <3>1. Flat(w, i) = IF i = 1 THEN w[i] ELSE Flat(w, i - 1) \o w[i]
      BY FlatStep
    <3>2. CASE i = 1
      BY <3>1, <3>2
    <3>3. CASE i # 1
      <4>1. G[i] = Flat(w, i) /\ G[i - 1] = Flat(w, i - 1)
        BY <3>3
      <4> HIDE DEF G
      <4> QED BY <3>1, <3>3, <4>1
    <3> QED BY <3>2, <3>3
  <2>3. G = [i \in 1 .. n |-> IF i = 1 THEN w[i] ELSE G[i - 1] \o w[i]]
    BY <2>2, Zenon
  <2>4. F = [i \in 1 .. n |-> IF i = 1 THEN w[i] ELSE F[i - 1] \o w[i]]
    <3> HIDE DEF G
    <3> QED BY <2>3, Zenon
  <2>5. \A i \in 1 .. n : F[i] = IF i = 1 THEN w[i] ELSE F[i - 1] \o w[i]
    <3> HIDE DEF F
    <3> QED BY <2>4, Zenon
  <2> HIDE DEF F, G
  <2> DEFINE Bad == {i \in 1 .. n : F[i] # G[i]}
  <2>6. ASSUME Bad # {} PROVE FALSE
    <3>1. Bad \in SUBSET Nat
      OBVIOUS
    <3>2. PICK i \in Bad : \A j \in Bad : i <= j
      BY <2>6, <3>1, LeastNatural
    <3>3. i \in 1 .. n /\ F[i] # G[i]
      BY <3>2
    <3>4. \A j \in 1 .. n : F[j] # G[j] => i <= j
      BY <3>2
    <3> HIDE DEF Bad
    <3>5. i # 1
      BY <2>2, <2>5, <3>3
    <3>6. i - 1 \in 1 .. n /\ F[i - 1] = G[i - 1]
      BY <3>3, <3>4, <3>5
    <3>7. F[i] = F[i - 1] \o w[i] /\ G[i] = G[i - 1] \o w[i]
      BY <2>2, <2>5, <3>3, <3>5
    <3> QED BY <3>3, <3>6, <3>7
  <2>7. F[n] = G[n]
    BY <1>3, <2>6
  <2> QED BY <1>3, <2>1, <2>7 DEF G
<1> QED BY <1>2, <1>3

-----------------------------------------------------------------------------
(* The codec *)

(* A number is what its two's complement stands for.                       *)
LEMMA BitsRoundTrip ==
    /\ \A n \in Int64 : Signed(Bits(n)) = n /\ Bits(n) \in Int
    /\ \A n \in 0 .. (2 * HalfRange - 1) : Bits(n) = n
<1> DEFINE M == 2 * HalfRange
<1>1. M \in Nat \ {0} /\ HalfRange \in Nat
  BY LogAssumption
<1>2. ASSUME NEW n \in Int, NEW m \in Nat \ {0}, 0 <= n, n < m PROVE n % m = n
  BY <1>2
<1>3. ASSUME NEW n \in Int, NEW m \in Nat \ {0}, -m <= n, n < 0 PROVE n % m = n + m
  BY <1>3
<1>4. ASSUME NEW n \in 0 .. (2 * HalfRange - 1) PROVE Bits(n) = n
  BY <1>1, <1>2 DEF Bits
<1>5. ASSUME NEW n \in Int64 PROVE Signed(Bits(n)) = n /\ Bits(n) \in Int
  <2>1. CASE n >= 0
    <3>1. Bits(n) = n /\ n < HalfRange
      BY <1>1, <1>4, <2>1 DEF Int64
    <3> QED BY <1>1, <3>1 DEF Signed, Int64
  <2>2. CASE ~(n >= 0)
    <3>1. n \in Int /\ -M <= n /\ n < 0 /\ -HalfRange <= n
      BY <1>1, <2>2 DEF Int64
    <3>2. Bits(n) = n + M
      BY <1>1, <1>3, <3>1 DEF Bits
    <3> QED BY <1>1, <3>1, <3>2 DEF Signed
  <2> QED BY <2>1, <2>2
<1> QED BY <1>4, <1>5

(* A type and a side are what their codes are cast to.                     *)
LEMMA CodesRoundTrip ==
    /\ \A t \in Types : Decoded(TypeCode, TypeCode[t]) = t /\ TypeCode[t] \in Int
    /\ \A s \in {"Buy", "Sell"} : Decoded(SideCode, SideCode[s]) = s /\ SideCode[s] \in Int
<1>1. ASSUME NEW t \in Types PROVE Decoded(TypeCode, TypeCode[t]) = t /\ TypeCode[t] \in Int
  <2>1. /\ TypeCode["Quote"] = 0 /\ TypeCode["Trade"] = 1 /\ TypeCode["BookDelete"] = 2
        /\ TypeCode["Snapshot"] = 3 /\ TypeCode["Heartbeat"] = 4
    BY DEF TypeCode, Types
  <2>2. DOMAIN TypeCode = {"Quote", "Trade", "BookDelete", "Snapshot", "Heartbeat"}
    BY DEF TypeCode, Types
  <2>3. \A x \in DOMAIN TypeCode : TypeCode[x] = TypeCode[t] => x = t
    BY <2>1, <2>2 DEF Types
  <2>4. t \in DOMAIN TypeCode /\ TypeCode[t] \in Int
    BY <2>1, <2>2 DEF Types
  <2> QED BY <2>3, <2>4 DEF Decoded
<1>2. ASSUME NEW s \in {"Buy", "Sell"} PROVE Decoded(SideCode, SideCode[s]) = s /\ SideCode[s] \in Int
  BY DEF Decoded, SideCode
<1> QED BY <1>1, <1>2

(* A field of the file.                                                    *)
Field == Int \cup STRING \cup {Magic}

(* read_event gives back what write_event was given.                       *)
LEMMA EventRoundTrip ==
    ASSUME NEW ev \in LoggedEvent
    PROVE  EventOf(write_event(ev)) = ev /\ write_event(ev) \in Sevens(Field)
<1>1. /\ ev.timestamp \in Int64 /\ ev.sequence \in 0 .. (2 * HalfRange - 1)
      /\ ev.symbol \in STRING /\ ev.type \in Types /\ ev.price \in Int64
      /\ ev.quantity \in Int64 /\ ev.side \in {"Buy", "Sell"}
  BY DEF LoggedEvent
<1>2. ev = [timestamp |-> ev.timestamp, sequence |-> ev.sequence, symbol |-> ev.symbol,
            type |-> ev.type, price |-> ev.price, quantity |-> ev.quantity, side |-> ev.side]
  BY DEF LoggedEvent
<1> DEFINE a == Bits(ev.timestamp)
           b == Bits(ev.sequence)
           c == ev.symbol
           d == TypeCode[ev.type]
           e == Bits(ev.price)
           f == Bits(ev.quantity)
           g == SideCode[ev.side]
<1>3. /\ a \in Field /\ b \in Field /\ c \in Field /\ d \in Field /\ e \in Field /\ f \in Field
      /\ g \in Field
  BY <1>1, BitsRoundTrip, CodesRoundTrip DEF Field
<1>4. /\ Signed(a) = ev.timestamp /\ b = ev.sequence /\ Decoded(TypeCode, d) = ev.type
      /\ Signed(e) = ev.price /\ Signed(f) = ev.quantity /\ Decoded(SideCode, g) = ev.side
  BY <1>1, BitsRoundTrip, CodesRoundTrip
<1>5. write_event(ev) = <<a, b, c, d, e, f, g>>
  BY DEF write_event
<1> HIDE DEF a, b, d, e, f, g
<1>6. EventOf(<<a, b, c, d, e, f, g>>)
         = [timestamp |-> Signed(a), sequence |-> b, symbol |-> c, type |-> Decoded(TypeCode, d),
            price |-> Signed(e), quantity |-> Signed(f), side |-> Decoded(SideCode, g)]
  BY DEF EventOf
<1>7. <<a, b, c, d, e, f, g>> \in Sevens(Field)
  BY <1>3 DEF Sevens
<1> QED BY <1>2, <1>4, <1>5, <1>6, <1>7

(* The fields of a log.                                                    *)
LEMMA LogFields ==
    ASSUME NEW evs \in Seq(LoggedEvent)
    PROVE  /\ write_events_to_file(evs) \in Seq(Field)
           /\ Len(write_events_to_file(evs)) = 1 + 7 * Len(evs)
           /\ write_events_to_file(evs)[1] = Magic
           /\ \A j \in 1 .. Len(evs), k \in 1 .. 7 :
                 write_events_to_file(evs)[1 + 7 * (j - 1) + k] = write_event(evs[j])[k]
<1> DEFINE n == Len(evs)
           w == [i \in DOMAIN evs |-> write_event(evs[i])]
           a == <<Magic>>
           b == Flat(w, n)
           log == a \o b
<1>1. n \in Nat /\ DOMAIN evs = 1 .. n /\ \A i \in 1 .. n : evs[i] \in LoggedEvent
  BY LenProperties
<1>2. w \in [1 .. n -> Sevens(Field)] /\ \A i \in 1 .. n : w[i] = write_event(evs[i])
  BY <1>1, EventRoundTrip
<1>3. write_events_to_file(evs) = a \o FlattenSeq(w)
  BY DEF write_events_to_file
<1> HIDE DEF n, w
<1>4. FlattenSeq(w) = b
  BY <1>1, <1>2, FlattenIsFlat
<1>5. write_events_to_file(evs) = log
  BY <1>3, <1>4
<1>6. b \in Seq(Field) /\ Len(b) = 7 * n
  <2>1. CASE n = 0
    BY <2>1 DEF Flat
  <2>2. CASE n # 0
    <3>1. n \in 1 .. n
      BY <1>1, <2>2
    <3> QED BY <1>1, <1>2, <3>1, FlatStep
  <2> QED BY <2>1, <2>2
<1>7. a \in Seq(Field) /\ Len(a) = 1 /\ a[1] = Magic
  <2>1. Magic \in Field
    BY DEF Field
  <2> QED BY <2>1
<1>8. \A k \in 1 .. (7 * n) : b[k] = w[((k - 1) \div 7) + 1][((k - 1) % 7) + 1]
  BY DEF Flat
<1> HIDE DEF a, b
<1>9. /\ log \in Seq(Field) /\ Len(log) = Len(a) + Len(b)
      /\ \A k \in 1 .. Len(a) + Len(b) : log[k] = IF k <= Len(a) THEN a[k] ELSE b[k - Len(a)]
  BY <1>6, <1>7, ConcatProperties
<1> HIDE DEF log
<1>10. Len(log) = 1 + 7 * n /\ log[1] = Magic
  BY <1>1, <1>6, <1>7, <1>9
<1>11. ASSUME NEW j \in 1 .. n, NEW k \in 1 .. 7
       PROVE  log[1 + 7 * (j - 1) + k] = write_event(evs[j])[k]
  <2> DEFINE l == 7 * (j - 1) + k
  <2>1. /\ l \in 1 .. (7 * n) /\ ((l - 1) \div 7) + 1 = j /\ ((l - 1) % 7) + 1 = k
        /\ 1 + l \in 1 .. (1 + 7 * n) /\ ~(1 + l <= 1) /\ (1 + l) - 1 = l
        /\ 1 + 7 * (j - 1) + k = 1 + l
    BY <1>1
  <2> HIDE DEF l
  <2>2. log[1 + l] = b[l]
    BY <1>6, <1>7, <1>9, <2>1
  <2>3. b[l] = w[j][k]
    BY <1>8, <2>1
  <2>4. w[j] = write_event(evs[j])
    BY <1>2
  <2> QED BY <2>1, <2>2, <2>3, <2>4
<1> QED BY <1>5, <1>9, <1>10, <1>11 DEF n

(* A file that holds the first fields of a log.                            *)
PartOfLog(f, evs) ==
    /\ f \in Seq(Field)
    /\ Len(f) <= Len(write_events_to_file(evs))
    /\ \A k \in 1 .. Len(f) : f[k] = write_events_to_file(evs)[k]

(* Reading the event after j events of such a file: the next event if its  *)
(* record is complete, and none if not.                                    *)
LEMMA ReadFromPart ==
    ASSUME NEW evs \in Seq(LoggedEvent), NEW f, PartOfLog(f, evs), NEW j \in Nat
    PROVE  IF Len(f) < 1 + 7 * j + 7
           THEN read_event(f, 1 + 7 * j) = None
           ELSE /\ j + 1 \in 1 .. Len(evs)
                /\ read_event(f, 1 + 7 * j) = evs[j + 1]
                /\ evs[j + 1] # None
<1> DEFINE log == write_events_to_file(evs)
           n == Len(evs)
           x == write_event(evs[j + 1])
           r == SubSeq(f, 1 + 7 * j + 1, 1 + 7 * j + 7)
<1>1. /\ f \in Seq(Field) /\ Len(f) \in Nat /\ Len(f) <= Len(log)
      /\ \A k \in 1 .. Len(f) : f[k] = log[k]
      /\ \A k \in 1 .. Len(f) : f[k] \in Field
  BY LenProperties DEF PartOfLog
<1>2. /\ Len(log) = 1 + 7 * n
      /\ \A i \in 1 .. n, k \in 1 .. 7 : log[1 + 7 * (i - 1) + k] = write_event(evs[i])[k]
  BY LogFields
<1>3. n \in Nat /\ \A i \in 1 .. n : evs[i] \in LoggedEvent
  BY LenProperties
<1>4. read_event(f, 1 + 7 * j) = IF Len(f) < 1 + 7 * j + 7 THEN None ELSE EventOf(r)
  BY DEF read_event, Fields
<1> HIDE DEF log, n
<1>5. CASE Len(f) < 1 + 7 * j + 7
  BY <1>4, <1>5
<1>6. CASE ~(Len(f) < 1 + 7 * j + 7)
  <2>1. j + 1 \in 1 .. n
    BY <1>1, <1>2, <1>3, <1>6
  <2>2. evs[j + 1] \in LoggedEvent
    BY <1>3, <2>1
  <2>3. x \in Seq(Field) /\ Len(x) = 7 /\ EventOf(x) = evs[j + 1]
    BY <2>2, EventRoundTrip DEF Sevens
  <2>4. /\ r \in Seq(Field) /\ Len(r) = 7
        /\ \A k \in 1 .. 7 : r[k] = f[1 + 7 * j + k]
    <3> DEFINE lo == 1 + 7 * j + 1
               hi == 1 + 7 * j + 7
    <3>1. lo \in 1 .. (Len(f) + 1) /\ hi \in (lo - 1) .. Len(f) /\ lo <= hi /\ hi - lo + 1 = 7
          /\ \A k \in 1 .. 7 : lo + k - 1 = 1 + 7 * j + k
      BY <1>1, <1>6
    <3>2. \A k \in lo .. hi : f[k] \in Field
      BY <1>1, <1>6
    <3> HIDE DEF lo, hi
    <3>3. /\ SubSeq(f, lo, hi) \in Seq(Field)
          /\ Len(SubSeq(f, lo, hi)) = IF lo <= hi THEN hi - lo + 1 ELSE 0
          /\ \A k \in 1 .. hi - lo + 1 : SubSeq(f, lo, hi)[k] = f[lo + k - 1]
      BY <1>1, <3>1, <3>2, SubSeqProperties
    <3>4. r = SubSeq(f, lo, hi)
      BY DEF lo, hi
    <3> HIDE DEF r
    <3> QED BY <3>1, <3>3, <3>4
  <2> HIDE DEF r, x
  <2>5. ASSUME NEW k \in 1 .. 7 PROVE r[k] = x[k]
    <3>1. 1 + 7 * j + k \in 1 .. Len(f)
      BY <1>1, <1>6
    <3>2. log[1 + 7 * ((j + 1) - 1) + k] = x[k]
      BY <1>2, <2>1 DEF x
    <3>3. (j + 1) - 1 = j
      OBVIOUS
    <3> QED BY <1>1, <2>4, <3>1, <3>2, <3>3
  <2>6. r = x
    BY <2>3, <2>4, <2>5, SeqEqual
  <2>7. evs[j + 1] # None
    BY <2>2, LogAssumption
  <2> QED BY <1>4, <1>6, <2>1, <2>3, <2>6, <2>7 DEF n
<1> QED BY <1>5, <1>6

-----------------------------------------------------------------------------
(* The recorder and the replay *)

PrefixOf(s, u) ==
    /\ s \in Seq(LoggedEvent)
    /\ Len(s) <= Len(u)
    /\ \A i \in 1 .. Len(s) : s[i] = u[i]

Before == {"test", "sleep", "status", "stop", "join"}

(* A file that was there before.                                           *)
Foreign == {None, <<>>, <<"other">>}

(* The inductive invariant: once the client is joined no event is in hand, *)
(* the file is a part of the log, and what is loaded and what is replayed  *)
(* are prefixes that stop where the file does.                             *)
LogInv ==
    /\ net \in Seq(LoggedEvent)
    /\ events \in Seq(LoggedEvent)
    /\ main \in Before \cup {"save", "write", "recorded", "refused", "load", "replay", "done"}
    /\ main \notin Before => net = <<>>
    /\ main \notin {"load", "replay", "done"} => loaded = <<>>
    /\ main \notin {"replay", "done"} => replayed = <<>>
    /\ main \in Before \cup {"save"} => file \in Foreign
    /\ main = "recorded" => file \in Foreign \/ PartOfLog(file, events)
    /\ main \in {"write", "load", "replay", "done"} => PartOfLog(file, events)
    /\ main \in {"load", "replay", "done"} => 1 + 7 * Len(loaded) <= Len(file)
    /\ main \in {"replay", "done"} => Len(file) < 1 + 7 * Len(loaded) + 7
    /\ main = "done" => Len(replayed) = Len(loaded)
    /\ PrefixOf(loaded, events)
    /\ PrefixOf(replayed, loaded)

(* No event is a prefix of any events.                                     *)
LEMMA EmptyPrefix ==
    ASSUME NEW u \in Seq(LoggedEvent)
    PROVE  PrefixOf(<<>>, u)
BY LenProperties DEF PrefixOf

(* A prefix with the next element is a prefix.                             *)
LEMMA ExtendPrefix ==
    ASSUME NEW s, NEW u \in Seq(LoggedEvent), PrefixOf(s, u), Len(s) + 1 \in 1 .. Len(u)
    PROVE  PrefixOf(Append(s, u[Len(s) + 1]), u) /\ Len(Append(s, u[Len(s) + 1])) = Len(s) + 1
<1> DEFINE n == Len(s)
           x == u[n + 1]
           r == Append(s, x)
<1>1. /\ s \in Seq(LoggedEvent) /\ n \in Nat /\ n <= Len(u) /\ Len(u) \in Nat
      /\ \A i \in 1 .. n : s[i] = u[i]
      /\ x \in LoggedEvent
  BY LenProperties DEF PrefixOf
<1>2. /\ r \in Seq(LoggedEvent) /\ Len(r) = n + 1
      /\ \A i \in 1 .. n : r[i] = s[i]
      /\ r[n + 1] = x
  BY <1>1, AppendProperties
<1> HIDE DEF r, n
<1>3. \A i \in 1 .. (n + 1) : r[i] = u[i]
  BY <1>1, <1>2
<1>4. PrefixOf(r, u) /\ Len(r) = n + 1
  BY <1>1, <1>2, <1>3 DEF PrefixOf, n
<1> QED BY <1>4 DEF r, n

LEMMA InitLog == Init => LogInv
<1> SUFFICES ASSUME Init PROVE LogInv
  OBVIOUS
<1>1. <<>> \in Seq(LoggedEvent)
  OBVIOUS
<1>2. PrefixOf(<<>>, <<>>)
  BY <1>1, EmptyPrefix
<1> QED BY <1>1, <1>2 DEF Init, LogInv, Before, Foreign

LEMMA NextLog == LogInv /\ [Next]_logVars => LogInv'
<1> SUFFICES ASSUME LogInv, [Next]_logVars PROVE LogInv'
  OBVIOUS
<1>1. /\ net \in Seq(LoggedEvent) /\ events \in Seq(LoggedEvent)
      /\ PrefixOf(loaded, events) /\ PrefixOf(replayed, loaded)
  BY DEF LogInv
<1>2. CASE TimeUp
  BY <1>2 DEF TimeUp, LogInv
<1>3. CASE Callback
  <2>1. main \in Before /\ loaded = <<>> /\ replayed = <<>> /\ file \in Foreign
    BY <1>3 DEF Callback, LogInv, Before
  <2>2. events' \in Seq(LoggedEvent) /\ net' \in Seq(LoggedEvent)
    BY <1>1, <1>3, HeadTailProperties, AppendProperties DEF Callback
  <2>3. PrefixOf(<<>>, events')
    BY <2>2, EmptyPrefix
  <2>4. UNCHANGED <<main, file, loaded, replayed>>
    BY <1>3 DEF Callback
  <2> QED BY <1>1, <2>1, <2>2, <2>3, <2>4 DEF LogInv, Before
<1>4. ASSUME NEW m \in Messages, Arrive(m) PROVE LogInv'
  <2>1. main \in Before /\ net' = m /\ m \in Seq(LoggedEvent)
        /\ UNCHANGED <<main, events, file, loaded, replayed>>
    BY <1>4, LogAssumption DEF Arrive, Before
  <2> QED BY <2>1 DEF LogInv
<1>5. CASE Test \/ LockForStatus \/ EndStatus \/ Stop
  <2>1. main \in Before /\ main' \in Before /\ UNCHANGED <<net, events, file, loaded, replayed>>
    BY <1>5 DEF Test, LockForStatus, EndStatus, Stop, Before
  <2> QED BY <2>1 DEF LogInv, Before
<1>6. CASE Join
  <2>1. main = "join" /\ main' = "save" /\ net = <<>>
        /\ UNCHANGED <<net, events, file, loaded, replayed>>
    BY <1>6 DEF Join
  <2> QED BY <2>1 DEF LogInv, Before
<1>7. CASE Save
  <2>1. main = "save" /\ UNCHANGED <<net, events, loaded, replayed>>
        /\ ((main' = "recorded" /\ file' = file) \/ (main' = "write" /\ file' = <<>>))
    <3>1. main = "save" /\ UNCHANGED <<net, events, loaded, replayed>>
      BY <1>7 DEF Save
    <3>2. (main' = "recorded" /\ file' = file) \/ (main' = "write" /\ file' = <<>>)
      BY <1>7 DEF Save
    <3> QED BY <3>1, <3>2
  <2>2. PartOfLog(<<>>, events)
    BY <1>1, LogFields, LenProperties DEF PartOfLog
  <2> QED BY <2>1, <2>2 DEF LogInv, Before
<1>8. CASE Write
  <2> DEFINE log == write_events_to_file(events)
             n == Len(file)
  <2>1. main = "write" /\ UNCHANGED <<net, events, loaded, replayed>>
        /\ \/ n < Len(log) /\ file' = Append(file, log[n + 1]) /\ main' = main
           \/ main' = "recorded" /\ file' = file
    BY <1>8 DEF Write
  <2>2. PartOfLog(file, events)
    BY <2>1 DEF LogInv
  <2>3. CASE n < Len(log) /\ file' = Append(file, log[n + 1]) /\ main' = main
    <3>1. /\ file \in Seq(Field) /\ n \in Nat /\ \A k \in 1 .. n : file[k] = log[k]
          /\ log \in Seq(Field) /\ Len(log) \in Nat
      BY <1>1, <2>2, LogFields, LenProperties DEF PartOfLog
    <3>2. log[n + 1] \in Field
      <4> HIDE DEF log, n
      <4> QED BY <2>3, <3>1, LenProperties
    <3> DEFINE x == log[n + 1]
               f == Append(file, x)
    <3>3. /\ f \in Seq(Field) /\ Len(f) = n + 1
          /\ \A k \in 1 .. n : f[k] = file[k]
          /\ f[n + 1] = x
      BY <3>1, <3>2, AppendProperties
    <3> HIDE DEF log, n, f
    <3>4. Len(f) <= Len(log) /\ \A k \in 1 .. Len(f) : f[k] = log[k]
      BY <2>3, <3>1, <3>3
    <3>5. PartOfLog(f, events)
      BY <3>3, <3>4 DEF PartOfLog, log
    <3>6. file' = f
      BY <2>3 DEF f
    <3> QED BY <2>1, <2>3, <3>5, <3>6 DEF LogInv, Before
  <2>4. CASE main' = "recorded" /\ file' = file
    BY <2>1, <2>2, <2>4 DEF LogInv, Before
  <2> QED BY <2>1, <2>3, <2>4
<1>9. CASE CutShort
  <2>1. main = "write" /\ main' = "recorded" /\ UNCHANGED <<net, events, file, loaded, replayed>>
    BY <1>9 DEF CutShort
  <2> QED BY <2>1 DEF LogInv, Before
<1>10. CASE OpenLog
  <2>1. main = "recorded" /\ UNCHANGED <<net, events, file, loaded, replayed>>
        /\ \/ main' = "refused"
           \/ main' = "load" /\ file # None /\ file # <<>> /\ Head(file) = Magic
    BY <1>10 DEF OpenLog, read_and_check_magic
  <2>2. loaded = <<>> /\ replayed = <<>> /\ net = <<>> /\ Len(loaded) = 0
    BY <2>1 DEF LogInv, Before
  <2>3. CASE main' = "load" /\ file # None /\ file # <<>> /\ Head(file) = Magic
    <3>1. file \notin Foreign
      <4>1. <<"other">>[1] # Magic
        BY DEF Magic
      <4>2. Head(<<"other">>) # Magic
        BY <4>1
      <4> QED BY <2>3, <4>2 DEF Foreign
    <3>2. PartOfLog(file, events)
      BY <2>1, <3>1 DEF LogInv
    <3>3. 1 + 7 * Len(loaded) <= Len(file)
      <4>1. file \in Seq(Field)
        BY <3>2 DEF PartOfLog
      <4>2. Len(file) \in Nat /\ Len(file) # 0
        BY <2>3, <4>1, LenProperties, EmptySeq
      <4> QED BY <2>2, <4>2
    <3> QED BY <2>1, <2>2, <2>3, <3>2, <3>3 DEF LogInv, Before
  <2>4. CASE main' = "refused"
    BY <2>1, <2>2, <2>4 DEF LogInv, Before
  <2> QED BY <2>1, <2>3, <2>4
<1>11. CASE Load
  <2> DEFINE j == Len(loaded)
             ev == read_event(file, 1 + 7 * j)
  <2>1. main = "load" /\ UNCHANGED <<net, events, file, replayed>>
        /\ IF ev # None THEN loaded' = Append(loaded, ev) /\ main' = main
                        ELSE main' = "replay" /\ loaded' = loaded
    BY <1>11 DEF Load, Fields
  <2>2. /\ PartOfLog(file, events) /\ 1 + 7 * j <= Len(file) /\ replayed = <<>>
        /\ net = <<>>
    BY <2>1 DEF LogInv, Before
  <2>3. j \in Nat /\ Len(file) \in Nat
    BY <1>1, <2>2, LenProperties DEF PrefixOf, PartOfLog
  <2>4. IF Len(file) < 1 + 7 * j + 7
        THEN ev = None
        ELSE j + 1 \in 1 .. Len(events) /\ ev = events[j + 1] /\ events[j + 1] # None
    BY <1>1, <2>2, <2>3, ReadFromPart
  <2> HIDE DEF ev, j
  <2>5. CASE Len(file) < 1 + 7 * j + 7
    <3>1. main' = "replay" /\ loaded' = loaded
      BY <2>1, <2>4, <2>5
    <3> QED BY <1>1, <2>1, <2>2, <2>5, <3>1 DEF LogInv, Before, j
  <2>6. CASE ~(Len(file) < 1 + 7 * j + 7)
    <3>1. loaded' = Append(loaded, events[j + 1]) /\ main' = "load" /\ j + 1 \in 1 .. Len(events)
      BY <2>1, <2>4, <2>6
    <3>2. PrefixOf(loaded', events) /\ Len(loaded') = j + 1
      BY <1>1, <3>1, ExtendPrefix DEF j
    <3>3. 1 + 7 * Len(loaded') <= Len(file)
      BY <2>3, <2>6, <3>2
    <3>4. PrefixOf(<<>>, loaded')
      BY <3>2, EmptyPrefix DEF PrefixOf
    <3> QED BY <1>1, <2>1, <2>2, <3>1, <3>2, <3>3, <3>4 DEF LogInv, Before
  <2> QED BY <2>5, <2>6
<1>12. CASE Replay
  <2> DEFINE k == Len(replayed)
  <2>1. main = "replay" /\ UNCHANGED <<net, events, file, loaded>>
        /\ IF k < Len(loaded) THEN replayed' = Append(replayed, loaded[k + 1]) /\ main' = main
                              ELSE main' = "done" /\ replayed' = replayed
    BY <1>12 DEF Replay
  <2>2. /\ loaded \in Seq(LoggedEvent) /\ k \in Nat /\ Len(loaded) \in Nat /\ k <= Len(loaded)
    BY <1>1, LenProperties DEF PrefixOf
  <2>3. CASE k < Len(loaded)
    <3>1. PrefixOf(replayed', loaded)
      <4>1. k + 1 \in 1 .. Len(loaded)
        BY <2>2, <2>3
      <4>2. PrefixOf(Append(replayed, loaded[k + 1]), loaded)
        BY <1>1, <2>2, <4>1, ExtendPrefix
      <4> QED BY <2>1, <2>3, <4>2
    <3> QED BY <2>1, <2>3, <3>1 DEF LogInv, Before
  <2>4. CASE ~(k < Len(loaded))
    BY <2>1, <2>2, <2>4 DEF LogInv, Before
  <2> QED BY <2>3, <2>4
<1>13. CASE UNCHANGED logVars
  BY <1>13 DEF logVars, LogInv
<1> QED
  BY <1>2, <1>3, <1>4, <1>5, <1>6, <1>7, <1>8, <1>9, <1>10, <1>11, <1>12, <1>13 DEF Next, Main

LEMMA LogInvariance == Spec => []LogInv
BY InitLog, NextLog, PTL DEF Spec

(* Wherever the writing of a log broke off, its replay hands the pipeline  *)
(* a prefix of the events that were recorded.                              *)
THEOREM ReplayIsAPrefix == Spec => []ReplaysAPrefix
<1>1. ASSUME LogInv PROVE ReplaysAPrefix
  <2> DEFINE n == Len(replayed)
             a == SubSeq(replayed, 1, n)
             b == SubSeq(events, 1, n)
  <2>1. /\ events \in Seq(LoggedEvent) /\ replayed \in Seq(LoggedEvent) /\ loaded \in Seq(LoggedEvent)
        /\ n <= Len(loaded) /\ Len(loaded) <= Len(events)
        /\ \A i \in 1 .. n : replayed[i] = loaded[i]
        /\ \A i \in 1 .. Len(loaded) : loaded[i] = events[i]
    BY <1>1 DEF LogInv, PrefixOf
  <2>2. n \in Nat /\ Len(loaded) \in Nat /\ Len(events) \in Nat
    BY <2>1, LenProperties
  <2>3. \A i \in 1 .. n : replayed[i] = events[i] /\ replayed[i] \in LoggedEvent
    BY <2>1, <2>2, LenProperties
  <2>4. /\ a \in Seq(LoggedEvent) /\ Len(a) = IF 1 <= n THEN n - 1 + 1 ELSE 0
        /\ \A i \in 1 .. n - 1 + 1 : a[i] = replayed[1 + i - 1]
    BY <2>1, <2>2, <2>3, SubSeqProperties
  <2>5. /\ b \in Seq(LoggedEvent) /\ Len(b) = IF 1 <= n THEN n - 1 + 1 ELSE 0
        /\ \A i \in 1 .. n - 1 + 1 : b[i] = events[1 + i - 1]
    <3>1. 1 \in 1 .. (Len(events) + 1) /\ n \in 0 .. Len(events)
          /\ \A i \in 1 .. n : events[i] \in LoggedEvent
      BY <2>1, <2>2, <2>3
    <3> HIDE DEF n
    <3> QED BY <2>1, <3>1, SubSeqProperties
  <2> HIDE DEF a, b, n
  <2>6. Len(a) = n /\ Len(b) = n /\ \A i \in 1 .. n : a[i] = b[i]
    BY <2>2, <2>3, <2>4, <2>5
  <2>7. a = b
    BY <2>4, <2>5, <2>6, SeqEqual
  <2>8. n <= Len(events)
    BY <2>1, <2>2
  <2> QED BY <2>7, <2>8 DEF ReplaysAPrefix, IsPrefix, a, b, n
<1> QED BY <1>1, LogInvariance, PTL

(* A log that was written to its end replays as all the events that the    *)
(* client delivered, and none is left in its hands.                        *)
THEOREM CompleteLogReplays == Spec => []CompleteLogReplaysAll
<1>1. ASSUME LogInv PROVE CompleteLogReplaysAll
  <2> SUFFICES ASSUME main = "done", file = write_events_to_file(events)
               PROVE  replayed = events /\ net = <<>>
    BY DEF CompleteLogReplaysAll
  <2>1. /\ events \in Seq(LoggedEvent) /\ net = <<>>
        /\ Len(file) < 1 + 7 * Len(loaded) + 7 /\ Len(replayed) = Len(loaded)
        /\ PrefixOf(loaded, events) /\ PrefixOf(replayed, loaded)
    BY <1>1 DEF LogInv, Before
  <2>2. /\ replayed \in Seq(LoggedEvent) /\ loaded \in Seq(LoggedEvent)
        /\ Len(loaded) <= Len(events)
        /\ \A i \in 1 .. Len(replayed) : replayed[i] = loaded[i]
        /\ \A i \in 1 .. Len(loaded) : loaded[i] = events[i]
    BY <2>1 DEF PrefixOf
  <2>3. Len(loaded) \in Nat /\ Len(events) \in Nat
    BY <2>1, <2>2, LenProperties
  <2>4. Len(file) = 1 + 7 * Len(events)
    BY <2>1, LogFields
  <2>5. Len(loaded) = Len(events) /\ Len(replayed) = Len(events)
    BY <2>1, <2>2, <2>3, <2>4
  <2>6. \A i \in 1 .. Len(events) : replayed[i] = events[i]
    BY <2>2, <2>5
  <2>7. replayed = events
    BY <2>1, <2>2, <2>5, <2>6, SeqEqual
  <2> QED BY <2>1, <2>7
<1> QED BY <1>1, LogInvariance, PTL

-----------------------------------------------------------------------------
(* The window of trades *)

(* The i-th event has a sequence above all the earlier ones.               *)
NewAt(r, i) == \A j \in 1 .. (i - 1) : r[j].sequence < r[i].sequence

CountedTrades(r) == {i \in DOMAIN r : r[i].type = "Trade" /\ NewAt(r, i)}

(* e lists the positions in S in their order.                              *)
Lists(e, c, S) ==
    /\ e \in [1 .. c -> Nat]
    /\ \A i, j \in 1 .. c : i < j => e[i] < e[j]
    /\ S = {e[i] : i \in 1 .. c}

(* The pipeline knows the largest sequence, ...                            *)
LastIs(last, r) ==
    IF r = <<>> THEN last = None
    ELSE /\ last \in Nat
         /\ \A j \in 1 .. Len(r) : r[j].sequence <= last
         /\ \E j \in 1 .. Len(r) : r[j].sequence = last

WindowEntry == [quantity : Int, timestamp : Int]

(* ... and the window holds the trades that e lists last.                  *)
WindowIs(w, r, e, c) ==
    /\ w \in Seq(WindowEntry)
    /\ Len(w) = IF c <= TradeWindow THEN c ELSE TradeWindow
    /\ \A i \in 1 .. Len(w) : w[i].quantity = r[e[c - Len(w) + i]].quantity

TradesInv ==
    /\ LastIs(last_sequence, replayed)
    /\ \E c \in Nat : \E e : /\ Lists(e, c, CountedTrades(replayed))
                             /\ WindowIs(trades, replayed, e, c)

LEMMA EventNumbers ==
    ASSUME NEW ev \in LoggedEvent
    PROVE  ev.sequence \in Nat /\ ev.quantity \in Int /\ ev.timestamp \in Int
<1>1. /\ ev.sequence \in 0 .. (2 * HalfRange - 1)
      /\ ev.quantity \in Int64 /\ ev.timestamp \in Int64
  BY DEF LoggedEvent
<1> QED BY <1>1, LogAssumption DEF Int64

(* Which trades count after one event more.                                *)
LEMMA CountedNext ==
    ASSUME NEW r \in Seq(LoggedEvent), NEW ev \in LoggedEvent, NEW last, LastIs(last, r),
           NEW u, u = Append(r, ev), NEW n, n = Len(r)
    PROVE  /\ NewAt(u, n + 1) <=> last = None \/ ev.sequence > last
           /\ CountedTrades(u)
                 = CountedTrades(r) \cup (IF ev.type = "Trade" /\ NewAt(u, n + 1)
                                          THEN {n + 1} ELSE {})
           /\ CountedTrades(r) \in SUBSET (1 .. n)
<1>1. /\ n \in Nat /\ DOMAIN r = 1 .. n /\ \A j \in 1 .. n : r[j] \in LoggedEvent
      /\ r = <<>> <=> n = 0
  BY LenProperties, EmptySeq
<1>2. /\ DOMAIN u = 1 .. (n + 1) /\ u[n + 1] = ev
      /\ \A j \in 1 .. n : u[j] = r[j]
  BY <1>1, AppendProperties
<1>3. \A j \in 1 .. n : r[j].sequence \in Nat
  BY <1>1, EventNumbers
<1>4. ev.sequence \in Nat
  BY EventNumbers
<1>5. NewAt(u, n + 1) <=> \A j \in 1 .. n : r[j].sequence < ev.sequence
  <2>1. (n + 1) - 1 = n
    BY <1>1
  <2> QED BY <1>2, <2>1 DEF NewAt
<1>6. NewAt(u, n + 1) <=> last = None \/ ev.sequence > last
  <2>1. CASE r = <<>>
    <3>1. last = None /\ \A j \in 1 .. n : FALSE
      BY <1>1, <2>1 DEF LastIs
    <3> QED BY <1>5, <3>1
  <2>2. CASE r # <<>>
    <3>1. /\ last \in Nat /\ \A j \in 1 .. n : r[j].sequence <= last
          /\ \E j \in 1 .. n : r[j].sequence = last
      BY <2>2 DEF LastIs
    <3>2. last # None
      BY <3>1, MetricsAssumption
    <3>3. (\A j \in 1 .. n : r[j].sequence < ev.sequence) <=> ev.sequence > last
      BY <1>3, <1>4, <3>1
    <3> QED BY <1>5, <3>2, <3>3
  <2> QED BY <2>1, <2>2
<1>7. ASSUME NEW i \in 1 .. n PROVE NewAt(u, i) <=> NewAt(r, i)
  <2>1. \A j \in 1 .. (i - 1) : j \in 1 .. n
    BY <1>1
  <2> QED BY <1>2, <2>1 DEF NewAt
<1>8. CountedTrades(u) = CountedTrades(r) \cup (IF ev.type = "Trade" /\ NewAt(u, n + 1)
                                                THEN {n + 1} ELSE {})
  <2>1. \A i : i \in 1 .. (n + 1) <=> i \in 1 .. n \/ i = n + 1
    BY <1>1
  <2>2. \A i : i \in CountedTrades(u)
                  <=> i \in 1 .. (n + 1) /\ u[i].type = "Trade" /\ NewAt(u, i)
    BY <1>2 DEF CountedTrades
  <2>3. \A i : i \in CountedTrades(r)
                  <=> i \in 1 .. n /\ r[i].type = "Trade" /\ NewAt(r, i)
    BY <1>1 DEF CountedTrades
  <2>4. \A i \in 1 .. n : i \in CountedTrades(u) <=> i \in CountedTrades(r)
    BY <1>2, <1>7, <2>1, <2>2, <2>3
  <2>5. n + 1 \in CountedTrades(u) <=> ev.type = "Trade" /\ NewAt(u, n + 1)
    BY <1>2, <2>1, <2>2
  <2>6. n + 1 \notin 1 .. n
    BY <1>1
  <2> QED BY <2>1, <2>2, <2>3, <2>4, <2>5, <2>6
<1>9. CountedTrades(r) \in SUBSET (1 .. n)
  BY <1>1 DEF CountedTrades
<1> QED BY <1>6, <1>8, <1>9

(* The largest sequence after one event more.                              *)
LEMMA LastNext ==
    ASSUME NEW r \in Seq(LoggedEvent), NEW ev \in LoggedEvent, NEW last, LastIs(last, r)
    PROVE  LastIs(IF last # None /\ ev.sequence <= last THEN last ELSE ev.sequence,
                  Append(r, ev))
<1> DEFINE n == Len(r)
           u == Append(r, ev)
           new == IF last # None /\ ev.sequence <= last THEN last ELSE ev.sequence
<1>1. /\ n \in Nat /\ \A j \in 1 .. n : r[j] \in LoggedEvent
      /\ r = <<>> <=> n = 0
  BY LenProperties, EmptySeq
<1>2. /\ Len(u) = n + 1 /\ u[n + 1] = ev /\ u # <<>>
      /\ \A j \in 1 .. n : u[j] = r[j]
  BY <1>1, AppendProperties
<1>3. \A j \in 1 .. n : r[j].sequence \in Nat
  BY <1>1, EventNumbers
<1>4. ev.sequence \in Nat
  BY EventNumbers
<1>5. \A j : j \in 1 .. (n + 1) <=> j \in 1 .. n \/ j = n + 1
  BY <1>1
<1> HIDE DEF n, u
<1>6. CASE r = <<>>
  <2>1. new = ev.sequence /\ n = 0
    BY <1>1, <1>6 DEF LastIs
  <2>2. \A j \in 1 .. (n + 1) : j = n + 1
    BY <1>5, <2>1
  <2>3. n + 1 \in 1 .. (n + 1)
    BY <1>5
  <2> HIDE DEF new
  <2> QED BY <1>2, <1>4, <2>1, <2>2, <2>3 DEF LastIs, new, u
<1>7. CASE r # <<>>
  <2>1. /\ last \in Nat /\ \A j \in 1 .. n : r[j].sequence <= last
        /\ \E j \in 1 .. n : r[j].sequence = last
    BY <1>7 DEF LastIs, n
  <2>2. last # None
    BY <2>1, MetricsAssumption
  <2>3. new \in Nat /\ last <= new /\ ev.sequence <= new /\ (new = last \/ new = ev.sequence)
    BY <1>4, <2>1, <2>2
  <2> HIDE DEF new
  <2>4. ASSUME NEW j \in 1 .. (n + 1) PROVE u[j].sequence <= new
    <3>1. CASE j \in 1 .. n
      <4>1. u[j].sequence = r[j].sequence /\ r[j].sequence <= last /\ r[j].sequence \in Nat
        BY <1>2, <1>3, <2>1, <3>1
      <4> QED BY <2>1, <2>3, <4>1
    <3>2. CASE j = n + 1
      BY <1>2, <2>3, <3>2
    <3> QED BY <1>5, <3>1, <3>2
  <2>5. \E j \in 1 .. (n + 1) : u[j].sequence = new
    <3>1. CASE new = last
      <4>1. PICK j \in 1 .. n : r[j].sequence = last
        BY <2>1
      <4>2. j \in 1 .. (n + 1) /\ u[j].sequence = last
        BY <1>2, <1>5, <4>1
      <4> QED BY <3>1, <4>2
    <3>2. CASE new = ev.sequence
      <4>1. n + 1 \in 1 .. (n + 1)
        BY <1>5
      <4> QED BY <1>2, <3>2, <4>1
    <3> QED BY <2>3, <3>1, <3>2
  <2> QED BY <1>2, <2>3, <2>4, <2>5 DEF LastIs, new, u
<1> QED BY <1>6, <1>7

(* o holds the last l of the k entries of w and x.                         *)
LastEntries(o, l, w, k, x) ==
    /\ o \in Seq(WindowEntry) /\ Len(o) = l
    /\ \A i \in 1 .. l : o[i] = IF k + 1 - l + i <= k THEN w[k + 1 - l + i] ELSE x

(* on_trade keeps the last trades.                                         *)
LEMMA OnTradeElements ==
    ASSUME NEW w \in Seq(WindowEntry), NEW ev \in LoggedEvent, NEW x,
           x = [quantity |-> ev.quantity, timestamp |-> ev.timestamp],
           NEW k, k = Len(w),
           NEW l, l = IF k + 1 <= TradeWindow THEN k + 1 ELSE TradeWindow
    PROVE  LastEntries(on_trade(w, ev), l, w, k, x)
<1> DEFINE u == Append(w, x)
<1>1. x \in WindowEntry
  <2>1. ev.quantity \in Int /\ ev.timestamp \in Int
    BY EventNumbers
  <2> QED BY <2>1 DEF WindowEntry
<1>2. /\ k \in Nat /\ u \in Seq(WindowEntry) /\ Len(u) = k + 1 /\ u[k + 1] = x
      /\ \A i \in 1 .. k : u[i] = w[i]
      /\ \A i \in 1 .. (k + 1) : u[i] \in WindowEntry
  <2>1. k \in Nat /\ u \in Seq(WindowEntry)
    BY <1>1, LenProperties, AppendProperties
  <2>2. Len(u) = k + 1 /\ u[k + 1] = x /\ \A i \in 1 .. k : u[i] = w[i]
    BY <1>1, AppendProperties
  <2> QED BY <2>1, <2>2, LenProperties
<1>3. TradeWindow \in Nat
  BY MetricsAssumption
<1> HIDE DEF u
<1> DEFINE lo == k + 2 - l
<1>4. l \in Nat /\ lo \in Int /\ lo >= 1 /\ l <= k + 1
  BY <1>2, <1>3
<1>5. Max({1, Len(u) - TradeWindow + 1}) = lo
  <2>1. Len(u) - TradeWindow + 1 \in Int /\ 1 \in Int
    BY <1>2, <1>3
  <2>2. Max({1, Len(u) - TradeWindow + 1})
           = IF 1 >= Len(u) - TradeWindow + 1 THEN 1 ELSE Len(u) - TradeWindow + 1
    BY <2>1, MaxOfTwo
  <2>3. Len(u) = k + 1 /\ k \in Nat
    BY <1>2
  <2>4. Max({1, Len(u) - TradeWindow + 1})
           = IF 1 >= k + 1 - TradeWindow + 1 THEN 1 ELSE k + 1 - TradeWindow + 1
    BY <1>3, <2>2, <2>3
  <2>5. lo = IF 1 >= k + 1 - TradeWindow + 1 THEN 1 ELSE k + 1 - TradeWindow + 1
    <3>1. CASE k + 1 <= TradeWindow
      <4>1. lo = 1
        BY <1>3, <2>3, <3>1
      <4> HIDE DEF lo
      <4> QED BY <1>3, <2>3, <3>1, <4>1
    <3>2. CASE ~(k + 1 <= TradeWindow)
      <4>1. lo = k + 2 - TradeWindow
        BY <3>2
      <4> HIDE DEF lo
      <4> QED BY <1>3, <2>3, <3>2, <4>1
    <3> QED BY <3>1, <3>2
  <2> HIDE DEF lo
  <2> QED BY <2>4, <2>5
<1>6. on_trade(w, ev) = SubSeq(u, lo, k + 1)
  BY <1>2, <1>5 DEF on_trade, LastOf, u
<1>7. k + 1 \in Int /\ \A i \in lo .. (k + 1) : u[i] \in WindowEntry
  BY <1>2, <1>4
<1> HIDE DEF lo
<1>8. /\ SubSeq(u, lo, k + 1) \in Seq(WindowEntry)
      /\ Len(SubSeq(u, lo, k + 1)) = IF lo <= k + 1 THEN (k + 1) - lo + 1 ELSE 0
      /\ \A i \in 1 .. ((k + 1) - lo + 1) : SubSeq(u, lo, k + 1)[i] = u[lo + i - 1]
  BY <1>4, <1>7, SubSeqProperties
<1>9. Len(on_trade(w, ev)) = l /\ (k + 1) - lo + 1 = l
  BY <1>2, <1>4, <1>6, <1>8 DEF lo
<1>10. ASSUME NEW i \in 1 .. l
       PROVE  on_trade(w, ev)[i] = IF k + 1 - l + i <= k THEN w[k + 1 - l + i] ELSE x
  <2> DEFINE j == k + 1 - l + i
  <2>0. k \in Nat /\ i \in Int /\ 1 <= i /\ i <= l
    BY <1>2, <1>4
  <2>1. lo + i - 1 = j /\ j \in 1 .. (k + 1)
    BY <1>3, <1>4, <2>0 DEF lo
  <2>2. on_trade(w, ev)[i] = u[j]
    BY <1>6, <1>8, <1>9, <2>1
  <2> HIDE DEF j
  <2>3. u[j] = IF j <= k THEN w[j] ELSE x
    <3>1. CASE j <= k
      BY <1>2, <2>1, <3>1
    <3>2. CASE ~(j <= k)
      <4>1. j = k + 1
        BY <1>2, <2>1, <3>2
      <4> QED BY <1>2, <3>2, <4>1
    <3> QED BY <3>1, <3>2
  <2> QED BY <2>2, <2>3 DEF j
<1> QED BY <1>6, <1>8, <1>9, <1>10 DEF LastEntries

(* A new trade is listed last and enters the window.                       *)
LEMMA WindowNext ==
    ASSUME NEW r \in Seq(LoggedEvent), NEW ev \in LoggedEvent, NEW n, n = Len(r),
           NEW w, NEW c \in Nat, NEW e, NEW S \in SUBSET (1 .. n),
           Lists(e, c, S), WindowIs(w, r, e, c)
    PROVE  \E d : /\ Lists(d, c + 1, S \cup {n + 1})
                  /\ WindowIs(on_trade(w, ev), Append(r, ev), d, c + 1)
<1>x. PICK x : x = [quantity |-> ev.quantity, timestamp |-> ev.timestamp]
  OBVIOUS
<1>k. PICK k : k = Len(w)
  OBVIOUS
<1>l. PICK l : l = IF k + 1 <= TradeWindow THEN k + 1 ELSE TradeWindow
  OBVIOUS
<1> DEFINE d == [i \in 1 .. (c + 1) |-> IF i = c + 1 THEN n + 1 ELSE e[i]]
           u == Append(r, ev)
           o == on_trade(w, ev)
<1>1. n \in Nat /\ TradeWindow \in Nat
  BY LenProperties, MetricsAssumption
<1>2. /\ e \in [1 .. c -> Nat] /\ \A i, j \in 1 .. c : i < j => e[i] < e[j]
      /\ S = {e[i] : i \in 1 .. c}
  BY DEF Lists
<1>3. \A i \in 1 .. c : e[i] \in 1 .. n
  BY <1>2
<1>4. /\ d[c + 1] = n + 1 /\ \A i \in 1 .. c : d[i] = e[i]
      /\ d \in [1 .. (c + 1) -> Nat]
  BY <1>1, <1>2
<1>5. \A i : i \in 1 .. (c + 1) <=> i \in 1 .. c \/ i = c + 1
  OBVIOUS
<1> HIDE DEF d
<1>6. Lists(d, c + 1, S \cup {n + 1})
  <2>1. ASSUME NEW i \in 1 .. (c + 1), NEW j \in 1 .. (c + 1), i < j PROVE d[i] < d[j]
    <3>1. i \in 1 .. c
      BY <2>1
    <3>2. CASE j \in 1 .. c
      BY <1>2, <1>4, <2>1, <3>1, <3>2
    <3>3. CASE j = c + 1
      <4>1. d[i] = e[i] /\ d[j] = n + 1 /\ e[i] \in 1 .. n
        BY <1>3, <1>4, <3>1, <3>3
      <4> QED BY <1>1, <4>1
    <3> QED BY <1>5, <3>2, <3>3
  <2>2. S \cup {n + 1} = {d[i] : i \in 1 .. (c + 1)}
    BY <1>2, <1>4, <1>5
  <2> QED BY <1>4, <2>1, <2>2 DEF Lists
<1>7. /\ w \in Seq(WindowEntry) /\ k \in Nat
      /\ k = IF c <= TradeWindow THEN c ELSE TradeWindow
      /\ \A i \in 1 .. k : w[i].quantity = r[e[c - k + i]].quantity
  BY <1>k, LenProperties DEF WindowIs
<1>8. /\ l = IF c + 1 <= TradeWindow THEN c + 1 ELSE TradeWindow
      /\ l \in Nat /\ l <= k + 1 /\ k <= c
      /\ l # 0 => c + 1 - l = c - k + (k + 1 - l)
  BY <1>1, <1>7, <1>l
<1>9. /\ o \in Seq(WindowEntry) /\ Len(o) = l
      /\ \A i \in 1 .. l : o[i] = IF k + 1 - l + i <= k THEN w[k + 1 - l + i] ELSE x
  <2>1. w \in Seq(WindowEntry)
    BY <1>7
  <2>2. LastEntries(on_trade(w, ev), l, w, k, x)
    BY <1>x, <1>k, <1>l, <2>1, OnTradeElements
  <2> QED BY <2>2 DEF LastEntries
<1>10. x.quantity = ev.quantity
  BY <1>x
<1>11. u[n + 1] = ev /\ \A j \in 1 .. n : u[j] = r[j]
  BY AppendProperties
<1> HIDE DEF o, u
<1>12. ASSUME NEW i \in 1 .. l PROVE o[i].quantity = u[d[(c + 1) - l + i]].quantity
  <2> DEFINE j == k + 1 - l + i
  <2>0. k \in Nat /\ l \in Nat /\ i \in Int /\ 1 <= i /\ i <= l /\ l <= k + 1 /\ k <= c
    BY <1>7, <1>8
  <2>1. j \in 1 .. (k + 1) /\ (c + 1) - l + i = c - k + j
    BY <2>0
  <2>2. o[i] = IF j <= k THEN w[j] ELSE x
    BY <1>9
  <2> HIDE DEF j
  <2>3. CASE j <= k
    <3>1. j \in 1 .. k /\ c - k + j \in 1 .. c
      BY <2>0, <2>1, <2>3
    <3>2. o[i].quantity = r[e[c - k + j]].quantity
      BY <1>7, <2>2, <2>3, <3>1
    <3>3. d[c - k + j] = e[c - k + j] /\ e[c - k + j] \in 1 .. n
      BY <1>3, <1>4, <3>1
    <3>4. u[d[c - k + j]] = r[e[c - k + j]]
      BY <1>11, <3>3
    <3> QED BY <2>1, <3>2, <3>4
  <2>4. CASE ~(j <= k)
    <3>1. c - k + j = c + 1
      BY <2>0, <2>1, <2>4
    <3>2. d[c - k + j] = n + 1
      BY <1>4, <3>1
    <3> QED BY <1>10, <1>11, <2>1, <2>2, <2>4, <3>2
  <2> QED BY <2>3, <2>4
<1>13. WindowIs(o, u, d, c + 1)
  BY <1>8, <1>9, <1>12 DEF WindowIs
<1> QED BY <1>6, <1>13 DEF o, u

(* Without a new trade nothing changes but the log.                        *)
LEMMA WindowSame ==
    ASSUME NEW r \in Seq(LoggedEvent), NEW ev \in LoggedEvent, NEW n, n = Len(r),
           NEW w, NEW c \in Nat, NEW e, NEW S \in SUBSET (1 .. n),
           Lists(e, c, S), WindowIs(w, r, e, c)
    PROVE  WindowIs(w, Append(r, ev), e, c)
<1> DEFINE u == Append(r, ev)
           k == Len(w)
<1>1. \A j \in 1 .. n : u[j] = r[j]
  BY AppendProperties
<1>2. \A i \in 1 .. c : e[i] \in 1 .. n
  BY DEF Lists
<1>3. /\ w \in Seq(WindowEntry) /\ k \in Nat
      /\ k = IF c <= TradeWindow THEN c ELSE TradeWindow
      /\ \A i \in 1 .. k : w[i].quantity = r[e[c - k + i]].quantity
  BY LenProperties DEF WindowIs
<1> HIDE DEF k, u
<1>4. ASSUME NEW i \in 1 .. k PROVE w[i].quantity = u[e[c - k + i]].quantity
  <2>1. c - k + i \in 1 .. c
    BY <1>3, MetricsAssumption
  <2>2. u[e[c - k + i]] = r[e[c - k + i]]
    BY <1>1, <1>2, <2>1
  <2> QED BY <1>3, <2>2
<1> QED BY <1>3, <1>4 DEF WindowIs, k, u

(* One step of the replay hands process() at most one event more.          *)
LEMMA MetricsSteps ==
    ASSUME LogInv, [MetricsNext]_<<logVars, metricVars>>
    PROVE  \/ replayed' = replayed /\ UNCHANGED metricVars
           \/ \E ev \in LoggedEvent, ns \in Durations :
                 replayed' = Append(replayed, ev) /\ Measure(ev, ns)
<1>1. CASE UNCHANGED <<logVars, metricVars>>
  BY <1>1 DEF logVars
<1>2. CASE Next /\ main # "replay" /\ UNCHANGED metricVars
  <2>1. replayed' = replayed
    BY <1>2 DEF Next, Main, TimeUp, Callback, Arrive, Test, LockForStatus, EndStatus, Stop, Join,
                Save, Write, CutShort, OpenLog, Load, Replay
  <2> QED BY <1>2, <2>1
<1>3. ASSUME NEW ns \in Durations, ReplayAndMeasure(ns)
      PROVE  \/ replayed' = replayed /\ UNCHANGED metricVars
             \/ \E ev \in LoggedEvent : replayed' = Append(replayed, ev) /\ Measure(ev, ns)
  <2>1. CASE replayed' = replayed
    BY <1>3, <2>1 DEF ReplayAndMeasure
  <2>2. CASE replayed' # replayed
    <3>1. /\ Measure(Last(replayed'), ns) /\ Len(replayed) < Len(loaded)
          /\ replayed' = Append(replayed, loaded[Len(replayed) + 1])
      BY <1>3, <2>2 DEF ReplayAndMeasure, Replay
    <3>2. replayed \in Seq(LoggedEvent) /\ loaded \in Seq(LoggedEvent)
      BY DEF LogInv, PrefixOf
    <3>3. PICK n : n = Len(replayed)
      OBVIOUS
    <3>4. n \in Nat /\ Len(loaded) \in Nat /\ n + 1 \in 1 .. Len(loaded)
      BY <3>1, <3>2, <3>3, LenProperties
    <3>5. loaded[n + 1] \in LoggedEvent
      BY <3>2, <3>4, LenProperties
    <3>6. PICK ev \in LoggedEvent : ev = loaded[n + 1]
      BY <3>5
    <3>7. replayed' = Append(replayed, ev)
      BY <3>1, <3>3, <3>6
    <3>8. Len(replayed') = n + 1 /\ replayed'[n + 1] = ev
      BY <3>2, <3>3, <3>7, AppendProperties
    <3>9. Last(replayed') = ev
      BY <3>8 DEF Last
    <3> QED BY <3>1, <3>7, <3>9
  <2> QED BY <2>1, <2>2
<1> QED BY <1>1, <1>2, <1>3 DEF MetricsNext

(* The log is not disturbed by what is measured.                           *)
LEMMA MetricsKeepLog == LogInv /\ [MetricsNext]_<<logVars, metricVars>> => LogInv'
<1> SUFFICES ASSUME LogInv, [MetricsNext]_<<logVars, metricVars>> PROVE LogInv'
  OBVIOUS
<1>1. [Next]_logVars
  BY DEF MetricsNext, ReplayAndMeasure, Next, Main
<1> QED BY <1>1, NextLog

LEMMA InitTrades == MetricsInit => TradesInv
<1> SUFFICES ASSUME MetricsInit PROVE TradesInv
  OBVIOUS
<1>1. last_sequence = None /\ replayed = <<>> /\ trades = <<>>
  BY DEF MetricsInit, Init
<1>2. LastIs(last_sequence, replayed)
  BY <1>1 DEF LastIs
<1> DEFINE e == [i \in 1 .. 0 |-> 0]
<1>3. Lists(e, 0, CountedTrades(replayed))
  <2>1. CountedTrades(replayed) = {}
    BY <1>1 DEF CountedTrades
  <2> QED BY <2>1 DEF Lists
<1>4. WindowIs(trades, replayed, e, 0)
  <2>1. trades \in Seq(WindowEntry) /\ Len(trades) = 0
    BY <1>1
  <2>2. \A i \in 1 .. 0 : FALSE
    OBVIOUS
  <2> QED BY <2>1, <2>2, MetricsAssumption DEF WindowIs
<1> QED BY <1>2, <1>3, <1>4 DEF TradesInv

LEMMA NextTrades ==
    LogInv /\ TradesInv /\ [MetricsNext]_<<logVars, metricVars>> => TradesInv'
<1> SUFFICES ASSUME LogInv, TradesInv, [MetricsNext]_<<logVars, metricVars>> PROVE TradesInv'
  OBVIOUS
<1>1. CASE replayed' = replayed /\ UNCHANGED metricVars
  BY <1>1 DEF TradesInv, metricVars
<1>2. ASSUME NEW ev \in LoggedEvent, NEW ns \in Durations,
             replayed' = Append(replayed, ev), Measure(ev, ns)
      PROVE  TradesInv'
  <2>r. PICK r \in Seq(LoggedEvent) : r = replayed
    BY DEF LogInv, PrefixOf
  <2>u. PICK u : u = Append(r, ev)
    OBVIOUS
  <2>n. PICK n : n = Len(r)
    OBVIOUS
  <2>1. LastIs(last_sequence, r) /\ u = replayed'
    BY <1>2, <2>r, <2>u DEF TradesInv
  <2>2. /\ NewAt(u, n + 1) <=> last_sequence = None \/ ev.sequence > last_sequence
        /\ CountedTrades(u)
              = CountedTrades(r) \cup (IF ev.type = "Trade" /\ NewAt(u, n + 1)
                                       THEN {n + 1} ELSE {})
        /\ CountedTrades(r) \in SUBSET (1 .. n)
    BY <2>u, <2>n, <2>1, CountedNext
  <2>3. LastIs(IF last_sequence # None /\ ev.sequence <= last_sequence
               THEN last_sequence ELSE ev.sequence, u)
    BY <2>u, <2>1, LastNext
  <2>4. last_sequence = None \/ last_sequence \in Nat
    BY <2>1 DEF LastIs
  <2>5. last_sequence \in Nat => last_sequence # None
    BY MetricsAssumption
  <2>6. ev.sequence \in Nat
    BY EventNumbers
  <2>7. NewAt(u, n + 1) <=> ~(last_sequence # None /\ ev.sequence <= last_sequence)
    BY <2>2, <2>4, <2>5, <2>6
  <2>8. LastIs(last_sequence', u)
    BY <1>2, <2>3 DEF Measure, metricVars
  <2>c. PICK c \in Nat : \E e : Lists(e, c, CountedTrades(r)) /\ WindowIs(trades, r, e, c)
    BY <2>r DEF TradesInv
  <2>9. PICK e : Lists(e, c, CountedTrades(r)) /\ WindowIs(trades, r, e, c)
    BY <2>c
  <2>10. CASE ev.type = "Trade" /\ NewAt(u, n + 1)
    <3>1. trades' = on_trade(trades, ev)
      BY <1>2, <2>7, <2>10 DEF Measure
    <3>2. CountedTrades(u) = CountedTrades(r) \cup {n + 1}
      BY <2>2, <2>10
    <3>3. \E d : /\ Lists(d, c + 1, CountedTrades(r) \cup {n + 1})
                 /\ WindowIs(on_trade(trades, ev), Append(r, ev), d, c + 1)
      BY <2>n, <2>2, <2>9, WindowNext
    <3>4. c + 1 \in Nat
      OBVIOUS
    <3>5. \E d : Lists(d, c + 1, CountedTrades(u)) /\ WindowIs(trades', u, d, c + 1)
      BY <2>u, <3>1, <3>2, <3>3
    <3> QED BY <2>1, <2>8, <3>4, <3>5 DEF TradesInv
  <2>11. CASE ~(ev.type = "Trade" /\ NewAt(u, n + 1))
    <3>1. trades' = trades
      BY <1>2, <2>7, <2>11 DEF Measure, metricVars
    <3>2. CountedTrades(u) = CountedTrades(r)
      BY <2>2, <2>11
    <3>3. WindowIs(trades, u, e, c)
      BY <2>u, <2>n, <2>2, <2>9, WindowSame
    <3> QED BY <2>1, <2>8, <2>9, <3>1, <3>2, <3>3 DEF TradesInv
  <2> QED BY <2>10, <2>11
<1> QED BY <1>1, <1>2, MetricsSteps

(* How many listed positions are above the i-th one.                       *)
LEMMA AboveListed ==
    ASSUME NEW c \in Nat, NEW e, NEW S, Lists(e, c, S), NEW i \in 1 .. c
    PROVE  Cardinality({j \in S : j > e[i]}) = c - i
<1> DEFINE T == {j \in S : j > e[i]}
           D == (i + 1) .. c
           g == [k \in D |-> e[k]]
<1>1. /\ e \in [1 .. c -> Nat] /\ \A k, l \in 1 .. c : k < l => e[k] < e[l]
      /\ S = {e[k] : k \in 1 .. c}
  BY DEF Lists
<1>2. \A k \in D : k \in 1 .. c /\ k > i
  OBVIOUS
<1>3. \A k \in 1 .. c : k > i => k \in D
  OBVIOUS
<1>4. \A k \in D : g[k] = e[k]
  OBVIOUS
<1> HIDE DEF D
<1>5. \A k \in D : e[k] \in T
  BY <1>1, <1>2
<1>6. \A x \in T : \E k \in D : e[k] = x
  <2> SUFFICES ASSUME NEW x \in T PROVE \E k \in D : e[k] = x
    OBVIOUS
  <2>1. PICK k \in 1 .. c : e[k] = x
    BY <1>1
  <2>2. k > i
    <3>1. k < i => e[k] < e[i]
      BY <1>1
    <3>2. e[k] > e[i] /\ e[k] \in Nat /\ e[i] \in Nat
      BY <1>1, <2>1
    <3> QED BY <3>1, <3>2
  <2> QED BY <1>3, <2>1, <2>2
<1>7. \A k, l \in D : e[k] = e[l] => k = l
  <2> SUFFICES ASSUME NEW k \in D, NEW l \in D, k # l PROVE e[k] # e[l]
    OBVIOUS
  <2>1. k \in 1 .. c /\ l \in 1 .. c
    BY <1>2
  <2>2. e[k] \in Nat /\ e[l] \in Nat /\ (k < l => e[k] < e[l]) /\ (l < k => e[l] < e[k])
    BY <1>1, <2>1
  <2> QED BY <2>1, <2>2
<1> HIDE DEF T
<1>8. g \in Bijection(D, T)
  <2>1. g \in [D -> T]
    BY <1>4, <1>5
  <2>2. \A k, l \in D : g[k] = g[l] => k = l
    BY <1>4, <1>7
  <2>3. \A x \in T : \E k \in D : g[k] = x
    BY <1>4, <1>6
  <2> HIDE DEF g
  <2> QED BY <2>1, <2>2, <2>3 DEF Bijection, Injection, Surjection, IsInjective
<1>9. IsFiniteSet(D) /\ Cardinality(D) = c - i
  <2>1. PICK a \in Int : a = i + 1
    OBVIOUS
  <2>2. c \in Int /\ D = a .. c
    BY <2>1 DEF D
  <2>3. IsFiniteSet(a .. c) /\ Cardinality(a .. c) = IF a > c THEN 0 ELSE c - a + 1
    BY <2>2, FS_Interval
  <2> QED BY <2>1, <2>2, <2>3
<1>10. ExistsBijection(D, T)
  BY <1>8 DEF ExistsBijection
<1>11. Cardinality(T) = c - i
  <2>1. IsFiniteSet(D)
    BY <1>9
  <2>2. Cardinality(T) = Cardinality(D)
    BY <2>1, <1>10, FS_Bijection
  <2> QED BY <1>9, <2>2
<1> QED BY <1>11 DEF T

(* The positions in S with fewer than TradeWindow ones above.              *)
Latest(S) == {x \in S : Cardinality({j \in S : j > x}) < TradeWindow}

(* b is the last l of the c positions in e.                                *)
EndOf(b, l, e, c) == b = [i \in 1 .. l |-> e[c - l + i]]

(* The latest of the listed positions are the last ones of the list.       *)
LEMMA LatestListed ==
    ASSUME NEW c \in Nat, NEW e, NEW S, Lists(e, c, S),
           NEW l \in Nat, l = IF c <= TradeWindow THEN c ELSE TradeWindow,
           NEW b, EndOf(b, l, e, c)
    PROVE  /\ Latest(S) = {b[i] : i \in 1 .. l}
           /\ \A i, j \in 1 .. l : b[i] = b[j] => i = j
<1> DEFINE L == Latest(S)
<1>0. TradeWindow \in Nat
  BY MetricsAssumption
<1>1. /\ e \in [1 .. c -> Nat] /\ \A k, m \in 1 .. c : k < m => e[k] < e[m]
      /\ S = {e[k] : k \in 1 .. c}
  BY DEF Lists
<1>2. \A i \in 1 .. l : b[i] = e[c - l + i] /\ c - l + i \in 1 .. c
  BY <1>0 DEF EndOf
<1>3. \A k \in 1 .. c : e[k] \in L <=> c - k < TradeWindow
  <2>1. \A k \in 1 .. c : e[k] \in S /\ Cardinality({j \in S : j > e[k]}) = c - k
    BY <1>1, AboveListed
  <2> QED BY <2>1 DEF Latest
<1>4. ASSUME NEW x \in L PROVE \E i \in 1 .. l : b[i] = x
  <2>1. PICK k \in 1 .. c : e[k] = x
    BY <1>1 DEF Latest
  <2>2. c - k < TradeWindow
    BY <1>3, <2>1
  <2> DEFINE i == k - (c - l)
  <2>3. i \in 1 .. l /\ c - l + i = k
    BY <1>0, <2>2
  <2> HIDE DEF i
  <2>4. b[i] = x
    BY <1>2, <2>1, <2>3
  <2> QED BY <2>3, <2>4
<1>5. ASSUME NEW i \in 1 .. l PROVE b[i] \in L
  <2>1. c - (c - l + i) < TradeWindow
    BY <1>0
  <2> QED BY <1>2, <1>3, <2>1
<1>6. ASSUME NEW i \in 1 .. l, NEW j \in 1 .. l, b[i] = b[j] PROVE i = j
  <2>1. PICK k \in 1 .. c, m \in 1 .. c : k = c - l + i /\ m = c - l + j
    BY <1>2
  <2>2. e[k] = e[m] /\ e[k] \in Nat /\ e[m] \in Nat /\ (k < m => e[k] < e[m])
        /\ (m < k => e[m] < e[k])
    BY <1>1, <1>2, <1>6, <2>1
  <2>3. k = m
    BY <2>2
  <2> QED BY <2>1, <2>3
<1> HIDE DEF L
<1>7. L = {b[i] : i \in 1 .. l}
  BY <1>4, <1>5
<1> QED BY <1>6, <1>7 DEF L

(* The volume over the trade window is that of the latest trades of the    *)
(* log: on_trade drops the oldest one, and process() lets none in that is  *)
(* late or repeated.                                                       *)
THEOREM WindowHoldsLatestTrades == MetricsSpec => []VolumeOfLatestTrades
<1>1. ASSUME LogInv, TradesInv PROVE VolumeOfLatestTrades
  <2>r. PICK r \in Seq(LoggedEvent) : r = replayed
    BY <1>1 DEF LogInv, PrefixOf
  <2>w. PICK w : w = trades
    OBVIOUS
  <2>s. PICK S : S = CountedTrades(r)
    OBVIOUS
  <2>c. PICK c \in Nat : \E e : Lists(e, c, S) /\ WindowIs(w, r, e, c)
    BY <1>1, <2>r, <2>w, <2>s DEF TradesInv
  <2>e. PICK e : Lists(e, c, S) /\ WindowIs(w, r, e, c)
    BY <2>c
  <2>0. w \in Seq(WindowEntry)
    BY <2>e DEF WindowIs
  <2>l. PICK l \in Nat : l = Len(w)
    BY <2>0, LenProperties
  <2>b. PICK b : EndOf(b, l, e, c)
    BY DEF EndOf
  <2>1. l = (IF c <= TradeWindow THEN c ELSE TradeWindow)
    BY <2>e, <2>l DEF WindowIs
  <2>2. \A i \in 1 .. l : w[i].quantity = r[e[c - l + i]].quantity
    BY <2>e, <2>l DEF WindowIs
  <2>3. DOMAIN w = 1 .. l /\ \A i \in 1 .. l : w[i].quantity \in Int
    <3>1. DOMAIN w = 1 .. l /\ \A i \in 1 .. l : w[i] \in WindowEntry
      BY <2>0, <2>l, LenProperties
    <3> QED BY <3>1 DEF WindowEntry
  <2> DEFINE L == Latest(S)
  <2>4. /\ L = {b[i] : i \in 1 .. l}
        /\ \A i, j \in 1 .. l : b[i] = b[j] => i = j
    <3>1. Lists(e, c, S)
      BY <2>e
    <3> QED BY <3>1, <2>1, <2>b, LatestListed
  <2> DEFINE h == [i \in 1 .. l |-> w[i].quantity]
             f == [i \in L |-> r[i].quantity]
  <2>5. rolling_trade_volume(trades) = SumFunction(h)
    BY <2>w, <2>3 DEF rolling_trade_volume
  <2>6. \A i \in 1 .. l : b[i] \in L /\ b[i] = e[c - l + i]
    BY <2>4, <2>b DEF EndOf
  <2>7. \A i \in 1 .. l : f[b[i]] = r[b[i]].quantity /\ h[i] = w[i].quantity
    BY <2>6
  <2>8. DOMAIN h = 1 .. l /\ DOMAIN f = L
    OBVIOUS
  <2>9. VolumeOfLatestTrades <=> rolling_trade_volume(trades) = SumFunction(f)
    BY <2>r, <2>s DEF VolumeOfLatestTrades, CountedTrades, NewAt, Latest
  <2> HIDE DEF h, f, L
  <2>10. \A i \in 1 .. l : f[b[i]] \in Int /\ h[i] = f[b[i]]
    <3> SUFFICES ASSUME NEW i \in 1 .. l PROVE f[b[i]] \in Int /\ h[i] = f[b[i]]
      OBVIOUS
    <3>1. b[i] = e[c - l + i] /\ f[b[i]] = r[b[i]].quantity /\ h[i] = w[i].quantity
      BY <2>6, <2>7
    <3>2. w[i].quantity = r[e[c - l + i]].quantity /\ w[i].quantity \in Int
      BY <2>2, <2>3
    <3> QED BY <3>1, <3>2
  <2>11. IsFiniteSet(1 .. l)
    BY IndicesFinite
  <2>12. SumFunctionOnSet(h, 1 .. l) = SumFunctionOnSet(f, {b[i] : i \in 1 .. l})
    <3>1. PICK I : I = 1 .. l
      OBVIOUS
    <3>2. \A i, j \in I : b[i] = b[j] => i = j
      BY <2>4, <3>1
    <3>3. (\A i \in I : f[b[i]] \in Int /\ h[i] = f[b[i]]) /\ IsFiniteSet(I)
      BY <2>10, <2>11, <3>1
    <3>4. SumFunctionOnSet(h, I) = SumFunctionOnSet(f, {b[i] : i \in I})
      BY <3>2, <3>3, SumImage
    <3> QED BY <3>1, <3>4
  <2>13. SumFunction(h) = SumFunction(f)
    BY <2>4, <2>8, <2>12 DEF SumFunction
  <2> QED BY <2>5, <2>9, <2>13
<1>2. MetricsInit => LogInv
  BY InitLog DEF MetricsInit
<1>3. MetricsSpec => [](LogInv /\ TradesInv)
  BY <1>2, InitTrades, NextTrades, MetricsKeepLog, PTL DEF MetricsSpec
<1> QED BY <1>1, <1>3, PTL

-----------------------------------------------------------------------------
(* The buckets of the histogram *)

(* What is measured, after a negative duration has been made 0.            *)
Measurable == {v \in Nat : v < 2^TopBit}

LEMMA SmallPowers == 2^1 = 2 /\ 2^2 = 4 /\ 2^3 = 8 /\ 2^4 = 16 /\ 2^5 = 32
<1>1. 2^(0 + 1) = 2 * 2^0 /\ 2^0 = 1
  BY PowerZero, PowerNext
<1>2. 2^1 = 2
  BY <1>1
<1>3. 2^(1 + 1) = 2 * 2^1
  BY PowerNext
<1>4. 2^2 = 4
  BY <1>2, <1>3
<1>5. 2^(2 + 1) = 2 * 2^2
  BY PowerNext
<1>6. 2^3 = 8
  BY <1>4, <1>5
<1>7. 2^(3 + 1) = 2 * 2^3
  BY PowerNext
<1>8. 2^4 = 16
  BY <1>6, <1>7
<1>9. 2^(4 + 1) = 2 * 2^4
  BY PowerNext
<1> QED BY <1>2, <1>4, <1>6, <1>8, <1>9

(* A number of more than five bits has a leading one.                      *)
LEMMA LeadingOne ==
    ASSUME NEW v \in Measurable, v >= 32
    PROVE  \E m \in 5 .. TopBit : v \div 2^m = 1
<1> DEFINE S == {t \in Nat : v < 2^t}
<1>1. v \in Nat /\ TopBit \in Nat /\ TopBit \in S
  BY LatencyAssumption DEF Measurable
<1>2. PICK t \in S : \A y \in S : t <= y
  <2>1. S \in SUBSET Nat /\ S # {}
    BY <1>1
  <2> HIDE DEF S
  <2> QED BY <2>1, LeastNatural
<1>3. t \in Nat /\ v < 2^t /\ t <= TopBit
  BY <1>1, <1>2
<1>4. t > 5
  <2>1. SUFFICES ASSUME t <= 5 PROVE FALSE
    BY <1>3
  <2>2. 2^t <= 2^5 /\ 2^t \in Nat
    BY <1>3, <2>1, PowerGrows, PowerPositive
  <2> QED BY <1>1, <1>3, <2>2, SmallPowers
<1>5. PICK m \in Nat : m = t - 1
  BY <1>3, <1>4
<1>6. m \notin S
  BY <1>2, <1>3, <1>5
<1>7. PICK w : w = 2^m
  OBVIOUS
<1>8. w \in Nat \ {0} /\ w <= v /\ 2^(m + 1) = 2 * w /\ m + 1 = t
  BY <1>1, <1>3, <1>5, <1>6, <1>7, PowerPositive, PowerNext
<1>9. w * 1 <= v /\ v < w * 2
  BY <1>1, <1>3, <1>8
<1>10. 1 <= v \div w /\ v \div w < 2
  BY <1>1, <1>8, <1>9, QuotientBetween
<1>11. v \div w = 1
  <2>1. v \div w \in Nat
    BY <1>1, <1>8, QuotientBounds
  <2> QED BY <1>10, <2>1
<1> QED BY <1>1, <1>3, <1>4, <1>5, <1>7, <1>11

(* b is the bucket of v: its leading one is at m, and the five bits from   *)
(* there on are c.                                                         *)
BucketIs(b, v, m, w, c) ==
    /\ m \in 5 .. TopBit /\ c \in 16 .. 31 /\ w \in Nat \ {0}
    /\ w = 2^(m - 4) /\ 2^m = 16 * w
    /\ w * c <= v /\ v < w * c + w
    /\ b = 32 + (m - 5) * 16 + (c - 16)

LEMMA BucketOf ==
    ASSUME NEW v \in Measurable, v >= 32
    PROVE  \E m, w, c : BucketIs(bucket_of(v), v, m, w, c)
<1>0. v \in Nat /\ TopBit \in Nat
  BY LatencyAssumption DEF Measurable
<1>1. PICK m : m = CHOOSE j \in 5 .. TopBit : v \div 2^j = 1
  OBVIOUS
<1>2. m \in 5 .. TopBit /\ v \div 2^m = 1
  BY <1>1, LeadingOne
<1>3. PICK k \in Nat : k = m - 4
  BY <1>0, <1>2
<1>4. PICK w : w = 2^k
  OBVIOUS
<1>5. w \in Nat \ {0} /\ 2^m = 16 * w
  <2>1. 2^(k + 1) = 2 * 2^k /\ 2^(k + 1 + 1) = 2 * 2^(k + 1)
    BY PowerNext
  <2>2. 2^(k + 1 + 1 + 1) = 2 * 2^(k + 1 + 1) /\ 2^(k + 1 + 1 + 1 + 1) = 2 * 2^(k + 1 + 1 + 1)
    BY PowerNext
  <2>3. k + 1 + 1 + 1 + 1 = m /\ w \in Nat \ {0}
    BY <1>2, <1>3, <1>4, PowerPositive
  <2> QED BY <1>4, <2>1, <2>2, <2>3
<1>6. 16 * w <= v /\ v < 32 * w
  <2>1. PICK x \in Nat \ {0} : x = 2^m
    BY <1>5
  <2>2. x * (v \div x) <= v /\ v < x * (v \div x) + x /\ v \div x = 1
    BY <1>0, <1>2, <2>1, QuotientBounds
  <2>3. x <= v /\ v < x + x
    BY <2>2
  <2> QED BY <1>0, <1>5, <2>1, <2>3
<1>7. PICK c : c = v \div w
  OBVIOUS
<1>8. c \in Nat /\ w * c <= v /\ v < w * c + w
  BY <1>0, <1>5, <1>7, QuotientBounds
<1>9. 16 <= c /\ c < 32
  <2>1. w * 16 <= v /\ v < w * 32
    BY <1>0, <1>5, <1>6
  <2> QED BY <1>0, <1>5, <1>7, <2>1, QuotientBetween
<1>10. c % 16 = c - 16
  BY <1>8, <1>9
<1>11. bucket_of(v) = 32 + (m - 5) * 16 + (c % 16)
  <2>1. ~(v < 32)
    BY <1>0
  <2>2. bucket_of(v) = 32 + (m - 5) * 16 + ((v \div 2^(m - 4)) % 16)
    BY <1>1, <2>1 DEF bucket_of
  <2> QED BY <1>3, <1>4, <1>7, <2>2
<1>12. w = 2^(m - 4) /\ c \in 16 .. 31
  BY <1>3, <1>4, <1>8, <1>9
<1> QED BY <1>2, <1>5, <1>8, <1>10, <1>11, <1>12 DEF BucketIs

(* A bucket is in the array, and its lower bound is close.                 *)
LEMMA BucketBounds ==
    ASSUME NEW v \in Measurable
    PROVE  /\ bucket_of(v) \in Nat /\ bucket_of(v) < kBucketCount
           /\ lower_bound_of(bucket_of(v)) \in Nat
           /\ lower_bound_of(bucket_of(v)) <= v
           /\ 16 * (v - lower_bound_of(bucket_of(v))) <= lower_bound_of(bucket_of(v))
           /\ v < 32 => lower_bound_of(bucket_of(v)) = v
<1>0. v \in Nat /\ TopBit \in Nat /\ TopBit >= 4
  BY LatencyAssumption DEF Measurable
<1>1. CASE v < 32
  <2>1. bucket_of(v) = v
    BY <1>1 DEF bucket_of
  <2>2. lower_bound_of(v) = v
    BY <1>1 DEF lower_bound_of
  <2> QED BY <1>0, <1>1, <2>1, <2>2 DEF kBucketCount
<1>2. CASE v >= 32
  <2>b. PICK b : b = bucket_of(v)
    OBVIOUS
  <2>m. PICK m : \E w, c : BucketIs(b, v, m, w, c)
    BY <1>2, <2>b, BucketOf
  <2>1. PICK w, c : BucketIs(b, v, m, w, c)
    BY <2>m
  <2>2. /\ m \in 5 .. TopBit /\ c \in 16 .. 31 /\ b = 32 + (m - 5) * 16 + (c - 16)
        /\ w \in Nat \ {0} /\ w = 2^(m - 4)
        /\ w * c <= v /\ v < w * c + w
    BY <2>1 DEF BucketIs
  <2>3. b \in Nat /\ b >= 32 /\ b < kBucketCount
    BY <1>0, <2>2 DEF kBucketCount
  <2>4. PICK k \in Nat : k = b - 32
    BY <2>3
  <2>5. k % 16 = c - 16 /\ k \div 16 = m - 5
    BY <2>2, <2>4
  <2>6. 16 + (k % 16) = c /\ (k \div 16) + 1 = m - 4
    BY <2>2, <2>5
  <2>7. lower_bound_of(b) = (16 + (k % 16)) * 2^((k \div 16) + 1)
    BY <2>3, <2>4 DEF lower_bound_of
  <2>8. lower_bound_of(b) = c * w
    BY <2>2, <2>6, <2>7
  <2>9. PICK x \in Nat : x = w * c
    BY <2>2
  <2>10. c * w = x /\ x <= v /\ v < x + w
    BY <2>2, <2>9
  <2>11. w * 16 <= x
    BY <2>2, <2>9, ProductOrder
  <2>12. 16 * (v - x) <= x
    BY <1>0, <2>2, <2>10, <2>11
  <2> QED BY <1>0, <1>2, <2>b, <2>3, <2>8, <2>9, <2>10, <2>12
<1> QED BY <1>0, <1>1, <1>2

(* The buckets are in the order of the values.                             *)
LEMMA BucketOrder ==
    ASSUME NEW u \in Measurable, NEW v \in Measurable, u <= v
    PROVE  bucket_of(u) <= bucket_of(v)
<1>0. u \in Nat /\ v \in Nat /\ TopBit \in Nat
  BY LatencyAssumption DEF Measurable
<1>1. CASE v < 32
  BY <1>0, <1>1 DEF bucket_of
<1>2. CASE v >= 32
  <2>v. PICK d : d = bucket_of(v)
    OBVIOUS
  <2>1. PICK m, w, c : BucketIs(d, v, m, w, c)
    BY <1>2, <2>v, BucketOf
  <2>2. /\ m \in 5 .. TopBit /\ c \in 16 .. 31 /\ w \in Nat \ {0}
        /\ w = 2^(m - 4) /\ 2^m = 16 * w
        /\ w * c <= v /\ v < w * c + w
        /\ d = 32 + (m - 5) * 16 + (c - 16)
    BY <2>1 DEF BucketIs
  <2>3. CASE u < 32
    <3>1. bucket_of(u) = u
      BY <2>3 DEF bucket_of
    <3>2. d >= 32 /\ d \in Int
      BY <1>0, <2>2
    <3> QED BY <1>0, <2>v, <2>3, <3>1, <3>2
  <2>4. CASE u >= 32
    <3>u. PICK b : b = bucket_of(u)
      OBVIOUS
    <3>1. PICK l, x, a : BucketIs(b, u, l, x, a)
      BY <2>4, <3>u, BucketOf
    <3>2. /\ l \in 5 .. TopBit /\ a \in 16 .. 31 /\ x \in Nat \ {0}
          /\ x = 2^(l - 4) /\ 2^l = 16 * x
          /\ x * a <= u /\ u < x * a + x
          /\ b = 32 + (l - 5) * 16 + (a - 16)
      BY <3>1 DEF BucketIs
    <3>3. CASE l < m
      <4>1. b \in Int /\ d \in Int /\ b <= d
        BY <1>0, <2>2, <3>2, <3>3
      <4> QED BY <2>v, <3>u, <4>1
    <3>4. CASE l = m
      <4>1. x = w
        BY <2>2, <3>2, <3>4
      <4>2. a <= c
        <5>1. SUFFICES ASSUME c + 1 <= a PROVE FALSE
          BY <2>2, <3>2
        <5>2. w * (c + 1) <= w * a
          BY <2>2, <3>2, <5>1, ProductOrder
        <5>3. w * (c + 1) = w * c + w /\ w * c \in Nat /\ w * a \in Nat
          BY <2>2, <3>2
        <5>4. w * a <= u /\ v < w * c + w
          BY <2>2, <3>2, <4>1
        <5>5. PICK y \in Nat, z \in Nat : y = w * c /\ z = w * a
          BY <5>3
        <5>6. y + w <= z /\ z <= u /\ v < y + w /\ w \in Nat
          BY <2>2, <5>2, <5>3, <5>4, <5>5
        <5> QED BY <1>0, <5>6
      <4>3. /\ b = 32 + (m - 5) * 16 + (a - 16) /\ d = 32 + (m - 5) * 16 + (c - 16)
            /\ m \in 5 .. TopBit /\ a \in 16 .. 31 /\ c \in 16 .. 31
        BY <2>2, <3>2, <3>4
      <4>4. b <= d
        BY <1>0, <4>2, <4>3
      <4> QED BY <2>v, <3>u, <4>4
    <3>5. CASE l > m
      <4>1. l \in Nat /\ m \in Nat /\ m + 1 \in Nat /\ m + 1 <= l
        BY <1>0, <2>2, <3>2, <3>5
      <4>2. 2^(m + 1) <= 2^l /\ 2^(m + 1) = 2 * 2^m
        BY <4>1, PowerGrows, PowerNext
      <4>3. 32 * w <= 16 * x
        BY <2>2, <3>2, <4>2
      <4>4. w * c <= w * 31 /\ x * 16 <= x * a
        BY <2>2, <3>2, ProductOrder
      <4>5. w * c \in Nat /\ x * a \in Nat
        BY <2>2, <3>2
      <4>6. v < w * 31 + w /\ x * 16 <= u
        BY <1>0, <2>2, <3>2, <4>4, <4>5
      <4> QED BY <1>0, <2>2, <3>2, <4>3, <4>6
    <3> QED BY <2>2, <3>2, <3>3, <3>4, <3>5
  <2> QED BY <1>0, <2>3, <2>4
<1> QED BY <1>0, <1>1, <1>2

-----------------------------------------------------------------------------
(* What the histogram counts *)

Value(s, k) == Max({0, s[k]})

(* The samples of which the bucket is at most i.                           *)
Within(s, i) == {k \in 1 .. Len(s) : bucket_of(Value(s, k)) <= i}

(* The buckets in B are those of the samples s, and the counters up to any *)
(* bucket are together the samples up to there.                            *)
CountsIn(B, s) ==
    /\ IsFiniteSet(DOMAIN B)
    /\ DOMAIN B = {bucket_of(Value(s, k)) : k \in 1 .. Len(s)}
    /\ \A j \in DOMAIN B : B[j] \in Nat
    /\ \A i \in Nat : SumFunctionOnSet(B, {j \in DOMAIN B : j <= i}) = Cardinality(Within(s, i))

MaxIs(max, s) ==
    /\ max \in Nat
    /\ \A k \in 1 .. Len(s) : Value(s, k) <= max
    /\ Len(s) > 0 => \E k \in 1 .. Len(s) : Value(s, k) = max
    /\ Len(s) = 0 => max = 0

StatsInv ==
    /\ samples \in Seq(Durations)
    /\ book_update_latency.count = Len(samples)
    /\ CountsIn(book_update_latency.buckets, samples)
    /\ MaxIs(book_update_latency.max, samples)

LEMMA ValuesMeasurable ==
    ASSUME NEW ns \in Durations
    PROVE  Max({0, ns}) \in Measurable
<1>1. ns \in Int /\ ns < 2^TopBit /\ 2^TopBit \in Nat \ {0}
  BY MetricsAssumption, LatencyAssumption, PowerPositive
<1>2. Max({0, ns}) = IF 0 >= ns THEN 0 ELSE ns
  BY <1>1, MaxOfTwo
<1>3. Max({0, ns}) \in Nat /\ Max({0, ns}) < 2^TopBit
  BY <1>1, <1>2
<1> QED BY <1>3 DEF Measurable

(* The values of one sample more.                                          *)
OneMore(s, n, t, x) ==
    /\ n \in Nat /\ t \in Seq(Durations) /\ Len(t) = n + 1
    /\ \A k \in 1 .. n : Value(t, k) = Value(s, k)
    /\ Value(t, n + 1) = x
    /\ \A k \in 1 .. n : Value(s, k) \in Measurable
    /\ \A k : k \in 1 .. (n + 1) <=> k \in 1 .. n \/ k = n + 1

LEMMA ValuesNext ==
    ASSUME NEW s \in Seq(Durations), NEW ns \in Durations, NEW n, n = Len(s),
           NEW t, t = Append(s, ns)
    PROVE  OneMore(s, n, t, Max({0, ns}))
<1>1. n \in Nat /\ \A k \in 1 .. n : s[k] \in Durations
  BY LenProperties
<1>2. /\ t \in Seq(Durations) /\ Len(t) = n + 1
      /\ \A k \in 1 .. n : t[k] = s[k]
      /\ t[n + 1] = ns
  BY <1>1, AppendProperties
<1>3. \A k \in 1 .. n : Value(s, k) \in Measurable
  BY <1>1, ValuesMeasurable DEF Value
<1>4. \A k : k \in 1 .. (n + 1) <=> k \in 1 .. n \/ k = n + 1
  BY <1>1
<1> QED BY <1>1, <1>2, <1>3, <1>4 DEF Value, OneMore

(* The samples up to a bucket, one sample more.                            *)
LEMMA WithinNext ==
    ASSUME NEW s \in Seq(Durations), NEW ns \in Durations,
           NEW b, b = bucket_of(Max({0, ns})), NEW i \in Nat
    PROVE  /\ Cardinality(Within(s, i)) \in Nat
           /\ Cardinality(Within(Append(s, ns), i))
                 = Cardinality(Within(s, i)) + (IF b <= i THEN 1 ELSE 0)
<1>n. PICK n : n = Len(s)
  OBVIOUS
<1>t. PICK t : t = Append(s, ns)
  OBVIOUS
<1>1. /\ n \in Nat /\ Len(t) = n + 1
      /\ \A k \in 1 .. n : Value(t, k) = Value(s, k)
      /\ Value(t, n + 1) = Max({0, ns})
      /\ \A k : k \in 1 .. (n + 1) <=> k \in 1 .. n \/ k = n + 1
  <2>1. OneMore(s, n, t, Max({0, ns}))
    BY <1>n, <1>t, ValuesNext
  <2> QED BY <2>1 DEF OneMore
<1> DEFINE W == Within(s, i)
<1>2. IsFiniteSet(W) /\ n + 1 \notin W
  <2>1. W \in SUBSET (1 .. n)
    BY <1>n DEF Within
  <2>2. n + 1 \notin 1 .. n /\ IsFiniteSet(1 .. n)
    BY <1>1, IndicesFinite
  <2> HIDE DEF W
  <2> QED BY <2>1, <2>2, FS_Subset
<1>3. \A k : k \in W <=> k \in 1 .. n /\ bucket_of(Value(s, k)) <= i
  BY <1>n DEF Within
<1>4. \A k : k \in Within(t, i) <=> k \in 1 .. (n + 1) /\ bucket_of(Value(t, k)) <= i
  BY <1>1 DEF Within
<1>5. Within(t, i) = IF b <= i THEN W \cup {n + 1} ELSE W
  <2> HIDE DEF W
  <2>1. \A k \in 1 .. n : k \in Within(t, i) <=> k \in W
    BY <1>1, <1>3, <1>4
  <2>2. n + 1 \in Within(t, i) <=> b <= i
    BY <1>1, <1>4
  <2>3. \A k : k \in Within(t, i) => k \in 1 .. n \/ k = n + 1
    BY <1>1, <1>4
  <2>4. \A k : k \in W => k \in 1 .. n
    BY <1>3
  <2>5. CASE b <= i
    <3>1. \A k : k \in Within(t, i) <=> k \in W \cup {n + 1}
      BY <2>1, <2>2, <2>3, <2>4, <2>5
    <3>2. Within(t, i) = W \cup {n + 1}
      BY <3>1, Zenon
    <3> QED BY <2>5, <3>2
  <2>6. CASE ~(b <= i)
    <3>1. \A k : k \in Within(t, i) <=> k \in W
      BY <1>2, <2>1, <2>2, <2>3, <2>4, <2>6
    <3>2. Within(t, i) = W
      BY <3>1, Zenon
    <3> QED BY <2>6, <3>2
  <2> QED BY <2>5, <2>6
<1> HIDE DEF W
<1>6. Cardinality(W) \in Nat
  BY <1>2, FS_CardinalityType
<1>7. Cardinality(W \cup {n + 1}) = Cardinality(W) + 1
  <2>1. PICK a : a = n + 1
    OBVIOUS
  <2>2. a \notin W
    BY <1>2, <2>1
  <2>3. Cardinality(W \cup {a}) = Cardinality(W) + 1
    BY <1>2, <2>2, FS_AddElement
  <2> QED BY <2>1, <2>3
<1>8. Cardinality(Within(t, i)) = Cardinality(W) + (IF b <= i THEN 1 ELSE 0)
  BY <1>5, <1>6, <1>7
<1> QED BY <1>t, <1>6, <1>8 DEF W

(* C counts as B, and b once more.                                         *)
OneMoreIn(C, B, b) ==
    /\ DOMAIN C = DOMAIN B \cup {b}
    /\ \A j \in DOMAIN B : j # b => C[j] = B[j]
    /\ C[b] = IF b \in DOMAIN B THEN B[b] + 1 ELSE 1
    /\ \A j \in DOMAIN C : C[j] \in Nat

LEMMA BagWithOne ==
    ASSUME NEW B, NEW b, NEW C, C = B (+) SetToBag({b}), \A j \in DOMAIN B : B[j] \in Nat
    PROVE  OneMoreIn(C, B, b)
<1> DEFINE O == SetToBag({b})
<1>1. DOMAIN O = {b} /\ O[b] = 1
  BY DEF SetToBag
<1> HIDE DEF O
<1>2. C = [j \in DOMAIN B \cup DOMAIN O |->
             (IF j \in DOMAIN B THEN B[j] ELSE 0) + (IF j \in DOMAIN O THEN O[j] ELSE 0)]
  BY DEF (+), O
<1>3. DOMAIN C = DOMAIN B \cup {b}
  BY <1>1, <1>2
<1>4. \A j \in DOMAIN B \cup {b} :
         C[j] = (IF j \in DOMAIN B THEN B[j] ELSE 0) + (IF j = b THEN 1 ELSE 0)
  BY <1>1, <1>2
<1>5. \A j \in DOMAIN B : j # b => C[j] = B[j]
  BY <1>4
<1>6. C[b] = IF b \in DOMAIN B THEN B[b] + 1 ELSE 1
  <2>1. CASE b \in DOMAIN B
    <3>1. B[b] \in Nat /\ b \in DOMAIN B \cup {b}
      BY <2>1
    <3>2. C[b] = B[b] + 1
      BY <1>4, <2>1, <3>1
    <3> QED BY <2>1, <3>2
  <2>2. CASE b \notin DOMAIN B
    <3>1. C[b] = 0 + 1
      BY <1>4, <2>2
    <3> QED BY <2>2, <3>1
  <2> QED BY <2>1, <2>2
<1>7. \A j \in DOMAIN C : C[j] \in Nat
  BY <1>3, <1>5, <1>6
<1> QED BY <1>3, <1>5, <1>6, <1>7 DEF OneMoreIn

(* One sample more is counted in its bucket.                               *)
LEMMA CountNext ==
    ASSUME NEW s \in Seq(Durations), NEW ns \in Durations, NEW B, CountsIn(B, s),
           NEW b, b = bucket_of(Max({0, ns})), NEW C, OneMoreIn(C, B, b)
    PROVE  CountsIn(C, Append(s, ns))
<1>n. PICK n : n = Len(s)
  OBVIOUS
<1>t. PICK t : t = Append(s, ns)
  OBVIOUS
<1>0. OneMore(s, n, t, Max({0, ns}))
  BY <1>n, <1>t, ValuesNext
<1>1. /\ IsFiniteSet(DOMAIN B) /\ DOMAIN B = {bucket_of(Value(s, k)) : k \in 1 .. n}
      /\ \A j \in DOMAIN B : B[j] \in Nat
  BY <1>n DEF CountsIn
<1>2. \A i \in Nat : SumFunctionOnSet(B, {j \in DOMAIN B : j <= i}) = Cardinality(Within(s, i))
  BY DEF CountsIn
<1>p. \A j \in DOMAIN B : B[j] \in Nat
  BY <1>1
<1>3. DOMAIN C = DOMAIN B \cup {b}
  BY DEF OneMoreIn
<1>d. \A j \in DOMAIN B : j # b => C[j] = B[j]
  BY DEF OneMoreIn
<1>e. C[b] = IF b \in DOMAIN B THEN B[b] + 1 ELSE 1
  BY DEF OneMoreIn
<1>f. \A j \in DOMAIN C : C[j] \in Nat
  BY DEF OneMoreIn
<1>4. IsFiniteSet(DOMAIN C)
  <2>1. IsFiniteSet(DOMAIN B)
    BY <1>1
  <2>2. IsFiniteSet(DOMAIN B \cup {b})
    BY <2>1, FS_AddElement
  <2> QED BY <1>3, <2>2
<1>5. DOMAIN C = {bucket_of(Value(t, k)) : k \in 1 .. (n + 1)}
  <2>1. /\ \A k \in 1 .. n : Value(t, k) = Value(s, k)
        /\ bucket_of(Value(t, n + 1)) = b
        /\ \A k : k \in 1 .. (n + 1) <=> k \in 1 .. n \/ k = n + 1
    BY <1>0 DEF OneMore
  <2>2. \A x : x \in DOMAIN B <=> \E k \in 1 .. n : x = bucket_of(Value(t, k))
    BY <1>1, <2>1
  <2>3. \A x : x \in DOMAIN C <=> \E k \in 1 .. (n + 1) : x = bucket_of(Value(t, k))
    BY <1>3, <2>1, <2>2
  <2> QED BY <2>3
<1>6. ASSUME NEW i \in Nat
      PROVE  SumFunctionOnSet(C, {j \in DOMAIN C : j <= i}) = Cardinality(Within(t, i))
  <2>1. /\ Cardinality(Within(s, i)) \in Nat
        /\ Cardinality(Within(t, i)) = Cardinality(Within(s, i)) + (IF b <= i THEN 1 ELSE 0)
    BY <1>t, WithinNext
  <2> DEFINE U == {j \in DOMAIN B : j <= i}
             V == {j \in DOMAIN C : j <= i}
  <2>u. U \in SUBSET DOMAIN B /\ U \in SUBSET DOMAIN C
    BY <1>3
  <2>2. IsFiniteSet(U)
    BY <1>1, <2>u, FS_Subset
  <2>i. \A j \in U : B[j] \in Int
    BY <1>p, <2>u
  <2>3. SumFunctionOnSet(B, U) = Cardinality(Within(s, i))
    BY <1>2
  <2>4. b \in U <=> b \in DOMAIN B /\ b <= i
    OBVIOUS
  <2>5. V = IF b <= i THEN U \cup {b} ELSE U
    BY <1>3
  <2> HIDE DEF U, V
  <2>6. ASSUME ~(b <= i) PROVE SumFunctionOnSet(C, V) = Cardinality(Within(t, i))
    <3>1. V = U
      BY <2>5, <2>6
    <3>2. \A j \in U : B[j] \in Int /\ C[j] = B[j]
      BY <1>d, <2>u, <2>i, <2>4, <2>6
    <3>3. SumFunctionOnSet(C, U) = SumFunctionOnSet(B, U)
      BY <2>2, <3>2, SumSame
    <3> QED BY <2>1, <2>3, <2>6, <3>1, <3>3
  <2>7. ASSUME b <= i, b \in DOMAIN B PROVE SumFunctionOnSet(C, V) = Cardinality(Within(t, i))
    <3>1. b \in U /\ V = U
      BY <2>4, <2>5, <2>7
    <3>2. \A j \in U : B[j] \in Int /\ C[j] \in Int
      <4>1. \A j \in U : C[j] \in Nat
        BY <1>f, <2>u
      <4> QED BY <2>i, <4>1
    <3>3. \A j \in U : j # b => C[j] = B[j]
      BY <1>d, <2>u
    <3>5. SumFunctionOnSet(C, U) = SumFunctionOnSet(B, U) - B[b] + C[b]
      <4>1. PICK f, g, a, W : f = B /\ g = C /\ a = b /\ W = U
        OBVIOUS
      <4>2. /\ IsFiniteSet(W) /\ a \in W
            /\ \A x \in W : f[x] \in Int /\ g[x] \in Int
            /\ \A x \in W : x # a => g[x] = f[x]
        BY <2>2, <3>1, <3>2, <3>3, <4>1
      <4>3. SumFunctionOnSet(g, W) = SumFunctionOnSet(f, W) - f[a] + g[a]
        BY <4>2, SumChange
      <4> QED BY <4>1, <4>3
    <3>6. C[b] = B[b] + 1 /\ B[b] \in Int
      BY <1>e, <1>p, <2>7
    <3>7. SumFunctionOnSet(C, U) = Cardinality(Within(s, i)) + 1
      BY <2>1, <2>3, <3>5, <3>6
    <3> QED BY <2>1, <2>7, <3>1, <3>7
  <2>8. ASSUME b <= i, b \notin DOMAIN B PROVE SumFunctionOnSet(C, V) = Cardinality(Within(t, i))
    <3>1. b \notin U /\ V = U \cup {b} /\ C[b] = 1
      BY <1>e, <2>4, <2>5, <2>8
    <3>2. \A j \in U : B[j] \in Int /\ C[j] = B[j]
      BY <1>d, <2>u, <2>i, <2>8
    <3>4. SumFunctionOnSet(C, U) = SumFunctionOnSet(B, U)
      BY <2>2, <3>2, SumSame
    <3>5. \A j \in U \cup {b} : C[j] \in Int
      BY <3>1, <3>2
    <3>6. SumFunctionOnSet(C, U \cup {b}) = C[b] + SumFunctionOnSet(C, U)
      BY <2>2, <3>1, <3>5, SumAdd
    <3>7. SumFunctionOnSet(C, U \cup {b}) = Cardinality(Within(s, i)) + 1
      BY <2>1, <2>3, <3>1, <3>4, <3>6
    <3> QED BY <2>1, <2>8, <3>1, <3>7
  <2>9. SumFunctionOnSet(C, V) = Cardinality(Within(t, i))
    BY <2>6, <2>7, <2>8
  <2> QED BY <2>9 DEF V
<1>7. Len(t) = n + 1
  BY <1>0 DEF OneMore
<1> QED BY <1>t, <1>f, <1>4, <1>5, <1>6, <1>7 DEF CountsIn

LEMMA MaxNext ==
    ASSUME NEW s \in Seq(Durations), NEW ns \in Durations, NEW max, MaxIs(max, s)
    PROVE  MaxIs(Max({max, Max({0, ns})}), Append(s, ns))
<1>n. PICK n : n = Len(s)
  OBVIOUS
<1>t. PICK t : t = Append(s, ns)
  OBVIOUS
<1>v. PICK v : v = Max({0, ns})
  OBVIOUS
<1>m. PICK m : m = Max({max, v})
  OBVIOUS
<1>0. OneMore(s, n, t, Max({0, ns}))
  BY <1>n, <1>t, ValuesNext
<1>1. /\ n \in Nat /\ Len(t) = n + 1 /\ Value(t, n + 1) = v
      /\ \A k \in 1 .. n : Value(t, k) = Value(s, k) /\ Value(s, k) \in Nat
      /\ \A k : k \in 1 .. (n + 1) <=> k \in 1 .. n \/ k = n + 1
  BY <1>0, <1>v DEF OneMore, Measurable
<1>2. /\ max \in Nat /\ \A k \in 1 .. n : Value(s, k) <= max
      /\ n > 0 => \E k \in 1 .. n : Value(s, k) = max
      /\ n = 0 => max = 0
  BY <1>n DEF MaxIs
<1>3. v \in Nat
  BY <1>v, ValuesMeasurable DEF Measurable
<1>4. m = IF max >= v THEN max ELSE v
  <2>1. max \in Int /\ v \in Int
    BY <1>2, <1>3
  <2> QED BY <1>m, <2>1, MaxOfTwo
<1>5. m \in Nat /\ max <= m /\ v <= m /\ (m = v \/ (n > 0 /\ m = max))
  <2>1. n \in Nat /\ max \in Nat /\ (n = 0 => max = 0)
    BY <1>1, <1>2
  <2> QED BY <1>3, <1>4, <2>1
<1>6. ASSUME NEW k \in 1 .. (n + 1) PROVE Value(t, k) <= m
  <2>1. CASE k \in 1 .. n
    <3>1. Value(t, k) = Value(s, k) /\ Value(s, k) \in Nat /\ Value(s, k) <= max
      BY <1>1, <1>2, <2>1
    <3> QED BY <1>2, <1>5, <3>1
  <2>2. CASE k = n + 1
    BY <1>1, <1>5, <2>2
  <2> QED BY <1>1, <2>1, <2>2
<1>7. \E k \in 1 .. (n + 1) : Value(t, k) = m
  <2>1. CASE m = v
    <3>1. n + 1 \in 1 .. (n + 1)
      BY <1>1
    <3> QED BY <1>1, <2>1, <3>1
  <2>2. CASE n > 0 /\ m = max
    <3>1. PICK k \in 1 .. n : Value(s, k) = max
      BY <1>2, <2>2
    <3>2. k \in 1 .. (n + 1) /\ Value(t, k) = max
      BY <1>1, <3>1
    <3> QED BY <2>2, <3>2
  <2> QED BY <1>5, <2>1, <2>2
<1>8. Len(t) > 0 /\ Len(t) # 0
  BY <1>1
<1>9. MaxIs(m, t)
  BY <1>1, <1>5, <1>6, <1>7, <1>8 DEF MaxIs
<1> QED BY <1>t, <1>v, <1>m, <1>9

LEMMA InitStats == MetricsInit => StatsInv
<1> SUFFICES ASSUME MetricsInit PROVE StatsInv
  OBVIOUS
<1>1. samples = <<>> /\ book_update_latency = NewStats
  BY DEF MetricsInit
<1>2. samples \in Seq(Durations) /\ Len(samples) = 0 /\ \A k \in 1 .. 0 : FALSE
  BY <1>1
<1>3. /\ book_update_latency.count = 0 /\ book_update_latency.max = 0
      /\ book_update_latency.buckets = EmptyBag
  BY <1>1 DEF NewStats
<1>4. MaxIs(0, samples)
  BY <1>2 DEF MaxIs
<1>5. DOMAIN EmptyBag = {}
  BY DEF EmptyBag, SetToBag
<1>6. ASSUME NEW i \in Nat
      PROVE  SumFunctionOnSet(EmptyBag, {j \in DOMAIN EmptyBag : j <= i})
                = Cardinality(Within(samples, i))
  <2>1. Within(samples, i) = {} /\ {j \in DOMAIN EmptyBag : j <= i} = {}
    BY <1>2, <1>5 DEF Within
  <2>2. Cardinality({}) = 0
    BY FS_EmptySet
  <2> QED BY <2>1, <2>2, SumEmpty
<1>7. IsFiniteSet(DOMAIN EmptyBag)
  BY <1>5, FS_EmptySet
<1>8. CountsIn(EmptyBag, samples)
  BY <1>2, <1>5, <1>6, <1>7 DEF CountsIn
<1> QED BY <1>2, <1>3, <1>4, <1>8 DEF StatsInv

LEMMA NextStats == LogInv /\ StatsInv /\ [MetricsNext]_<<logVars, metricVars>> => StatsInv'
<1> SUFFICES ASSUME LogInv, StatsInv, [MetricsNext]_<<logVars, metricVars>> PROVE StatsInv'
  OBVIOUS
<1>1. CASE UNCHANGED metricVars
  BY <1>1 DEF StatsInv, metricVars
<1>2. ASSUME NEW ev \in LoggedEvent, NEW ns \in Durations, Measure(ev, ns), ~UNCHANGED metricVars
      PROVE  StatsInv'
  <2>1. /\ book_update_latency' = add_ns(book_update_latency, ns)
        /\ samples' = Append(samples, ns)
    BY <1>2 DEF Measure
  <2>2. /\ samples \in Seq(Durations) /\ book_update_latency.count = Len(samples)
        /\ CountsIn(book_update_latency.buckets, samples)
        /\ MaxIs(book_update_latency.max, samples)
    BY DEF StatsInv
  <2>3. PICK b : b = bucket_of(Max({0, ns}))
    OBVIOUS
  <2>4. /\ book_update_latency'.buckets = book_update_latency.buckets (+) SetToBag({b})
        /\ book_update_latency'.count = book_update_latency.count + 1
        /\ book_update_latency'.max = Max({book_update_latency.max, Max({0, ns})})
    BY <2>1, <2>3 DEF add_ns
  <2>5. samples' \in Seq(Durations) /\ Len(samples') = Len(samples) + 1
    BY <2>1, <2>2, AppendProperties
  <2>6. CountsIn(book_update_latency'.buckets, samples')
    <3>1. PICK B : B = book_update_latency.buckets
      OBVIOUS
    <3>2. PICK C : C = B (+) SetToBag({b})
      OBVIOUS
    <3>3. CountsIn(B, samples) /\ \A j \in DOMAIN B : B[j] \in Nat
      BY <2>2, <3>1 DEF CountsIn
    <3>4. OneMoreIn(C, B, b)
      BY <3>2, <3>3, BagWithOne
    <3>5. CountsIn(C, Append(samples, ns))
      BY <2>2, <2>3, <3>3, <3>4, CountNext
    <3> QED BY <2>1, <2>4, <3>1, <3>2, <3>5
  <2>7. MaxIs(book_update_latency'.max, samples')
    BY <2>1, <2>2, <2>4, MaxNext
  <2> QED BY <2>2, <2>4, <2>5, <2>6, <2>7 DEF StatsInv
<1> QED BY <1>1, <1>2, MetricsSteps

-----------------------------------------------------------------------------
(* The percentiles *)

(* The rank is p/100 of the count, rounded up, but at least 1: adding      *)
(* 0.999999 rounds a multiple of 0.01 up.                                  *)
LEMMA RankBounds ==
    ASSUME NEW p \in 0 .. 100, NEW n \in Nat \ {0}, NEW r, r = rank(p, n)
    PROVE  /\ r \in 1 .. n
           /\ 100 * r >= p * n
           /\ \A b \in Nat : b < r => b = 0 \/ 100 * b < p * n
<1>1. PICK q \in Nat : q = p * n
  OBVIOUS
<1>2. q <= 100 * n
  <2>1. p \in Int /\ p <= 100 /\ n \in Nat /\ 100 \in Int
    OBVIOUS
  <2>2. n * p <= n * 100
    BY <2>1, ProductOrder
  <2>3. n * p = q
    BY <1>1
  <2> QED BY <2>2, <2>3
<1>3. PICK d \in Nat : d = rounded_up(q)
  BY SMT DEF rounded_up
<1>4. q <= 100 * d /\ 100 * d <= q + 99
  BY <1>3, SMT DEF rounded_up
<1>5. PICK m \in Nat : m = IF 1 >= d THEN 1 ELSE d
  OBVIOUS
<1>6. Max({1, d}) = m
  BY <1>5, MaxOfTwo
<1>7. r = IF n <= m THEN n ELSE m
  <2>1. n \in Int /\ m \in Int
    OBVIOUS
  <2>2. Min({n, m}) = IF n <= m THEN n ELSE m
    BY <2>1, MinOfTwo
  <2> QED BY <1>1, <1>3, <1>6, <2>2 DEF rank
<1>8. r = m /\ r \in 1 .. n
  BY <1>2, <1>4, <1>5, <1>7
<1>9. 100 * r >= q
  BY <1>4, <1>5, <1>8
<1>10. ASSUME NEW b \in Nat, b < r PROVE b = 0 \/ 100 * b < q
  BY <1>4, <1>5, <1>8, <1>10
<1> QED BY <1>1, <1>8, <1>9, <1>10

AtMost(s, x) == {k \in 1 .. Len(s) : Value(s, k) <= x}
Under(s, x) == {k \in 1 .. Len(s) : Value(s, k) < x}

(* The numbers of such samples.                                            *)
LEMMA SamplesFinite ==
    ASSUME NEW s \in Seq(Durations), NEW T \in SUBSET (1 .. Len(s)), NEW U \in SUBSET T
    PROVE  /\ IsFiniteSet(T) /\ Cardinality(T) \in Nat
           /\ Cardinality(U) \in Nat /\ Cardinality(U) <= Cardinality(T)
<1>1. IsFiniteSet(1 .. Len(s))
  BY LenProperties, IndicesFinite
<1>2. IsFiniteSet(T)
  BY <1>1, FS_Subset
<1>3. IsFiniteSet(U) /\ Cardinality(U) <= Cardinality(T)
  BY <1>2, FS_Subset
<1> QED BY <1>2, <1>3, FS_CardinalityType

(* x is the sample of rank r.                                              *)
HasRank(s, x, r) ==
    /\ \E k \in 1 .. Len(s) : Value(s, k) = x
    /\ Cardinality(AtMost(s, x)) >= r
    /\ Cardinality(Under(s, x)) < r

(* There is one of every rank.                                             *)
LEMMA RankExists ==
    ASSUME NEW s \in Seq(Durations), NEW n \in Nat \ {0}, n = Len(s), NEW max, MaxIs(max, s),
           NEW r \in 1 .. n
    PROVE  \E x \in Measurable : HasRank(s, x, r)
<1> DEFINE S == {x \in Nat : Cardinality(AtMost(s, x)) >= r}
<1>1. \A k \in 1 .. n : Value(s, k) \in Measurable /\ Value(s, k) \in Nat
  <2>1. \A k \in 1 .. n : s[k] \in Durations
    BY LenProperties
  <2> QED BY <2>1, ValuesMeasurable DEF Value, Measurable
<1>2. max \in S
  <2>1. max \in Nat /\ \A k \in 1 .. n : Value(s, k) <= max
    BY DEF MaxIs
  <2>2. AtMost(s, max) = 1 .. n
    BY <2>1 DEF AtMost
  <2>3. Cardinality(1 .. n) = n
    <3>1. 1 \in Int /\ n \in Int
      OBVIOUS
    <3>2. Cardinality(1 .. n) = IF 1 > n THEN 0 ELSE n - 1 + 1
      BY <3>1, FS_Interval
    <3> QED BY <3>2
  <2> QED BY <2>1, <2>2, <2>3
<1>3. S \in SUBSET Nat
  OBVIOUS
<1>4. \A x \in Nat : x \in S <=> Cardinality(AtMost(s, x)) >= r
  OBVIOUS
<1> HIDE DEF S
<1>5. PICK x \in S : \A y \in S : x <= y
  BY <1>2, <1>3, LeastNatural
<1>6. x \in Nat
  BY <1>3
<1>7. PICK A, U : A = AtMost(s, x) /\ U = Under(s, x)
  OBVIOUS
<1>8. A \in SUBSET (1 .. n) /\ U \in SUBSET A
  BY <1>1, <1>6, <1>7 DEF AtMost, Under
<1>9. Cardinality(A) \in Nat /\ Cardinality(U) \in Nat /\ Cardinality(A) >= r
  <2>1. Cardinality(A) \in Nat /\ Cardinality(U) \in Nat
    BY <1>8, SamplesFinite
  <2> QED BY <1>4, <1>6, <1>7, <2>1
<1>10. Cardinality(U) < r
  <2>1. CASE x = 0
    <3>1. U = {}
      BY <1>1, <1>7, <2>1 DEF Under
    <3>2. Cardinality({}) = 0
      BY FS_EmptySet
    <3> QED BY <3>1, <3>2
  <2>2. CASE x # 0
    <3>1. PICK y \in Nat : y = x - 1
      BY <1>6, <2>2
    <3>2. y \notin S
      BY <1>5, <1>6, <3>1
    <3>3. U = AtMost(s, y)
      <4>1. \A k \in 1 .. n : Value(s, k) < x <=> Value(s, k) <= y
        BY <1>1, <1>6, <3>1
      <4> QED BY <1>7, <4>1 DEF Under, AtMost
    <3>4. ~(Cardinality(U) >= r)
      BY <1>4, <3>2, <3>3
    <3> QED BY <1>9, <3>4
  <2> QED BY <2>1, <2>2
<1>11. PICK k \in A : k \notin U
  <2>1. A # U
    BY <1>9, <1>10
  <2> QED BY <1>8, <2>1
<1>12. k \in 1 .. n /\ Value(s, k) = x
  <2>1. k \in 1 .. n /\ Value(s, k) <= x /\ ~(Value(s, k) < x)
    BY <1>7, <1>11 DEF AtMost, Under
  <2>2. Value(s, k) \in Nat
    BY <1>1, <2>1
  <2> QED BY <1>6, <2>1, <2>2
<1>13. x \in Measurable
  BY <1>1, <1>12
<1>14. HasRank(s, x, r)
  BY <1>7, <1>9, <1>10, <1>12 DEF HasRank
<1> QED BY <1>13, <1>14

StatsOf(st, s, n) == n = Len(s) /\ st.count = n /\ CountsIn(st.buckets, s)

(* The walk over the counters ends in the bucket of that sample.           *)
LEMMA PercentileOf ==
    ASSUME NEW s \in Seq(Durations), NEW n \in Nat \ {0}, NEW st, StatsOf(st, s, n),
           NEW p \in 0 .. 100, NEW r \in 1 .. n, r = rank(p, n),
           NEW x \in Measurable, HasRank(s, x, r)
    PROVE  percentile(st, p) = lower_bound_of(bucket_of(x))
<1>0. n = Len(s) /\ st.count = n /\ CountsIn(st.buckets, s)
  BY DEF StatsOf
<1>b. PICK b : b = bucket_of(x)
  OBVIOUS
<1>B. PICK B : B = st.buckets
  OBVIOUS
<1>1. \A k \in 1 .. n : Value(s, k) \in Measurable
  <2>1. \A k \in 1 .. n : s[k] \in Durations
    BY <1>0, LenProperties
  <2> QED BY <2>1, ValuesMeasurable DEF Value
<1>2. DOMAIN B = {bucket_of(Value(s, k)) : k \in 1 .. n}
  BY <1>0, <1>B DEF CountsIn
<1>3. \A i \in Nat : SumFunctionOnSet(B, {j \in DOMAIN B : j <= i}) = Cardinality(Within(s, i))
  BY <1>0, <1>B DEF CountsIn
<1>4. \A k \in 1 .. n : bucket_of(Value(s, k)) \in Nat
  BY <1>1, BucketBounds
<1>5. DOMAIN B \in SUBSET Nat
  BY <1>2, <1>4
<1> DEFINE R == {i \in DOMAIN B : SumFunctionOnSet(B, {j \in DOMAIN B : j <= i}) >= r}
<1>6. R \in SUBSET Nat /\ \A i \in Nat : i \in R <=> i \in DOMAIN B /\ Cardinality(Within(s, i)) >= r
  BY <1>3, <1>5
<1>7. percentile(st, p) = IF R # {} THEN lower_bound_of(Min(R)) ELSE st.max
  <2>1. st.count = n /\ st.count # 0
    BY <1>0
  <2> QED BY <1>B, <2>1 DEF percentile, BagToSet
<1> HIDE DEF R
<1>8. b \in Nat /\ b \in DOMAIN B
  <2>1. PICK k \in 1 .. n : Value(s, k) = x
    BY <1>0 DEF HasRank
  <2> QED BY <1>b, <1>2, <1>4, <2>1
<1>9. x \in Nat /\ \A k \in 1 .. n : Value(s, k) \in Nat
  BY <1>1 DEF Measurable
<1>10. b \in R
  <2>1. PICK A, W : A = AtMost(s, x) /\ W = Within(s, b)
    OBVIOUS
  <2>2. \A k \in 1 .. n : Value(s, k) <= x => bucket_of(Value(s, k)) <= b
    BY <1>b, <1>1, BucketOrder
  <2>3. W \in SUBSET (1 .. Len(s)) /\ A \in SUBSET W
    BY <1>0, <2>1, <2>2 DEF AtMost, Within
  <2>4. Cardinality(A) \in Nat /\ Cardinality(W) \in Nat /\ Cardinality(A) <= Cardinality(W)
    BY <2>3, SamplesFinite
  <2>5. Cardinality(A) >= r
    BY <2>1 DEF HasRank
  <2>6. Cardinality(W) >= r
    BY <2>4, <2>5
  <2> QED BY <1>6, <1>8, <2>1, <2>6
<1>11. ASSUME NEW i \in R PROVE b <= i
  <2>1. i \in Nat /\ Cardinality(Within(s, i)) >= r
    BY <1>6
  <2>2. SUFFICES ASSUME ~(b <= i) PROVE FALSE
    OBVIOUS
  <2>3. PICK U, W : U = Under(s, x) /\ W = Within(s, i)
    OBVIOUS
  <2>4. \A k \in 1 .. n : bucket_of(Value(s, k)) <= i => Value(s, k) < x
    <3> SUFFICES ASSUME NEW k \in 1 .. n, bucket_of(Value(s, k)) <= i, ~(Value(s, k) < x)
                 PROVE  FALSE
      OBVIOUS
    <3>1. x <= Value(s, k) /\ Value(s, k) \in Measurable
      BY <1>1, <1>9
    <3>2. b <= bucket_of(Value(s, k))
      BY <1>b, <3>1, BucketOrder
    <3> QED BY <1>4, <1>8, <2>1, <2>2, <3>2
  <2>5. U \in SUBSET (1 .. Len(s)) /\ W \in SUBSET U
    BY <1>0, <2>3, <2>4 DEF Under, Within
  <2>6. Cardinality(U) \in Nat /\ Cardinality(W) \in Nat /\ Cardinality(W) <= Cardinality(U)
    BY <2>5, SamplesFinite
  <2>7. Cardinality(U) < r
    BY <2>3 DEF HasRank
  <2>8. Cardinality(W) >= r
    BY <2>1, <2>3
  <2> QED BY <2>6, <2>7, <2>8
<1>12. Min(R) = b
  <2>1. Min(R) \in R /\ Min(R) <= b
    BY <1>6, <1>10, MinOfNaturals
  <2>2. b <= Min(R) /\ Min(R) \in Nat
    BY <1>6, <1>11, <2>1
  <2> QED BY <1>8, <2>1, <2>2
<1> QED BY <1>b, <1>7, <1>10, <1>12

(* The reported percentiles are those of the samples, within the width of  *)
(* a bucket, and the maximum is exact: bucket_of, lower_bound_of, the      *)
(* counters and the walk of percentile() agree for every duration below    *)
(* 2^TopBit and any number of samples.                                     *)
THEOREM PercentilesAreNearest == MetricsSpec => []PercentileIsNearestRank
<1>1. ASSUME StatsInv PROVE PercentileIsNearestRank
  <2>s. PICK s \in Seq(Durations) : s = samples
    BY <1>1 DEF StatsInv
  <2>n. PICK n \in Nat : n = Len(s)
    BY LenProperties
  <2>t. PICK st : st = book_update_latency
    OBVIOUS
  <2>1. st.count = n /\ CountsIn(st.buckets, s) /\ MaxIs(st.max, s)
    BY <1>1, <2>s, <2>n, <2>t DEF StatsInv
  <2>2. \A k \in 1 .. n : Value(s, k) \in Measurable
    <3>1. \A k \in 1 .. n : s[k] \in Durations
      BY <2>n, LenProperties
    <3> QED BY <3>1, ValuesMeasurable DEF Value
  <2> DEFINE values == {Value(s, k) : k \in 1 .. n}
  <2>3. ASSUME NEW i \in DOMAIN st.buckets PROVE i < kBucketCount
    <3>1. PICK k \in 1 .. n : i = bucket_of(Value(s, k))
      BY <2>n, <2>1 DEF CountsIn
    <3> QED BY <2>2, <3>1, BucketBounds
  <2>4. n > 0 => st.max \in values /\ \A x \in values : x <= st.max
    BY <2>n, <2>1 DEF MaxIs
  <2>5. ASSUME n > 0, NEW p \in 0 .. 100
        PROVE  \E x \in values :
                  /\ 100 * Cardinality(AtMost(s, x)) >= p * n
                  /\ Cardinality(Under(s, x)) = 0 \/ 100 * Cardinality(Under(s, x)) < p * n
                  /\ percentile(st, p) <= x
                  /\ 16 * (x - percentile(st, p)) <= percentile(st, p)
                  /\ x < 32 => percentile(st, p) = x
    <3>r. PICK r : r = rank(p, n)
      OBVIOUS
    <3>0. n \in Nat \ {0}
      BY <2>5
    <3>1. /\ r \in 1 .. n /\ 100 * r >= p * n
          /\ \A b \in Nat : b < r => b = 0 \/ 100 * b < p * n
      BY <3>r, <3>0, RankBounds
    <3>2. PICK x \in Measurable : HasRank(s, x, r)
      BY <2>n, <2>1, <3>0, <3>1, RankExists
    <3>3. percentile(st, p) = lower_bound_of(bucket_of(x))
      <4>1. StatsOf(st, s, n) /\ r \in 1 .. n
        BY <2>n, <2>1, <3>1 DEF StatsOf
      <4> QED BY <3>r, <3>0, <3>2, <4>1, PercentileOf
    <3>4. /\ lower_bound_of(bucket_of(x)) <= x
          /\ 16 * (x - lower_bound_of(bucket_of(x))) <= lower_bound_of(bucket_of(x))
          /\ x < 32 => lower_bound_of(bucket_of(x)) = x
      BY BucketBounds
    <3>5. PICK a, u : a = Cardinality(AtMost(s, x)) /\ u = Cardinality(Under(s, x))
      OBVIOUS
    <3>6. a \in Nat /\ u \in Nat
      <4>1. AtMost(s, x) \in SUBSET (1 .. Len(s)) /\ Under(s, x) \in SUBSET (1 .. Len(s))
        BY DEF AtMost, Under
      <4> QED BY <3>5, <4>1, SamplesFinite
    <3>7. a >= r /\ u < r /\ x \in values
      BY <2>n, <3>2, <3>5 DEF HasRank
    <3>8. 100 * a >= p * n
      <4>1. PICK q \in Nat : q = p * n
        OBVIOUS
      <4> QED BY <3>1, <3>6, <3>7, <4>1
    <3>9. u = 0 \/ 100 * u < p * n
      BY <3>1, <3>6, <3>7
    <3> QED BY <3>3, <3>4, <3>5, <3>7, <3>8, <3>9
  <2>6. \A i \in BagToSet(book_update_latency.buckets) : i < kBucketCount
    BY <2>t, <2>3 DEF BagToSet
  <2>7. Len(samples) > 0 =>
           /\ book_update_latency.max \in {Value(samples, k) : k \in 1 .. Len(samples)}
           /\ \A x \in {Value(samples, k) : k \in 1 .. Len(samples)} :
                 x <= book_update_latency.max
    BY <2>s, <2>n, <2>t, <2>4
  <2>8. Len(samples) > 0 => \A p \in 0 .. 100 :
           \E x \in {Value(samples, k) : k \in 1 .. Len(samples)} :
              /\ /\ 100 * Cardinality(AtMost(samples, x)) >= p * Len(samples)
                 /\ \/ Cardinality(Under(samples, x)) = 0
                    \/ 100 * Cardinality(Under(samples, x)) < p * Len(samples)
              /\ percentile(book_update_latency, p) <= x
              /\ 16 * (x - percentile(book_update_latency, p))
                     <= percentile(book_update_latency, p)
              /\ x < 32 => percentile(book_update_latency, p) = x
    <3>1. n > 0 => \A p \in 0 .. 100 :
             \E x \in {Value(s, k) : k \in 1 .. n} :
                /\ /\ 100 * Cardinality(AtMost(s, x)) >= p * n
                   /\ \/ Cardinality(Under(s, x)) = 0
                      \/ 100 * Cardinality(Under(s, x)) < p * n
                /\ percentile(st, p) <= x
                /\ 16 * (x - percentile(st, p)) <= percentile(st, p)
                /\ x < 32 => percentile(st, p) = x
      BY <2>5, Zenon
    <3>2. samples = s /\ Len(samples) = n /\ book_update_latency = st
      BY <2>s, <2>n, <2>t
    <3> QED BY <3>1, <3>2, Zenon
  <2> QED BY <2>6, <2>7, <2>8, Zenon DEF PercentileIsNearestRank, AtMost, Under, Value
<1>2. MetricsInit => LogInv
  BY InitLog DEF MetricsInit
<1>3. MetricsSpec => [](LogInv /\ StatsInv)
  BY <1>2, InitStats, NextStats, MetricsKeepLog, PTL DEF MetricsSpec
<1> QED BY <1>1, <1>3, PTL
=============================================================================
