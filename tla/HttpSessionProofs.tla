-------------------------- MODULE HttpSessionProofs --------------------------
(* Proofs about HttpSession: every connection has one owner and none leaks,  *)
(* the pool is exact, a request gets its own response, none that is not      *)
(* idempotent is processed twice, and no call goes round in circles.         *)
EXTENDS HttpSession, SequenceTheorems, TLAPS

-----------------------------------------------------------------------------
(* The inductive invariant.                                                  *)

\* A request has a connection exactly while it sends, reads or returns it,
\* connections to close only while it closes them, and a key once it has begun.
Held ==
  \A r \in Requests :
    /\ conn[r] # None <=> pc[r] \in {"send", "read", "return"}
    /\ toClose[r] # {} => pc[r] = "close"
    /\ pc[r] \notin {"idle", "failed"} => key[r] \in Keys

\* An idle connection belongs to the key it waits under.
PooledPeer == \A i \in DOMAIN idleList : madeFor[idleList[i].conn] = idleList[i].key

\* What is on a connection concerns the request that reads from it.
WireOwned ==
  \A c \in Conns :
    /\ wire[c] # None => /\ conn[wire[c]] = c /\ pc[wire[c]] = "read"
                         /\ reply[c] = None
    /\ reply[c] # None => conn[reply[c]] = c /\ pc[reply[c]] = "read"

\* A request that a server has processed, and that may not be repeated, is
\* past sending.
Committed ==
  \A r \in Requests :
    method[r] = "unsafe" /\ served[r] > 0 =>
      /\ served[r] = 1
      /\ pc[r] \notin {"idle", "take", "open", "send"}
      /\ \A c \in Conns : wire[c] # r

\* No call makes more than two attempts on a URL, and none of them is
\* processed twice.
AttemptsBounded ==
  \A r \in Requests :
    /\ pc[r] \notin {"failed", "exhausted"} => attempt[r] <= 1
    /\ served[r] <= attempt[r] + 1
    /\ served[r] = attempt[r] + 1 => /\ pc[r] \notin {"idle", "take", "open", "send"}
                                     /\ \A c \in Conns : wire[c] # r

IInv ==
  /\ TypeOK /\ ConnectionsExact /\ PoolExact /\ OwnResponse
  /\ Held /\ PooledPeer /\ WireOwned /\ Committed /\ AttemptsBounded

-----------------------------------------------------------------------------
(* Lists of idle connections.                                                *)

Entries == [key : Keys, conn : Conns, old : BOOLEAN]

\* No two entries of a list share a key or a connection.
Distinct(list) ==
  \A i, j \in DOMAIN list : i # j => list[i].key # list[j].key /\ list[i].conn # list[j].conn

\* What is left of a list without one of its entries.
LEMMA RemoveAtFacts ==
  ASSUME NEW list \in Seq(Entries), NEW i \in DOMAIN list, Distinct(list)
  PROVE  LET rest == RemoveAt(list, i) IN
         /\ rest \in Seq(Entries) /\ Len(rest) = Len(list) - 1
         /\ \A j \in 1 .. Len(rest) : rest[j] = IF j < i THEN list[j] ELSE list[j + 1]
         /\ Distinct(rest)
         /\ ConnsOf(rest) = ConnsOf(list) \ {list[i].conn}
         /\ KeysOf(rest) = KeysOf(list) \ {list[i].key}
  <1> DEFINE rest == RemoveAt(list, i)
  <1>0. rest = RemoveAt(list, i)
    OBVIOUS
  <1> HIDE DEF rest
  <1>1. i \in 1 .. Len(list) /\ Len(list) \in Nat /\ DOMAIN list = 1 .. Len(list)
    BY LenProperties
  <1>2. /\ SubSeq(list, 1, i - 1) \in Seq(Entries) /\ Len(SubSeq(list, 1, i - 1)) = i - 1
        /\ \A j \in 1 .. (i - 1) : SubSeq(list, 1, i - 1)[j] = list[j]
    BY <1>1
  <1>3. /\ SubSeq(list, i + 1, Len(list)) \in Seq(Entries)
        /\ Len(SubSeq(list, i + 1, Len(list))) = Len(list) - i
        /\ \A j \in 1 .. (Len(list) - i) : SubSeq(list, i + 1, Len(list))[j] = list[i + j]
    BY <1>1
  <1>4. /\ rest \in Seq(Entries) /\ Len(rest) = Len(list) - 1 /\ DOMAIN rest = 1 .. (Len(list) - 1)
        /\ \A j \in 1 .. (Len(list) - 1) : rest[j] = IF j < i THEN list[j] ELSE list[j + 1]
    <2> DEFINE front == SubSeq(list, 1, i - 1)
               back == SubSeq(list, i + 1, Len(list))
    <2>1. rest = front \o back
      BY <1>0 DEF RemoveAt
    <2>2. /\ front \in Seq(Entries) /\ Len(front) = i - 1 /\ \A j \in 1 .. (i - 1) : front[j] = list[j]
          /\ back \in Seq(Entries) /\ Len(back) = Len(list) - i
          /\ \A j \in 1 .. (Len(list) - i) : back[j] = list[i + j]
      BY <1>2, <1>3
    <2> HIDE DEF front, back
    <2>3. /\ rest \in Seq(Entries) /\ Len(rest) = (i - 1) + (Len(list) - i)
          /\ \A j \in 1 .. ((i - 1) + (Len(list) - i)) :
               rest[j] = IF j <= i - 1 THEN front[j] ELSE back[j - (i - 1)]
      <3>1. /\ front \o back \in Seq(Entries) /\ Len(front \o back) = Len(front) + Len(back)
            /\ \A j \in 1 .. (Len(front) + Len(back)) :
                 (front \o back)[j] = IF j <= Len(front) THEN front[j] ELSE back[j - Len(front)]
        BY <2>2, ConcatProperties
      <3> QED BY <2>1, <2>2, <3>1
    <2>4. (i - 1) + (Len(list) - i) = Len(list) - 1
      BY <1>1
    <2>5. ASSUME NEW j \in 1 .. (Len(list) - 1)
          PROVE  rest[j] = IF j < i THEN list[j] ELSE list[j + 1]
      <3>1. CASE j < i
        BY <1>1, <2>2, <2>3, <2>4, <3>1
      <3>2. CASE ~(j < i)
        <4>1. j - (i - 1) \in 1 .. (Len(list) - i) /\ i + (j - (i - 1)) = j + 1
          BY <1>1, <3>2
        <4>2. back[j - (i - 1)] = list[j + 1]
          BY <2>2, <4>1
        <4> QED BY <1>1, <2>3, <2>4, <3>2, <4>2
      <3> QED BY <3>1, <3>2
    <2> QED BY <2>3, <2>4, <2>5, LenProperties
  <1>5. Distinct(rest)
    <2> DEFINE at == [j \in 1 .. (Len(list) - 1) |-> IF j < i THEN j ELSE j + 1]
    <2>1. \A j \in 1 .. (Len(list) - 1) : at[j] \in DOMAIN list /\ rest[j] = list[at[j]]
      BY <1>1, <1>4
    <2>2. \A j, k \in 1 .. (Len(list) - 1) : j # k => at[j] # at[k]
      BY <1>1
    <2> HIDE DEF at
    <2> SUFFICES ASSUME NEW j \in DOMAIN rest, NEW k \in DOMAIN rest, j # k
                 PROVE  rest[j].key # rest[k].key /\ rest[j].conn # rest[k].conn
      BY DEF Distinct
    <2>3. at[j] # at[k] /\ rest[j] = list[at[j]] /\ rest[k] = list[at[k]]
      BY <1>4, <2>1, <2>2
    <2>4. at[j] \in DOMAIN list /\ at[k] \in DOMAIN list
      BY <1>4, <2>1
    <2> QED BY <2>3, <2>4 DEF Distinct
  <1>6. \A j \in DOMAIN list : j # i => \E k \in DOMAIN rest : rest[k] = list[j]
    <2> SUFFICES ASSUME NEW j \in DOMAIN list, j # i
                 PROVE  \E k \in DOMAIN rest : rest[k] = list[j]
      OBVIOUS
    <2>1. CASE j < i
      BY <1>1, <1>4, <2>1
    <2>2. CASE j > i
      <3>1. j - 1 \in DOMAIN rest /\ ~(j - 1 < i) /\ (j - 1) + 1 = j
        BY <1>1, <1>4, <2>2
      <3> QED BY <1>4, <3>1
    <2> QED BY <1>1, <2>1, <2>2
  <1>7. \A k \in DOMAIN rest : \E j \in DOMAIN list : j # i /\ rest[k] = list[j]
    BY <1>1, <1>4
  <1>8. /\ ConnsOf(rest) = ConnsOf(list) \ {list[i].conn}
        /\ KeysOf(rest) = KeysOf(list) \ {list[i].key}
    BY <1>6, <1>7 DEF Distinct, ConnsOf, KeysOf
  <1> QED BY <1>4, <1>5, <1>8 DEF rest

\* What the limit leaves of a list.
LEMMA KeptFacts ==
  ASSUME NEW list \in Seq(Entries), Distinct(list), PoolMaxSize \in Nat
  PROVE  /\ Kept(list) \in Seq(Entries)
         /\ Len(Kept(list)) = IF Len(list) <= PoolMaxSize THEN Len(list) ELSE PoolMaxSize
         /\ \A j \in 1 .. Len(Kept(list)) : Kept(list)[j] = list[j]
         /\ Distinct(Kept(list))
         /\ ConnsOf(Kept(list)) \subseteq ConnsOf(list)
         /\ KeysOf(Kept(list)) \subseteq KeysOf(list)
  <1> DEFINE n == IF Len(list) <= PoolMaxSize THEN Len(list) ELSE PoolMaxSize
  <1>1. n \in Nat /\ n <= Len(list) /\ Len(list) \in Nat /\ DOMAIN list = 1 .. Len(list)
    BY LenProperties
  <1>2. Kept(list) = SubSeq(list, 1, n)
    BY DEF Kept
  <1> HIDE DEF n
  <1>3. /\ Kept(list) \in Seq(Entries) /\ Len(Kept(list)) = n /\ DOMAIN Kept(list) = 1 .. n
        /\ \A j \in 1 .. n : Kept(list)[j] = list[j]
    BY <1>1, <1>2
  <1>4. Distinct(Kept(list))
    BY <1>1, <1>3 DEF Distinct
  <1>5. ConnsOf(Kept(list)) \subseteq ConnsOf(list) /\ KeysOf(Kept(list)) \subseteq KeysOf(list)
    BY <1>1, <1>3 DEF ConnsOf, KeysOf
  <1> QED BY <1>3, <1>4, <1>5 DEF n

\* A list with one more entry at the front.
LEMMA FrontFacts ==
  ASSUME NEW list \in Seq(Entries), Distinct(list), NEW e \in Entries,
         e.key \notin KeysOf(list), e.conn \notin ConnsOf(list)
  PROVE  LET longer == <<e>> \o list IN
         /\ longer \in Seq(Entries) /\ Len(longer) = Len(list) + 1
         /\ longer[1] = e /\ \A j \in 1 .. Len(list) : longer[j + 1] = list[j]
         /\ Distinct(longer)
         /\ ConnsOf(longer) = ConnsOf(list) \cup {e.conn}
         /\ KeysOf(longer) = KeysOf(list) \cup {e.key}
  <1> DEFINE longer == <<e>> \o list
  <1>1. <<e>> \in Seq(Entries) /\ Len(<<e>>) = 1 /\ <<e>>[1] = e
    OBVIOUS
  <1>2. DOMAIN list = 1 .. Len(list) /\ Len(list) \in Nat
    BY LenProperties
  <1>3. /\ longer \in Seq(Entries) /\ Len(longer) = Len(list) + 1 /\ DOMAIN longer = 1 .. (Len(list) + 1)
        /\ longer[1] = e /\ \A j \in 2 .. (Len(list) + 1) : longer[j] = list[j - 1]
    BY <1>1, <1>2, ConcatProperties, LenProperties
  <1> HIDE DEF longer
  <1>4. \A j \in 1 .. Len(list) : longer[j + 1] = list[j]
    BY <1>2, <1>3
  <1>5. \A j \in DOMAIN list : list[j].key \in KeysOf(list) /\ list[j].conn \in ConnsOf(list)
    BY DEF ConnsOf, KeysOf
  <1>6. \A j \in DOMAIN longer : j # 1 => j - 1 \in DOMAIN list /\ longer[j] = list[j - 1]
    BY <1>2, <1>3
  <1>7. \A j \in DOMAIN list : j + 1 \in DOMAIN longer /\ longer[j + 1] = list[j]
    BY <1>2, <1>3, <1>4
  <1>8. 1 \in DOMAIN longer
    BY <1>2, <1>3
  <1>9. Distinct(longer)
    <2> SUFFICES ASSUME NEW j \in DOMAIN longer, NEW k \in DOMAIN longer, j # k
                 PROVE  longer[j].key # longer[k].key /\ longer[j].conn # longer[k].conn
      BY DEF Distinct
    <2>1. CASE j = 1
      BY <1>3, <1>5, <1>6, <2>1
    <2>2. CASE k = 1
      BY <1>3, <1>5, <1>6, <2>2
    <2>3. CASE j # 1 /\ k # 1
      <3>1. j - 1 # k - 1
        BY <1>3, <1>2
      <3> QED BY <1>6, <2>3, <3>1 DEF Distinct
    <2> QED BY <2>1, <2>2, <2>3
  <1>10. ConnsOf(longer) = ConnsOf(list) \cup {e.conn}
    <2>1. ConnsOf(longer) \subseteq ConnsOf(list) \cup {e.conn}
      BY <1>3, <1>5, <1>6 DEF ConnsOf
    <2>2. e.conn \in ConnsOf(longer)
      BY <1>3, <1>8 DEF ConnsOf
    <2>3. ConnsOf(list) \subseteq ConnsOf(longer)
      BY <1>7 DEF ConnsOf
    <2> QED BY <2>1, <2>2, <2>3
  <1>11. KeysOf(longer) = KeysOf(list) \cup {e.key}
    <2>1. KeysOf(longer) \subseteq KeysOf(list) \cup {e.key}
      BY <1>3, <1>5, <1>6 DEF KeysOf
    <2>2. e.key \in KeysOf(longer)
      BY <1>3, <1>8 DEF KeysOf
    <2>3. KeysOf(list) \subseteq KeysOf(longer)
      BY <1>7 DEF KeysOf
    <2> QED BY <2>1, <2>2, <2>3
  <1> QED BY <1>3, <1>4, <1>9, <1>10, <1>11 DEF longer
-----------------------------------------------------------------------------
(* What the steps of the pool do to it.                                      *)

LEMMA PoolFacts ==
  ASSUME IInv
  PROVE  /\ idleList \in Seq(Entries) /\ Distinct(idleList) /\ DOMAIN idleList = 1 .. Len(idleList)
         /\ Len(idleList) \in Nat /\ idleIndex = KeysOf(idleList)
         /\ ConnsOf(idleList) \subseteq Conns
         /\ \A i \in DOMAIN idleList : idleList[i] \in Entries
  <1>1. idleList \in Seq(Entries)
    BY DEF IInv, TypeOK, Entries
  <1>2. DOMAIN idleList = 1 .. Len(idleList) /\ Len(idleList) \in Nat
    BY <1>1, LenProperties
  <1>3. \A i \in DOMAIN idleList : idleList[i] \in Entries
    BY <1>1, <1>2, ElementOfSeq
  <1>4. Distinct(idleList) /\ idleIndex = KeysOf(idleList)
    BY DEF IInv, ConnectionsExact, OneOwner, PoolExact, PoolBounded, Distinct
  <1>5. ConnsOf(idleList) \subseteq Conns
    BY <1>3 DEF ConnsOf, Entries
  <1> QED BY <1>1, <1>2, <1>3, <1>4, <1>5

\* The part of the invariant that is about the list and its index alone.
ListExact(list, index, isClosed) ==
  /\ list \in Seq(Entries) /\ index \subseteq Keys
  /\ Distinct(list) /\ Len(list) <= PoolMaxSize /\ index = KeysOf(list)
  /\ isClosed => list = <<>>

LEMMA ListExactNow ==
  ASSUME IInv
  PROVE  ListExact(idleList, idleIndex, closed)
  BY PoolFacts DEF ListExact, IInv, TypeOK, PoolExact, PoolBounded, ClosedIsEmpty

\* An entry that leaves the pool takes its key out of the index.
LEMMA LeavesPoolFacts ==
  ASSUME IInv, NEW i \in DOMAIN idleList, LeavesPool(i), closed' = closed
  PROVE  /\ ListExact(idleList', idleIndex', closed')
         /\ ConnsOf(idleList') = ConnsOf(idleList) \ {idleList[i].conn}
         /\ \A j \in DOMAIN idleList' : \E k \in DOMAIN idleList : idleList'[j] = idleList[k]
  <1>1. /\ idleList' \in Seq(Entries) /\ Len(idleList') = Len(idleList) - 1
        /\ \A j \in 1 .. Len(idleList') : idleList'[j] = IF j < i THEN idleList[j] ELSE idleList[j + 1]
        /\ Distinct(idleList')
        /\ ConnsOf(idleList') = ConnsOf(idleList) \ {idleList[i].conn}
        /\ KeysOf(idleList') = KeysOf(idleList) \ {idleList[i].key}
    BY PoolFacts, RemoveAtFacts DEF LeavesPool
  <1>2. Len(idleList) <= PoolMaxSize /\ PoolMaxSize \in Nat /\ idleIndex \subseteq Keys
    BY SessionAssumption DEF IInv, TypeOK, PoolExact, PoolBounded
  <1>3. idleIndex' = KeysOf(idleList') /\ idleIndex' \subseteq Keys
    BY <1>1, <1>2, PoolFacts DEF LeavesPool
  <1>4. ~closed
    <2>1. idleList # <<>>
      BY PoolFacts
    <2> QED BY <2>1 DEF IInv, PoolExact, ClosedIsEmpty
  <1>5. ListExact(idleList', idleIndex', closed')
    BY <1>1, <1>2, <1>3, <1>4, PoolFacts DEF ListExact
  <1>6. \A j \in DOMAIN idleList' : \E k \in DOMAIN idleList : idleList'[j] = idleList[k]
    <2>1. DOMAIN idleList' = 1 .. (Len(idleList) - 1)
      BY <1>1, LenProperties
    <2>2. \A j \in DOMAIN idleList' : j \in DOMAIN idleList /\ j + 1 \in DOMAIN idleList
      BY <2>1, PoolFacts
    <2> QED BY <1>1, <2>1, <2>2
  <1> QED BY <1>1, <1>5, <1>6

\* The list without the entry of a key.
LEMMA OthersFacts ==
  ASSUME IInv, NEW k \in Keys
  PROVE  /\ Others(k) \in Seq(Entries) /\ Distinct(Others(k))
         /\ ConnsOf(Others(k)) \subseteq ConnsOf(idleList)
         /\ KeysOf(Others(k)) = KeysOf(idleList) \ {k}
         /\ \A j \in DOMAIN Others(k) : \E m \in DOMAIN idleList : Others(k)[j] = idleList[m]
  <1>1. CASE Found(k) = {}
    <2>1. Others(k) = idleList
      BY <1>1 DEF Others
    <2>2. k \notin KeysOf(idleList)
      BY <1>1, PoolFacts DEF Found, KeysOf
    <2> QED BY <2>1, <2>2, PoolFacts
  <1>2. CASE Found(k) # {}
    <2> DEFINE i == CHOOSE i \in Found(k) : TRUE
    <2>1. i \in DOMAIN idleList /\ idleList[i].key = k
      BY <1>2 DEF Found
    <2>2. Others(k) = RemoveAt(idleList, i)
      BY <1>2 DEF Others
    <2> HIDE DEF i
    <2>3. /\ Others(k) \in Seq(Entries) /\ Len(Others(k)) = Len(idleList) - 1
          /\ \A j \in 1 .. Len(Others(k)) : Others(k)[j] = IF j < i THEN idleList[j] ELSE idleList[j + 1]
          /\ Distinct(Others(k))
          /\ ConnsOf(Others(k)) = ConnsOf(idleList) \ {idleList[i].conn}
          /\ KeysOf(Others(k)) = KeysOf(idleList) \ {idleList[i].key}
      BY <2>1, <2>2, PoolFacts, RemoveAtFacts
    <2>4. DOMAIN Others(k) = 1 .. (Len(idleList) - 1)
      BY <2>3, LenProperties
    <2>5. \A j \in DOMAIN Others(k) : j \in DOMAIN idleList /\ j + 1 \in DOMAIN idleList
      BY <2>4, PoolFacts
    <2> QED BY <2>1, <2>3, <2>4, <2>5
  <1> QED BY <1>1, <1>2

\* A connection that comes back to the pool is idle there or about to be closed,
\* together with those it displaces.
LEMMA ReturnIdleFacts ==
  ASSUME IInv, NEW r \in Requests, ReturnIdle(r)
  PROVE  /\ ListExact(idleList', idleIndex', closed')
         /\ ConnsOf(idleList') \subseteq ConnsOf(idleList) \cup {conn[r]}
         /\ toClose' = [toClose EXCEPT ![r] = (ConnsOf(idleList) \cup {conn[r]}) \ ConnsOf(idleList')]
         /\ \A j \in DOMAIN idleList' :
              (idleList'[j].key = key[r] /\ idleList'[j].conn = conn[r])
                \/ \E m \in DOMAIN idleList : idleList'[j] = idleList[m]
  <1>1. CASE closed
    BY <1>1, ListExactNow DEF ReturnIdle, ClosedToReturn, Displaced
  <1>2. CASE ~closed
    <2> DEFINE entry == [key |-> key[r], conn |-> conn[r], old |-> FALSE]
               others == Others(key[r])
               longer == <<entry>> \o others
    <2>1. key[r] \in Keys /\ conn[r] \in Conns /\ conn[r] \notin ConnsOf(idleList)
      <3>1. conn[r] # None /\ key[r] \in Keys
        BY DEF ReturnIdle, IInv, Held
      <3>2. conn[r] \in Conns
        BY <3>1 DEF IInv, TypeOK
      <3> QED BY <3>1, <3>2 DEF IInv, ConnectionsExact, OneOwner
    <2>2. entry \in Entries /\ entry.key = key[r] /\ entry.conn = conn[r]
      BY <2>1 DEF Entries
    <2>3. /\ others \in Seq(Entries) /\ Distinct(others)
          /\ ConnsOf(others) \subseteq ConnsOf(idleList)
          /\ KeysOf(others) = KeysOf(idleList) \ {key[r]}
          /\ \A j \in DOMAIN others : \E m \in DOMAIN idleList : others[j] = idleList[m]
      BY <2>1, OthersFacts
    <2> HIDE DEF entry, others
    <2>4. /\ longer \in Seq(Entries) /\ Len(longer) = Len(others) + 1
          /\ longer[1] = entry /\ \A j \in 1 .. Len(others) : longer[j + 1] = others[j]
          /\ Distinct(longer)
          /\ ConnsOf(longer) = ConnsOf(others) \cup {entry.conn}
          /\ KeysOf(longer) = KeysOf(others) \cup {entry.key}
      BY <2>1, <2>2, <2>3, FrontFacts
    <2>5. /\ idleList' = Kept(longer)
          /\ idleIndex' = (idleIndex \cup {key[r]}) \ (KeysOf(others) \ KeysOf(idleList'))
          /\ closed' = closed
          /\ toClose' = [toClose EXCEPT ![r] = (ConnsOf(idleList) \cup {conn[r]}) \ ConnsOf(idleList')]
      BY <1>2 DEF ReturnIdle, ClosedToReturn, Displaced, entry, others
    <2> HIDE DEF longer
    <2>6. PoolMaxSize \in Nat /\ PoolMaxSize >= 1
      BY SessionAssumption
    <2>7. /\ idleList' \in Seq(Entries)
          /\ Len(idleList') = IF Len(longer) <= PoolMaxSize THEN Len(longer) ELSE PoolMaxSize
          /\ \A j \in 1 .. Len(idleList') : idleList'[j] = longer[j]
          /\ Distinct(idleList')
          /\ ConnsOf(idleList') \subseteq ConnsOf(longer) /\ KeysOf(idleList') \subseteq KeysOf(longer)
      BY <2>4, <2>5, <2>6, KeptFacts
    <2>8. /\ Len(others) \in Nat /\ DOMAIN others = 1 .. Len(others)
          /\ Len(idleList') \in Nat /\ DOMAIN idleList' = 1 .. Len(idleList')
      BY <2>3, <2>7, LenProperties
    <2>9. Len(idleList') >= 1 /\ Len(idleList') <= PoolMaxSize /\ Len(idleList') <= Len(others) + 1
      BY <2>4, <2>6, <2>7, <2>8
    <2>10. key[r] \in KeysOf(idleList')
      <3>1. 1 \in DOMAIN idleList' /\ idleList'[1] = entry
        BY <2>4, <2>7, <2>8, <2>9
      <3> QED BY <2>2, <3>1 DEF KeysOf
    <2>11. idleIndex' = KeysOf(idleList') /\ idleIndex' \subseteq Keys
      <3>1. idleIndex = KeysOf(idleList) /\ idleIndex \subseteq Keys
        BY PoolFacts DEF IInv, TypeOK
      <3> QED BY <2>1, <2>2, <2>3, <2>4, <2>5, <2>7, <2>10, <3>1
    <2>12. \A j \in DOMAIN idleList' :
              (idleList'[j].key = key[r] /\ idleList'[j].conn = conn[r])
                \/ \E m \in DOMAIN idleList : idleList'[j] = idleList[m]
      <3> SUFFICES ASSUME NEW j \in DOMAIN idleList', j # 1
                   PROVE  \E m \in DOMAIN idleList : idleList'[j] = idleList[m]
        BY <2>2, <2>4, <2>7, <2>8
      <3>1. j - 1 \in DOMAIN others /\ (j - 1) + 1 = j
        BY <2>8, <2>9
      <3>2. idleList'[j] = others[j - 1]
        BY <2>4, <2>7, <2>8, <3>1
      <3> QED BY <2>3, <3>1, <3>2
    <2> QED BY <1>2, <2>2, <2>3, <2>4, <2>5, <2>7, <2>9, <2>11, <2>12 DEF ListExact
  <1> QED BY <1>1, <1>2
\* Growing old changes neither the key nor the connection of an entry.
LEMMA ExpireFacts ==
  ASSUME IInv, NEW i \in DOMAIN idleList, Expire(i)
  PROVE  /\ ListExact(idleList', idleIndex', closed')
         /\ ConnsOf(idleList') = ConnsOf(idleList)
         /\ DOMAIN idleList' = DOMAIN idleList
         /\ \A j \in DOMAIN idleList : /\ idleList'[j].key = idleList[j].key
                                      /\ idleList'[j].conn = idleList[j].conn
  <1>1. /\ idleList \in Seq(Entries) /\ DOMAIN idleList = 1 .. Len(idleList) /\ Len(idleList) \in Nat
        /\ \A j \in DOMAIN idleList : idleList[j] \in Entries
    BY PoolFacts
  <1> DEFINE e == [idleList[i] EXCEPT !.old = TRUE]
  <1>2. e \in Entries /\ e.key = idleList[i].key /\ e.conn = idleList[i].conn
    BY <1>1 DEF Entries
  <1>3. idleList' = [idleList EXCEPT ![i] = e]
    BY DEF Expire
  <1> HIDE DEF e
  <1>4. idleList' \in Seq(Entries) /\ Len(idleList') = Len(idleList)
    BY <1>1, <1>2, <1>3, ExceptSeq
  <1>5. DOMAIN idleList' = DOMAIN idleList
    BY <1>1, <1>3
  <1>6. \A j \in DOMAIN idleList : idleList'[j].key = idleList[j].key /\ idleList'[j].conn = idleList[j].conn
    BY <1>1, <1>2, <1>3
  <1>7. ConnsOf(idleList') = ConnsOf(idleList) /\ KeysOf(idleList') = KeysOf(idleList)
    BY <1>5, <1>6 DEF ConnsOf, KeysOf
  <1>8. Distinct(idleList')
    BY <1>5, <1>6, PoolFacts DEF Distinct
  <1>9. ~closed
    BY <1>1 DEF IInv, PoolExact, ClosedIsEmpty
  <1> QED BY <1>4, <1>5, <1>6, <1>7, <1>8, <1>9, ListExactNow DEF ListExact, Expire

\* Every step keeps the list and its index exact.
LEMMA PoolStep ==
  ASSUME IInv, [Next]_vars
  PROVE  ListExact(idleList', idleIndex', closed')
  <1>1. CASE UNCHANGED pool
    BY <1>1, ListExactNow DEF pool
  <1>2. ASSUME NEW r \in Requests, TakeIdle(r)
        PROVE  ListExact(idleList', idleIndex', closed')
    <2>1. PICK i \in Found(key[r]) : LeavesPool(i) /\ closed' = closed
      BY <1>2 DEF TakeIdle
    <2> QED BY <2>1, LeavesPoolFacts DEF Found
  <1>3. ASSUME NEW r \in Requests, ReturnIdle(r)
        PROVE  ListExact(idleList', idleIndex', closed')
    BY <1>3, ReturnIdleFacts
  <1>4. CASE Close
    <2>1. idleList' = <<>> /\ idleIndex' = {} /\ PoolMaxSize \in Nat
      BY <1>4, SessionAssumption DEF Close
    <2>2. DOMAIN idleList' = {} /\ Len(idleList') = 0 /\ idleList' \in Seq(Entries)
      BY <2>1, EmptySeq
    <2> QED BY <2>1, <2>2 DEF ListExact, Distinct, KeysOf
  <1>5. ASSUME NEW i \in DOMAIN idleList, Expire(i)
        PROVE  ListExact(idleList', idleIndex', closed')
    BY <1>5, ExpireFacts
  <1> QED
    BY <1>1, <1>2, <1>3, <1>4, <1>5
    DEF Next, Step, vars, pool, Begin, Refuse, NothingIdle, Open, OpenFails, Send, SendFails, ReadFails, AttemptFails,
        Read, CloseDisplaced, Return, Redirect, RedirectFails, PeerCloses, Serve

-----------------------------------------------------------------------------
(* Types.                                                                    *)

NetType ==
  /\ open \subseteq Conns /\ peerUp \subseteq Conns
  /\ madeFor \in [Conns -> Keys \cup {None}]
  /\ wire \in [Conns -> Requests \cup {None}]
  /\ reply \in [Conns -> Requests \cup {None}]

CallType ==
  /\ closed \in BOOLEAN
  /\ pc \in [Requests -> Steps]
  /\ key \in [Requests -> Keys \cup {None}]
  /\ conn \in [Requests -> Conns \cup {None}]
  /\ fresh \subseteq Requests
  /\ attempt \in [Requests -> 0..2]
  /\ hops \in [Requests -> 0..MaxRedirects]
  /\ method \in [Requests -> {"safe", "unsafe"}]
  /\ toClose \in [Requests -> SUBSET Conns]
  /\ got \in [Requests -> Requests \cup {None}]
  /\ served \in [Requests -> 0..2]

LEMMA TypesNow ==
  ASSUME IInv
  PROVE  NetType /\ CallType
  BY DEF IInv, TypeOK, NetType, CallType

\* Closing connections keeps what is known of the others.
LEMMA ShutdownFacts ==
  ASSUME NetType, NEW cs, ShutdownClose(cs)
  PROVE  /\ NetType'
         /\ open' = open \ cs
         /\ \A c \in Conns \ cs : madeFor'[c] = madeFor[c] /\ wire'[c] = wire[c] /\ reply'[c] = reply[c]
         /\ \A c \in Conns \cap cs : wire'[c] = None /\ reply'[c] = None
  BY DEF NetType, ShutdownClose
\* The connection of a request that has one, and what is known of it.
LEMMA HolderFacts ==
  ASSUME IInv, NEW r \in Requests, pc[r] \in {"send", "read", "return"}
  PROVE  /\ conn[r] \in Conns /\ conn[r] # None /\ conn[r] \in open
         /\ conn[r] \notin ConnsOf(idleList) /\ toClose[r] = {}
         /\ \A q \in Requests : q # r => conn[q] # conn[r] /\ conn[r] \notin toClose[q]
         /\ key[r] \in Keys /\ madeFor[conn[r]] = key[r]
         /\ attempt[r] <= 1
  <1>1. conn[r] # None /\ toClose[r] = {} /\ key[r] \in Keys
    BY DEF IInv, Held
  <1>2. conn[r] \in Conns
    BY <1>1 DEF IInv, TypeOK
  <1>3. conn[r] \in open
    BY <1>2 DEF IInv, ConnectionsExact, NoLeak
  <1>4. conn[r] \notin ConnsOf(idleList)
    BY DEF IInv, ConnectionsExact, OneOwner
  <1>5. \A q \in Requests : q # r => conn[q] # conn[r] /\ conn[r] \notin toClose[q]
    BY <1>1 DEF IInv, ConnectionsExact, OneOwner
  <1>6. madeFor[conn[r]] = key[r]
    BY <1>1 DEF IInv, ConnectionsExact, RightPeer
  <1>7. attempt[r] <= 1
    BY DEF IInv, AttemptsBounded
  <1> QED BY <1>1, <1>2, <1>3, <1>4, <1>5, <1>6, <1>7

\* What a step that takes an idle connection does, the list aside.
LEMMA TakeIdleFacts ==
  ASSUME IInv, NEW r \in Requests, TakeIdle(r)
  PROVE  \E c \in Conns :
           /\ c \in ConnsOf(idleList) /\ ConnsOf(idleList') = ConnsOf(idleList) \ {c}
           /\ madeFor[c] = key[r] /\ pc[r] = "take"
           /\ \A j \in DOMAIN idleList' : \E k \in DOMAIN idleList : idleList'[j] = idleList[k]
           /\ fresh' = fresh \ {r}
           /\ UNCHANGED <<closed, key, attempt, hops, method, toClose, got, served>>
           /\ \/ /\ conn' = [conn EXCEPT ![r] = c] /\ pc' = [pc EXCEPT ![r] = "send"]
                 /\ UNCHANGED net
              \/ /\ ShutdownClose({c}) /\ pc' = [pc EXCEPT ![r] = "open"]
                 /\ UNCHANGED conn
  <1>1. PICK i \in Found(key[r]) :
          /\ LeavesPool(i)
          /\ IF Usable(idleList[i])
             THEN conn' = [conn EXCEPT ![r] = idleList[i].conn] /\ pc' = [pc EXCEPT ![r] = "send"] /\ UNCHANGED net
             ELSE ShutdownClose({idleList[i].conn}) /\ pc' = [pc EXCEPT ![r] = "open"] /\ UNCHANGED conn
    BY DEF TakeIdle, Goto
  <1>2. i \in DOMAIN idleList /\ idleList[i].key = key[r] /\ idleList[i] \in Entries
    BY PoolFacts DEF Found
  <1>3. /\ fresh' = fresh \ {r} /\ pc[r] = "take"
        /\ UNCHANGED <<closed, key, attempt, hops, method, toClose, got, served>>
    BY DEF TakeIdle
  <1>4. /\ idleList[i].conn \in Conns /\ idleList[i].conn \in ConnsOf(idleList)
        /\ madeFor[idleList[i].conn] = key[r]
    BY <1>2 DEF ConnsOf, IInv, PooledPeer, Entries
  <1>5. /\ ConnsOf(idleList') = ConnsOf(idleList) \ {idleList[i].conn}
        /\ \A j \in DOMAIN idleList' : \E k \in DOMAIN idleList : idleList'[j] = idleList[k]
    BY <1>1, <1>2, <1>3, LeavesPoolFacts
  <1> DEFINE c == idleList[i].conn
  <1>6. c \in Conns
    BY <1>4
  <1> HIDE DEF c
  <1>7. /\ c \in ConnsOf(idleList) /\ ConnsOf(idleList') = ConnsOf(idleList) \ {c} /\ madeFor[c] = key[r]
        /\ \/ conn' = [conn EXCEPT ![r] = c] /\ pc' = [pc EXCEPT ![r] = "send"] /\ UNCHANGED net
           \/ ShutdownClose({c}) /\ pc' = [pc EXCEPT ![r] = "open"] /\ UNCHANGED conn
    BY <1>1, <1>4, <1>5 DEF c
  <1> QED BY <1>3, <1>5, <1>6, <1>7

\* A failed attempt.
LEMMA AttemptFailsFacts ==
  ASSUME IInv, NEW r \in Requests, NEW retry \in BOOLEAN, pc[r] \in {"send", "read"}, AttemptFails(r, retry)
  PROVE  /\ ShutdownClose({conn[r]})
         /\ conn' = [conn EXCEPT ![r] = None]
         /\ attempt' = [attempt EXCEPT ![r] = attempt[r] + 1]
         /\ attempt[r] \in {0, 1}
         /\ \E step \in {"take", "failed", "exhausted"} :
              /\ pc' = [pc EXCEPT ![r] = step]
              /\ step = "take" => retry /\ attempt[r] = 0
              /\ retry => step # "failed"
         /\ UNCHANGED <<pool, key, fresh, hops, method, toClose, got, served>>
  <1>1. attempt[r] \in 0 .. 2 /\ attempt[r] <= 1
    BY HolderFacts DEF IInv, TypeOK
  <1> DEFINE step == IF ~retry THEN "failed" ELSE IF attempt[r] < 1 THEN "take" ELSE "exhausted"
  <1>2. /\ pc' = [pc EXCEPT ![r] = step] /\ step \in {"take", "failed", "exhausted"}
        /\ step = "take" => retry /\ attempt[r] = 0
        /\ retry => step # "failed"
    BY <1>1 DEF AttemptFails, Goto
  <1> HIDE DEF step
  <1>3. /\ ShutdownClose({conn[r]}) /\ conn' = [conn EXCEPT ![r] = None]
        /\ attempt' = [attempt EXCEPT ![r] = attempt[r] + 1]
        /\ UNCHANGED <<pool, key, fresh, hops, method, toClose, got, served>>
    BY DEF AttemptFails
  <1>4. attempt[r] \in {0, 1}
    BY <1>1
  <1> QED BY <1>2, <1>3, <1>4

LEMMA FailureCases ==
  ASSUME NEW r, SendFails(r) \/ ReadFails(r)
  PROVE  \E retry \in BOOLEAN :
           /\ pc[r] \in {"send", "read"} /\ AttemptFails(r, retry)
           /\ pc[r] = "read" /\ retry => method[r] = "safe"
  BY DEF SendFails, ReadFails, Retryable

LEMMA TypeStep ==
  ASSUME IInv, [Next]_vars
  PROVE  NetType' /\ CallType'
  <1> USE TypesNow
  <1>1. CASE UNCHANGED vars
    BY <1>1 DEF vars, NetType, CallType
  <1>2. ASSUME NEW r \in Requests, NEW k \in Keys, Begin(r, k)
        PROVE  NetType' /\ CallType'
    BY <1>2 DEF Begin, Goto, net, pool, NetType, CallType, Steps
  <1>3. ASSUME NEW r \in Requests,
               Refuse(r) \/ NothingIdle(r) \/ OpenFails(r) \/ Return(r) \/ RedirectFails(r)
        PROVE  NetType' /\ CallType'
    BY <1>3 DEF Refuse, NothingIdle, OpenFails, Return, RedirectFails, Goto, net, pool, call, NetType, CallType, Steps, Ended
  <1>4. ASSUME NEW r \in Requests, TakeIdle(r)
        PROVE  NetType' /\ CallType'
    <2>1. PICK c \in Conns :
            /\ fresh' = fresh \ {r}
            /\ UNCHANGED <<closed, key, attempt, hops, method, toClose, got, served>>
            /\ \/ conn' = [conn EXCEPT ![r] = c] /\ pc' = [pc EXCEPT ![r] = "send"] /\ UNCHANGED net
               \/ ShutdownClose({c}) /\ pc' = [pc EXCEPT ![r] = "open"] /\ UNCHANGED conn
      BY <1>4, TakeIdleFacts
    <2>2. NetType'
      BY <2>1, ShutdownFacts DEF NetType, net
    <2>3. CallType'
      BY <2>1 DEF CallType, Steps
    <2> QED BY <2>2, <2>3
  <1>5. ASSUME NEW r \in Requests, NEW c \in Conns, Open(r, c)
        PROVE  NetType' /\ CallType'
    BY <1>5 DEF Open, Goto, pool, NetType, CallType, Steps
  <1>6. ASSUME NEW r \in Requests, Send(r)
        PROVE  NetType' /\ CallType'
    BY <1>6 DEF Send, Goto, pool, call, NetType, CallType, Steps
  <1>7. ASSUME NEW r \in Requests, SendFails(r) \/ ReadFails(r)
        PROVE  NetType' /\ CallType'
    <2>1. PICK retry \in BOOLEAN : pc[r] \in {"send", "read"} /\ AttemptFails(r, retry)
      BY <1>7, FailureCases
    <2>2. NetType'
      BY <2>1, AttemptFailsFacts, ShutdownFacts
    <2>3. PICK step \in {"take", "failed", "exhausted"} :
            /\ pc' = [pc EXCEPT ![r] = step] /\ conn' = [conn EXCEPT ![r] = None]
            /\ attempt' = [attempt EXCEPT ![r] = attempt[r] + 1] /\ attempt[r] \in {0, 1}
            /\ UNCHANGED <<pool, key, fresh, hops, method, toClose, got, served>>
      BY <2>1, AttemptFailsFacts
    <2>4. CallType'
      BY <2>3 DEF CallType, Steps, Ended, pool
    <2> QED BY <2>2, <2>4
  <1>8. ASSUME NEW r \in Requests, NEW keepalive \in BOOLEAN, Read(r, keepalive)
        PROVE  NetType' /\ CallType'
    <2>1. conn[r] \in Conns
      BY <1>8, HolderFacts DEF Read
    <2>2. NetType'
      BY <1>8, <2>1, ShutdownFacts DEF Read, NetType
    <2>3. CallType'
      BY <1>8, <2>1 DEF Read, Goto, pool, NetType, CallType, Steps
    <2> QED BY <2>2, <2>3
  <1>9. ASSUME NEW r \in Requests, ReturnIdle(r)
        PROVE  NetType' /\ CallType'
    <2>1. conn[r] \in Conns /\ ConnsOf(idleList) \subseteq Conns
      BY <1>9, HolderFacts, PoolFacts DEF ReturnIdle
    <2>2. toClose' = [toClose EXCEPT ![r] = (ConnsOf(idleList) \cup {conn[r]}) \ ConnsOf(idleList')]
      BY <1>9, ReturnIdleFacts
    <2>3. /\ conn' = [conn EXCEPT ![r] = None] /\ pc' = [pc EXCEPT ![r] = "close"]
          /\ UNCHANGED <<closed, net, call>>
      BY <1>9 DEF ReturnIdle, Goto
    <2>4. toClose' \in [Requests -> SUBSET Conns]
      BY <2>1, <2>2 DEF CallType
    <2> QED BY <2>3, <2>4 DEF NetType, CallType, net, call, Steps
  <1>10. ASSUME NEW r \in Requests, CloseDisplaced(r)
         PROVE  NetType' /\ CallType'
    <2>1. NetType'
      BY <1>10, ShutdownFacts DEF CloseDisplaced
    <2>2. CallType'
      BY <1>10 DEF CloseDisplaced, Goto, pool, call, CallType, Steps
    <2> QED BY <2>1, <2>2
  <1>11. ASSUME NEW r \in Requests, NEW k \in Keys, NEW m \in {"safe", "unsafe"}, Redirect(r, k, m)
         PROVE  NetType' /\ CallType'
    <2>1. NextHop(r) \in 0 .. MaxRedirects
      BY <1>11, SessionAssumption DEF Redirect, NextHop, CallType
    <2> QED BY <1>11, <2>1 DEF Redirect, Goto, pool, net, NetType, CallType, Steps
  <1>12. CASE Close
    BY <1>12, ShutdownFacts DEF Close, call, CallType
  <1>13. ASSUME NEW i \in DOMAIN idleList, Expire(i)
         PROVE  NetType' /\ CallType'
    BY <1>13 DEF Expire, net, call, NetType, CallType
  <1>14. ASSUME NEW c \in Conns, PeerCloses(c)
         PROVE  NetType' /\ CallType'
    BY <1>14 DEF PeerCloses, pool, call, NetType, CallType
  <1>15. ASSUME NEW c \in Conns, NEW answers \in BOOLEAN, Serve(c, answers)
         PROVE  NetType' /\ CallType'
    <2>1. /\ wire[c] \in Requests
          /\ wire' = [wire EXCEPT ![c] = None]
          /\ served' = [served EXCEPT ![wire[c]] = served[wire[c]] + 1]
          /\ reply' = (IF answers THEN [reply EXCEPT ![c] = wire[c]] ELSE reply)
          /\ peerUp' \subseteq peerUp
          /\ UNCHANGED <<pool, open, madeFor, pc, conn, key, fresh, attempt, hops, method, toClose, got>>
      BY <1>15 DEF Serve, NetType
    <2>2. served[wire[c]] \in 0 .. 1
      <3>1. pc[wire[c]] = "read"
        BY <2>1, <1>15 DEF Serve, IInv, WireOwned
      <3>2. attempt[wire[c]] <= 1 /\ served[wire[c]] <= attempt[wire[c]] + 1
            /\ served[wire[c]] # attempt[wire[c]] + 1
        BY <2>1, <3>1 DEF IInv, AttemptsBounded
      <3> QED BY <2>1, <3>2 DEF CallType
    <2> QED BY <2>1, <2>2 DEF pool, NetType, CallType
  <1> QED
    BY <1>1, <1>2, <1>3, <1>4, <1>5, <1>6, <1>7, <1>8, <1>9, <1>10, <1>11, <1>12, <1>13, <1>14, <1>15 DEF Next, Step

-----------------------------------------------------------------------------
(* Owners of connections.                                                    *)

\* What a request holds, given the connections in use and those to be closed.
Uses(r, using, closing) == {c \in Conns : c = using[r] \/ c \in closing[r]}

\* The pool and the requests divide the open connections among them.
Divided(idle, using, closing, opened) ==
  /\ \A r \in Requests : Uses(r, using, closing) \cap idle = {}
  /\ \A r, q \in Requests : r # q => Uses(r, using, closing) \cap Uses(q, using, closing) = {}
  /\ \A c : c \in opened <=> c \in idle \/ \E r \in Requests : c \in Uses(r, using, closing)

\* The same in the words of OneOwner and NoLeak.
OwnedApart(idle, using, closing, opened) ==
  /\ \A r \in Requests :
       /\ using[r] \notin idle
       /\ closing[r] \cap idle = {}
       /\ \A q \in Requests \ {r} :
            /\ using[r] # None => using[q] # using[r] /\ using[r] \notin closing[q]
            /\ closing[r] \cap closing[q] = {}
  /\ opened = idle \cup {c \in Conns : \E r \in Requests : c = using[r] \/ c \in closing[r]}

LEMMA DividedMeansOwned ==
  ASSUME NEW idle \in SUBSET Conns, NEW using \in [Requests -> Conns \cup {None}],
         NEW closing \in [Requests -> SUBSET Conns], NEW opened
  PROVE  Divided(idle, using, closing, opened) <=> OwnedApart(idle, using, closing, opened)
  <1> DEFINE U(r) == Uses(r, using, closing)
  <1>1. \A r \in Requests : \A c : c \in U(r) <=> (c \in Conns /\ c = using[r]) \/ c \in closing[r]
    BY DEF Uses
  <1>2. None \notin Conns
    BY SessionAssumption
  <1>3. (\A r \in Requests : U(r) \cap idle = {})
          <=> \A r \in Requests : using[r] \notin idle /\ closing[r] \cap idle = {}
    BY <1>1, <1>2
  <1>4. (\A r, q \in Requests : r # q => U(r) \cap U(q) = {})
          <=> \A r \in Requests : \A q \in Requests \ {r} :
                /\ using[r] # None => using[q] # using[r] /\ using[r] \notin closing[q]
                /\ closing[r] \cap closing[q] = {}
    BY <1>1, <1>2
  <1>5. (\A c : c \in opened <=> c \in idle \/ \E r \in Requests : c \in U(r))
          <=> opened = idle \cup {c \in Conns : \E r \in Requests : c = using[r] \/ c \in closing[r]}
    BY <1>1
  <1> QED BY <1>3, <1>4, <1>5 DEF Divided, OwnedApart

\* One request exchanges connections with the pool, opens some that were not
\* open and closes some that were its own.
LEMMA DividedStep ==
  ASSUME NEW idle, NEW using, NEW closing, NEW opened, Divided(idle, using, closing, opened),
         NEW idleNext, NEW usingNext, NEW closingNext, NEW openedNext, NEW r \in Requests,
         \A q \in Requests : q # r => usingNext[q] = using[q] /\ closingNext[q] = closing[q],
         idleNext \cap Uses(r, usingNext, closingNext) = {},
         \A c : c \in idleNext \/ c \in Uses(r, usingNext, closingNext)
                  => c \in idle \/ c \in Uses(r, using, closing) \/ c \notin opened,
         \A c : c \in openedNext <=>
                  \/ c \in idleNext \/ c \in Uses(r, usingNext, closingNext)
                  \/ c \in opened /\ c \notin idle /\ c \notin Uses(r, using, closing)
  PROVE  Divided(idleNext, usingNext, closingNext, openedNext)
  <1> DEFINE U(q) == Uses(q, using, closing)
             V(q) == Uses(q, usingNext, closingNext)
  <1>1. \A q \in Requests : q # r => V(q) = U(q)
    BY DEF Uses
  <1> HIDE DEF U, V
  <1>2. /\ \A q \in Requests : U(q) \cap idle = {}
        /\ \A p, q \in Requests : p # q => U(p) \cap U(q) = {}
        /\ \A c : c \in opened <=> c \in idle \/ \E q \in Requests : c \in U(q)
    BY DEF Divided, U
  <1>3. /\ idleNext \cap V(r) = {}
        /\ \A c : c \in idleNext \/ c \in V(r) => c \in idle \/ c \in U(r) \/ c \notin opened
        /\ \A c : c \in openedNext <=> \/ c \in idleNext \/ c \in V(r)
                                       \/ c \in opened /\ c \notin idle /\ c \notin U(r)
    BY DEF U, V
  <1>4. \A q \in Requests : V(q) \cap idleNext = {}
    BY <1>1, <1>2, <1>3
  <1>5. \A p, q \in Requests : p # q => V(p) \cap V(q) = {}
    BY <1>1, <1>2, <1>3
  <1>6. \A c : c \in openedNext <=> c \in idleNext \/ \E q \in Requests : c \in V(q)
    BY <1>1, <1>2, <1>3
  <1> QED BY <1>4, <1>5, <1>6 DEF Divided, V

LEMMA DividedNow ==
  ASSUME IInv
  PROVE  /\ Divided(ConnsOf(idleList), conn, toClose, open)
         /\ \A r \in Requests : conn[r] = None => Uses(r, conn, toClose) = toClose[r]
  <1>1. OwnedApart(ConnsOf(idleList), conn, toClose, open)
    BY DEF IInv, ConnectionsExact, OneOwner, NoLeak, OwnedApart
  <1>2. Divided(ConnsOf(idleList), conn, toClose, open)
    BY <1>1, TypesNow, PoolFacts, DividedMeansOwned DEF CallType
  <1> QED BY <1>2, TypesNow, SessionAssumption DEF Uses, CallType

LEMMA DividedNext ==
  ASSUME IInv, [Next]_vars
  PROVE  Divided(ConnsOf(idleList'), conn', toClose', open')
  <1> DEFINE P == ConnsOf(idleList)
             Pn == ConnsOf(idleList')
             U(r) == Uses(r, conn, toClose)
             V(r) == Uses(r, conn', toClose')
  <1>0. Divided(P, conn, toClose, open) /\ P \subseteq Conns
    BY DividedNow, PoolFacts
  <1>t. CallType /\ NetType /\ None \notin Conns
    BY TypesNow, SessionAssumption
  <1>1. CASE UNCHANGED <<idleList, conn, toClose, open>>
    BY <1>0, <1>1
  <1>2. ASSUME NEW r \in Requests, TakeIdle(r)
        PROVE  Divided(Pn, conn', toClose', open')
    <2>1. PICK c \in Conns :
            /\ c \in P /\ Pn = P \ {c} /\ pc[r] = "take" /\ toClose' = toClose
            /\ \/ conn' = [conn EXCEPT ![r] = c] /\ UNCHANGED net
               \/ ShutdownClose({c}) /\ UNCHANGED conn
      BY <1>2, TakeIdleFacts
    <2>2. conn[r] = None /\ toClose[r] = {}
      BY <2>1 DEF IInv, Held
    <2> HIDE DEF P, Pn
    <2>3. P \subseteq open /\ U(r) = {}
      BY <1>0, <1>t, <2>2 DEF Divided, Uses
    <2>4. CASE conn' = [conn EXCEPT ![r] = c] /\ UNCHANGED net
      <3>1. V(r) = {c} /\ open' = open
        BY <1>t, <2>1, <2>2, <2>4 DEF Uses, CallType, net
      <3>2. \A q \in Requests : q # r => conn'[q] = conn[q] /\ toClose'[q] = toClose[q]
        BY <1>t, <2>1, <2>4 DEF CallType
      <3> HIDE DEF U, V
      <3> QED BY <1>0, <2>1, <2>3, <3>1, <3>2, DividedStep DEF U, V
    <2>5. CASE ShutdownClose({c}) /\ UNCHANGED conn
      <3>1. V(r) = {} /\ open' = open \ {c}
        BY <2>1, <2>2, <2>3, <2>5 DEF Uses, ShutdownClose
      <3>2. \A q \in Requests : q # r => conn'[q] = conn[q] /\ toClose'[q] = toClose[q]
        BY <2>1, <2>5
      <3> QED BY <1>0, <2>1, <2>3, <3>1, <3>2, DividedStep
    <2> QED BY <2>1, <2>4, <2>5
  <1>3. ASSUME NEW r \in Requests, NEW c \in Conns, Open(r, c)
        PROVE  Divided(Pn, conn', toClose', open')
    <2>1. /\ c \notin open /\ open' = open \cup {c} /\ conn' = [conn EXCEPT ![r] = c]
          /\ toClose' = toClose /\ Pn = P /\ pc[r] = "open"
      BY <1>3 DEF Open, pool
    <2>2. conn[r] = None /\ toClose[r] = {}
      BY <2>1 DEF IInv, Held
    <2> HIDE DEF P, Pn
    <2>3. U(r) = {} /\ V(r) = {c} /\ P \subseteq open
      BY <1>0, <1>t, <2>1, <2>2 DEF Uses, CallType, Divided
    <2>4. \A q \in Requests : q # r => conn'[q] = conn[q] /\ toClose'[q] = toClose[q]
      BY <1>t, <2>1 DEF CallType
    <2>5. /\ Pn \cap V(r) = {}
          /\ \A x : x \in Pn \/ x \in V(r) => x \in P \/ x \in U(r) \/ x \notin open
          /\ \A x : x \in open' <=> \/ x \in Pn \/ x \in V(r)
                                    \/ x \in open /\ x \notin P /\ x \notin U(r)
      BY <1>0, <2>1, <2>3
    <2> QED BY <1>0, <2>4, <2>5, DividedStep
  <1>4. ASSUME NEW r \in Requests, pc[r] \in {"send", "read", "return"},
               ShutdownClose({conn[r]}), conn' = [conn EXCEPT ![r] = None], UNCHANGED <<idleList, toClose>>
        PROVE  Divided(Pn, conn', toClose', open')
    <2>1. conn[r] \in Conns /\ toClose[r] = {}
      BY <1>4, HolderFacts
    <2>2. open' = open \ {conn[r]} /\ Pn = P
      BY <1>4 DEF ShutdownClose
    <2> HIDE DEF P, Pn
    <2>3. U(r) = {conn[r]} /\ V(r) = {}
      BY <1>4, <1>t, <2>1 DEF Uses, CallType
    <2>4. \A q \in Requests : q # r => conn'[q] = conn[q] /\ toClose'[q] = toClose[q]
      BY <1>t, <1>4 DEF CallType
    <2>5. P \cap U(r) = {} /\ P \subseteq open
      BY <1>0 DEF Divided
    <2> QED BY <1>0, <2>2, <2>3, <2>4, <2>5, DividedStep
  <1>5. ASSUME NEW r \in Requests, SendFails(r) \/ ReadFails(r)
        PROVE  Divided(Pn, conn', toClose', open')
    <2>1. PICK retry \in BOOLEAN : pc[r] \in {"send", "read"} /\ AttemptFails(r, retry)
      BY <1>5, FailureCases
    <2>2. ShutdownClose({conn[r]}) /\ conn' = [conn EXCEPT ![r] = None] /\ UNCHANGED <<idleList, toClose>>
      BY <2>1 DEF AttemptFails, pool
    <2> QED BY <1>4, <2>1, <2>2
  <1>6. ASSUME NEW r \in Requests, NEW keepalive \in BOOLEAN, Read(r, keepalive)
        PROVE  Divided(Pn, conn', toClose', open')
    <2>1. CASE keepalive
      BY <1>1, <1>6, <2>1 DEF Read, pool
    <2>2. CASE ~keepalive
      <3>1. /\ pc[r] = "read" /\ ShutdownClose({conn[r]}) /\ conn' = [conn EXCEPT ![r] = None]
            /\ UNCHANGED <<idleList, toClose>>
        BY <1>6, <2>2 DEF Read, pool
      <3> QED BY <1>4, <3>1
    <2> QED BY <2>1, <2>2
  <1>7. ASSUME NEW r \in Requests, ReturnIdle(r)
        PROVE  Divided(Pn, conn', toClose', open')
    <2>1. /\ Pn \subseteq P \cup {conn[r]}
          /\ toClose' = [toClose EXCEPT ![r] = (P \cup {conn[r]}) \ Pn]
      BY <1>7, ReturnIdleFacts
    <2>2. pc[r] = "return" /\ conn' = [conn EXCEPT ![r] = None] /\ open' = open
      BY <1>7 DEF ReturnIdle, net
    <2>3. conn[r] \in Conns /\ toClose[r] = {}
      BY <2>2, HolderFacts
    <2> HIDE DEF P, Pn
    <2>4. U(r) = {conn[r]} /\ V(r) = (P \cup {conn[r]}) \ Pn
      BY <1>0, <1>t, <2>1, <2>2, <2>3 DEF Uses, CallType
    <2>5. \A q \in Requests : q # r => conn'[q] = conn[q] /\ toClose'[q] = toClose[q]
      BY <1>t, <2>1, <2>2 DEF CallType
    <2>6. P \subseteq open /\ U(r) \subseteq open
      BY <1>0 DEF Divided
    <2>7. /\ Pn \cap V(r) = {}
          /\ \A x : x \in Pn \/ x \in V(r) => x \in P \/ x \in U(r) \/ x \notin open
          /\ \A x : x \in open' <=> \/ x \in Pn \/ x \in V(r)
                                    \/ x \in open /\ x \notin P /\ x \notin U(r)
      BY <2>1, <2>2, <2>4, <2>6
    <2> QED BY <1>0, <2>5, <2>7, DividedStep
  <1>8. ASSUME NEW r \in Requests, CloseDisplaced(r)
        PROVE  Divided(Pn, conn', toClose', open')
    <2>1. /\ pc[r] = "close" /\ open' = open \ toClose[r] /\ toClose' = [toClose EXCEPT ![r] = {}]
          /\ conn' = conn /\ Pn = P
      BY <1>8 DEF CloseDisplaced, ShutdownClose, pool
    <2>2. conn[r] = None
      BY <2>1 DEF IInv, Held
    <2> HIDE DEF P, Pn
    <2>3. U(r) = toClose[r] /\ V(r) = {}
      BY <1>t, <2>1, <2>2, DividedNow DEF Uses, CallType
    <2>4. \A q \in Requests : q # r => conn'[q] = conn[q] /\ toClose'[q] = toClose[q]
      BY <1>t, <2>1 DEF CallType
    <2>5. P \cap U(r) = {} /\ P \subseteq open
      BY <1>0 DEF Divided
    <2>6. /\ Pn \cap V(r) = {}
          /\ \A x : x \in Pn \/ x \in V(r) => x \in P \/ x \in U(r) \/ x \notin open
          /\ \A x : x \in open' <=> \/ x \in Pn \/ x \in V(r)
                                    \/ x \in open /\ x \notin P /\ x \notin U(r)
      BY <2>1, <2>3, <2>5
    <2> QED BY <1>0, <2>4, <2>6, DividedStep
  <1>9. CASE Close
    <2>1. idleList' = <<>> /\ open' = open \ P /\ UNCHANGED <<conn, toClose>>
      BY <1>9 DEF Close, ShutdownClose
    <2>2. Pn = {}
      BY <2>1 DEF ConnsOf
    <2>3. Divided({}, conn, toClose, open \ P)
      <3> HIDE DEF P
      <3> QED BY <1>0 DEF Divided
    <2> QED BY <2>1, <2>2, <2>3
  <1>10. ASSUME NEW i \in DOMAIN idleList, Expire(i)
         PROVE  Divided(Pn, conn', toClose', open')
    BY <1>0, <1>10, ExpireFacts DEF Expire, net
  <1>11. ASSUME NEW r \in Requests,
                \/ Refuse(r) \/ NothingIdle(r) \/ OpenFails(r) \/ Return(r) \/ RedirectFails(r) \/ Send(r)
         PROVE  Divided(Pn, conn', toClose', open')
    BY <1>1, <1>11 DEF Refuse, NothingIdle, OpenFails, Return, RedirectFails, Send, pool, net
  <1>12. ASSUME NEW r \in Requests, NEW k \in Keys,
                Begin(r, k) \/ \E m \in {"safe", "unsafe"} : Redirect(r, k, m)
         PROVE  Divided(Pn, conn', toClose', open')
    BY <1>1, <1>12 DEF Begin, Redirect, pool, net
  <1>13. ASSUME NEW c \in Conns, PeerCloses(c) \/ \E answers \in BOOLEAN : Serve(c, answers)
         PROVE  Divided(Pn, conn', toClose', open')
    BY <1>1, <1>13 DEF PeerCloses, Serve, pool
  <1>14. CASE UNCHANGED vars
    BY <1>1, <1>14 DEF vars
  <1>15. ASSUME NEW r \in Requests, Step(r)
         PROVE  Divided(Pn, conn', toClose', open')
    BY <1>2, <1>3, <1>5, <1>6, <1>7, <1>8, <1>11, <1>12, <1>15 DEF Step
  <1> QED BY <1>9, <1>10, <1>11, <1>12, <1>13, <1>14, <1>15 DEF Next

-----------------------------------------------------------------------------
(* What a request has at each step.                                          *)

LEMMA HeldStep ==
  ASSUME IInv, [Next]_vars
  PROVE  Held'
  <1> USE DEF Held
  <1>h. Held /\ CallType /\ None \notin Conns
    BY TypesNow, SessionAssumption DEF IInv
  <1>1. CASE UNCHANGED <<pc, conn, toClose, key>>
    BY <1>h, <1>1
  <1>2. ASSUME NEW r \in Requests, TakeIdle(r)
        PROVE  Held'
    <2>1. PICK c \in Conns :
            /\ pc[r] = "take" /\ UNCHANGED <<key, toClose>>
            /\ \/ conn' = [conn EXCEPT ![r] = c] /\ pc' = [pc EXCEPT ![r] = "send"]
               \/ pc' = [pc EXCEPT ![r] = "open"] /\ UNCHANGED conn
      BY <1>2, TakeIdleFacts
    <2> QED BY <1>h, <2>1 DEF CallType
  <1>3. ASSUME NEW r \in Requests, NEW c \in Conns, Open(r, c)
        PROVE  Held'
    BY <1>h, <1>3 DEF Open, Goto, CallType
  <1>4. ASSUME NEW r \in Requests, SendFails(r) \/ ReadFails(r)
        PROVE  Held'
    <2>1. PICK retry \in BOOLEAN : pc[r] \in {"send", "read"} /\ AttemptFails(r, retry)
      BY <1>4, FailureCases
    <2>2. PICK step \in {"take", "failed", "exhausted"} :
            /\ pc' = [pc EXCEPT ![r] = step] /\ conn' = [conn EXCEPT ![r] = None]
            /\ UNCHANGED <<key, toClose>>
      BY <2>1, AttemptFailsFacts
    <2> QED BY <1>h, <2>1, <2>2 DEF CallType
  <1>5. ASSUME NEW r \in Requests, NEW keepalive \in BOOLEAN, Read(r, keepalive)
        PROVE  Held'
    <2>1. /\ pc[r] = "read" /\ UNCHANGED <<key, toClose>>
          /\ \/ pc' = [pc EXCEPT ![r] = "return"] /\ UNCHANGED conn
             \/ pc' = [pc EXCEPT ![r] = "answered"] /\ conn' = [conn EXCEPT ![r] = None]
      BY <1>5 DEF Read, Goto
    <2> QED BY <1>h, <2>1 DEF CallType
  <1>6. ASSUME NEW r \in Requests, ReturnIdle(r)
        PROVE  Held'
    <2>1. PICK cs : toClose' = [toClose EXCEPT ![r] = cs]
      BY <1>6, ReturnIdleFacts
    <2>2. /\ pc[r] = "return" /\ pc' = [pc EXCEPT ![r] = "close"] /\ conn' = [conn EXCEPT ![r] = None]
          /\ key' = key
      BY <1>6 DEF ReturnIdle, Goto, call
    <2> QED BY <1>h, <2>1, <2>2 DEF CallType
  <1>7. ASSUME NEW r \in Requests, CloseDisplaced(r)
        PROVE  Held'
    BY <1>h, <1>7 DEF CloseDisplaced, Goto, call, CallType
  <1>8. ASSUME NEW r \in Requests, NEW k \in Keys,
               Begin(r, k) \/ \E m \in {"safe", "unsafe"} : Redirect(r, k, m)
        PROVE  Held'
    BY <1>h, <1>8 DEF Begin, Redirect, Goto, CallType
  <1>9. ASSUME NEW r \in Requests,
               \/ Refuse(r) \/ NothingIdle(r) \/ OpenFails(r) \/ Return(r) \/ RedirectFails(r) \/ Send(r)
        PROVE  Held'
    BY <1>h, <1>9 DEF Refuse, NothingIdle, OpenFails, Return, RedirectFails, Send, Goto, call, CallType
  <1>10. CASE Close
    BY <1>1, <1>10 DEF Close, call
  <1>11. ASSUME NEW i \in DOMAIN idleList, Expire(i)
         PROVE  Held'
    BY <1>1, <1>11 DEF Expire, call
  <1>12. ASSUME NEW c \in Conns, PeerCloses(c) \/ \E answers \in BOOLEAN : Serve(c, answers)
         PROVE  Held'
    BY <1>1, <1>12 DEF PeerCloses, Serve, call
  <1>13. CASE UNCHANGED vars
    BY <1>1, <1>13 DEF vars
  <1>14. ASSUME NEW r \in Requests, Step(r)
         PROVE  Held'
    BY <1>2, <1>3, <1>4, <1>5, <1>6, <1>7, <1>8, <1>9, <1>14 DEF Step
  <1> QED BY <1>8, <1>9, <1>10, <1>11, <1>12, <1>13, <1>14 DEF Next

-----------------------------------------------------------------------------
(* Connections and the peers they were opened for.                           *)

Peers == RightPeer /\ PooledPeer

LEMMA PeersNow ==
  ASSUME IInv
  PROVE  /\ \A r \in Requests : conn[r] # None => /\ madeFor[conn[r]] = key[r] /\ conn[r] \in Conns
                                                  /\ conn[r] \in open /\ conn[r] \notin ConnsOf(idleList)
                                                  /\ pc[r] \in {"send", "read", "return"}
         /\ \A i \in DOMAIN idleList : /\ madeFor[idleList[i].conn] = idleList[i].key
                                      /\ idleList[i].conn \in Conns /\ idleList[i].conn \in open
                                      /\ idleList[i].conn \in ConnsOf(idleList)
  <1>1. ASSUME NEW r \in Requests, conn[r] # None
        PROVE  /\ madeFor[conn[r]] = key[r] /\ conn[r] \in Conns /\ conn[r] \in open
               /\ conn[r] \notin ConnsOf(idleList) /\ pc[r] \in {"send", "read", "return"}
    <2>1. pc[r] \in {"send", "read", "return"}
      BY <1>1 DEF IInv, Held
    <2> QED BY <2>1, HolderFacts
  <1>2. ASSUME NEW i \in DOMAIN idleList
        PROVE  /\ madeFor[idleList[i].conn] = idleList[i].key
               /\ idleList[i].conn \in Conns /\ idleList[i].conn \in open
               /\ idleList[i].conn \in ConnsOf(idleList)
    <2>1. idleList[i].conn \in ConnsOf(idleList)
      BY DEF ConnsOf
    <2>2. idleList[i].conn \in Conns /\ idleList[i].conn \in open
      BY <2>1, PoolFacts, DividedNow DEF Divided
    <2> QED BY <2>1, <2>2 DEF IInv, PooledPeer
  <1> QED BY <1>1, <1>2

\* Closing connections that neither a request nor the pool is left with.
LEMMA PeersAfterShutdown ==
  ASSUME IInv, NEW cs, ShutdownClose(cs), key' = key,
         \A r \in Requests : conn'[r] # None => conn'[r] = conn[r] /\ conn[r] \notin cs,
         \A i \in DOMAIN idleList' : \E j \in DOMAIN idleList : idleList'[i] = idleList[j],
         ConnsOf(idleList') \cap cs = {}
  PROVE  Peers'
  <1>1. \A c \in Conns \ cs : madeFor'[c] = madeFor[c]
    BY TypesNow, ShutdownFacts
  <1>2. ASSUME NEW r \in Requests, conn'[r] # None
        PROVE  madeFor'[conn'[r]] = key'[r]
    BY <1>1, <1>2, PeersNow
  <1>3. ASSUME NEW i \in DOMAIN idleList'
        PROVE  madeFor'[idleList'[i].conn] = idleList'[i].key
    <2>1. idleList'[i].conn \in ConnsOf(idleList')
      BY DEF ConnsOf
    <2>2. PICK j \in DOMAIN idleList : idleList'[i] = idleList[j]
      OBVIOUS
    <2>3. madeFor[idleList'[i].conn] = idleList'[i].key /\ idleList'[i].conn \in Conns
      BY <2>2, PeersNow
    <2> QED BY <1>1, <2>1, <2>3
  <1> QED BY <1>2, <1>3 DEF Peers, RightPeer, PooledPeer

LEMMA PeersStep ==
  ASSUME IInv, [Next]_vars
  PROVE  Peers'
  <1>t. CallType /\ NetType /\ None \notin Conns /\ Peers
    BY TypesNow, SessionAssumption DEF IInv, ConnectionsExact, Peers
  <1>1. CASE UNCHANGED <<key, conn, madeFor, idleList>>
    BY <1>1, <1>t DEF Peers, RightPeer, PooledPeer
  <1>2. ASSUME NEW r \in Requests, TakeIdle(r)
        PROVE  Peers'
    <2>1. PICK c \in Conns :
            /\ c \in ConnsOf(idleList) /\ ConnsOf(idleList') = ConnsOf(idleList) \ {c}
            /\ madeFor[c] = key[r] /\ key' = key
            /\ \A j \in DOMAIN idleList' : \E k \in DOMAIN idleList : idleList'[j] = idleList[k]
            /\ \/ conn' = [conn EXCEPT ![r] = c] /\ UNCHANGED net
               \/ ShutdownClose({c}) /\ UNCHANGED conn
      BY <1>2, TakeIdleFacts
    <2>2. CASE conn' = [conn EXCEPT ![r] = c] /\ UNCHANGED net
      <3>1. RightPeer'
        BY <1>t, <2>1, <2>2 DEF Peers, RightPeer, CallType, net
      <3>2. PooledPeer'
        BY <1>t, <2>1, <2>2 DEF Peers, PooledPeer, net
      <3> QED BY <3>1, <3>2 DEF Peers
    <2>3. CASE ShutdownClose({c}) /\ UNCHANGED conn
      <3>1. \A q \in Requests : conn'[q] # None => conn'[q] = conn[q] /\ conn[q] \notin {c}
        BY <2>1, <2>3, PeersNow
      <3> QED BY <2>1, <2>3, <3>1, PeersAfterShutdown
    <2> QED BY <2>1, <2>2, <2>3
  <1>3. ASSUME NEW r \in Requests, NEW c \in Conns, Open(r, c)
        PROVE  Peers'
    <2>1. /\ c \notin open /\ conn' = [conn EXCEPT ![r] = c] /\ madeFor' = [madeFor EXCEPT ![c] = key[r]]
          /\ UNCHANGED <<key, idleList>>
      BY <1>3 DEF Open, pool
    <2>2. RightPeer'
      BY <1>t, <2>1, PeersNow DEF RightPeer, CallType, NetType
    <2>3. PooledPeer'
      BY <1>t, <2>1, PeersNow DEF PooledPeer, NetType
    <2> QED BY <2>2, <2>3 DEF Peers
  <1>4. ASSUME NEW r \in Requests, pc[r] \in {"send", "read", "return"}, ShutdownClose({conn[r]}),
               conn' = [conn EXCEPT ![r] = None], UNCHANGED <<key, idleList>>
        PROVE  Peers'
    <2>1. conn[r] \notin ConnsOf(idleList) /\ \A q \in Requests : q # r => conn[q] # conn[r]
      BY <1>4, HolderFacts
    <2>2. \A q \in Requests : conn'[q] # None => conn'[q] = conn[q] /\ conn[q] \notin {conn[r]}
      BY <1>4, <1>t, <2>1 DEF CallType
    <2> QED BY <1>4, <2>1, <2>2, PeersAfterShutdown
  <1>5. ASSUME NEW r \in Requests, SendFails(r) \/ ReadFails(r)
        PROVE  Peers'
    <2>1. PICK retry \in BOOLEAN : pc[r] \in {"send", "read"} /\ AttemptFails(r, retry)
      BY <1>5, FailureCases
    <2>2. ShutdownClose({conn[r]}) /\ conn' = [conn EXCEPT ![r] = None] /\ UNCHANGED <<idleList, key>>
      BY <2>1 DEF AttemptFails, pool
    <2> QED BY <1>4, <2>1, <2>2
  <1>6. ASSUME NEW r \in Requests, NEW keepalive \in BOOLEAN, Read(r, keepalive)
        PROVE  Peers'
    <2>1. CASE keepalive
      BY <1>1, <1>6, <2>1 DEF Read, pool
    <2>2. CASE ~keepalive
      <3>1. /\ pc[r] = "read" /\ ShutdownClose({conn[r]}) /\ conn' = [conn EXCEPT ![r] = None]
            /\ UNCHANGED <<idleList, key>>
        BY <1>6, <2>2 DEF Read, pool
      <3> QED BY <1>4, <3>1
    <2> QED BY <2>1, <2>2
  <1>7. ASSUME NEW r \in Requests, ReturnIdle(r)
        PROVE  Peers'
    <2>1. \A j \in DOMAIN idleList' :
            (idleList'[j].key = key[r] /\ idleList'[j].conn = conn[r])
              \/ \E m \in DOMAIN idleList : idleList'[j] = idleList[m]
      BY <1>7, ReturnIdleFacts
    <2>2. pc[r] = "return" /\ conn' = [conn EXCEPT ![r] = None] /\ UNCHANGED <<madeFor, key>>
      BY <1>7 DEF ReturnIdle, net, call
    <2>3. madeFor[conn[r]] = key[r]
      BY <2>2, HolderFacts
    <2>4. RightPeer'
      BY <1>t, <2>2 DEF Peers, RightPeer, CallType
    <2>5. PooledPeer'
      BY <1>t, <2>1, <2>2, <2>3 DEF Peers, PooledPeer
    <2> QED BY <2>4, <2>5 DEF Peers
  <1>8. ASSUME NEW r \in Requests, CloseDisplaced(r)
        PROVE  Peers'
    <2>1. ShutdownClose(toClose[r]) /\ UNCHANGED <<conn, key, idleList>> /\ pc[r] = "close"
      BY <1>8 DEF CloseDisplaced, pool, call
    <2>2. toClose[r] \cap ConnsOf(idleList) = {}
      BY DEF IInv, ConnectionsExact, OneOwner
    <2>3. ASSUME NEW q \in Requests, conn[q] # None
          PROVE  conn[q] \notin toClose[r]
      BY <2>1, <2>3 DEF IInv, ConnectionsExact, OneOwner, Held
    <2> QED BY <2>1, <2>2, <2>3, PeersAfterShutdown
  <1>9. CASE Close
    <2>1. /\ idleList' = <<>> /\ ShutdownClose(ConnsOf(idleList)) /\ UNCHANGED <<conn, key>>
      BY <1>9 DEF Close, call
    <2>2. ConnsOf(idleList') = {} /\ DOMAIN idleList' = {}
      BY <2>1 DEF ConnsOf
    <2>3. \A q \in Requests : conn'[q] # None => conn'[q] = conn[q] /\ conn[q] \notin ConnsOf(idleList)
      BY <2>1, PeersNow
    <2> HIDE DEF Peers
    <2> QED BY <2>1, <2>2, <2>3, PeersAfterShutdown
  <1>10. ASSUME NEW i \in DOMAIN idleList, Expire(i)
         PROVE  Peers'
    BY <1>t, <1>10, ExpireFacts DEF Expire, net, call, Peers, RightPeer, PooledPeer
  <1>11. ASSUME NEW r \in Requests,
               \/ Refuse(r) \/ NothingIdle(r) \/ OpenFails(r) \/ Return(r) \/ RedirectFails(r) \/ Send(r)
         PROVE  Peers'
    BY <1>1, <1>11 DEF Refuse, NothingIdle, OpenFails, Return, RedirectFails, Send, pool, net, call
  <1>12. ASSUME NEW r \in Requests, NEW k \in Keys,
               Begin(r, k) \/ \E m \in {"safe", "unsafe"} : Redirect(r, k, m)
         PROVE  Peers'
    <2>1. pc[r] \in {"idle", "answered"} /\ key' = [key EXCEPT ![r] = k] /\ UNCHANGED <<conn, madeFor, idleList>>
      BY <1>12 DEF Begin, Redirect, pool, net
    <2>2. conn[r] = None
      BY <2>1 DEF IInv, Held
    <2> QED BY <1>t, <2>1, <2>2 DEF Peers, RightPeer, PooledPeer, CallType
  <1>13. ASSUME NEW c \in Conns, PeerCloses(c) \/ \E answers \in BOOLEAN : Serve(c, answers)
         PROVE  Peers'
    BY <1>1, <1>13 DEF PeerCloses, Serve, pool, call
  <1>14. CASE UNCHANGED vars
    BY <1>1, <1>14 DEF vars
  <1>15. ASSUME NEW r \in Requests, Step(r)
         PROVE  Peers'
    BY <1>2, <1>3, <1>5, <1>6, <1>7, <1>8, <1>11, <1>12, <1>15 DEF Step
  <1> QED BY <1>9, <1>10, <1>11, <1>12, <1>13, <1>14, <1>15 DEF Next

-----------------------------------------------------------------------------
(* What is on the connections.                                               *)

\* Who a request or a response on a connection is for.
LEMMA WireNow ==
  ASSUME IInv, NEW c \in Conns
  PROVE  /\ wire[c] # None => /\ wire[c] \in Requests /\ conn[wire[c]] = c /\ pc[wire[c]] = "read"
                              /\ reply[c] = None
         /\ reply[c] # None => reply[c] \in Requests /\ conn[reply[c]] = c /\ pc[reply[c]] = "read"
  BY TypesNow DEF IInv, WireOwned, NetType

\* A step that puts nothing on a connection, and clears those of the requests
\* that stop reading.
LEMMA WireKept ==
  ASSUME IInv, NetType',
         \A c \in Conns : wire'[c] \in {wire[c], None} /\ reply'[c] \in {reply[c], None},
         \A q \in Requests : pc[q] = "read" =>
           \/ pc'[q] = "read" /\ conn'[q] = conn[q]
           \/ wire'[conn[q]] = None /\ reply'[conn[q]] = None
  PROVE  WireOwned'
  BY WireNow DEF WireOwned

LEMMA WireStep ==
  ASSUME IInv, [Next]_vars
  PROVE  WireOwned'
  <1>t. CallType /\ NetType /\ None \notin Conns /\ None \notin Requests /\ NetType'
    BY TypesNow, TypeStep, SessionAssumption
  <1>1. ASSUME UNCHANGED <<wire, reply>>, NEW r \in Requests, pc[r] # "read",
               \A q \in Requests : q # r => pc'[q] = pc[q] /\ conn'[q] = conn[q]
        PROVE  WireOwned'
    BY <1>t, <1>1, WireKept
  <1>2. CASE UNCHANGED <<wire, reply, pc, conn>>
    BY <1>t, <1>2, WireKept
  <1>3. ASSUME NEW r \in Requests, TakeIdle(r)
        PROVE  WireOwned'
    <2>1. PICK c \in Conns :
            /\ pc[r] = "take"
            /\ \/ conn' = [conn EXCEPT ![r] = c] /\ pc' = [pc EXCEPT ![r] = "send"] /\ UNCHANGED net
               \/ ShutdownClose({c}) /\ pc' = [pc EXCEPT ![r] = "open"] /\ UNCHANGED conn
      BY <1>3, TakeIdleFacts
    <2>2. \A d \in Conns : wire'[d] \in {wire[d], None} /\ reply'[d] \in {reply[d], None}
      BY <1>t, <2>1, ShutdownFacts DEF net
    <2>3. \A q \in Requests : pc[q] = "read" => pc'[q] = "read" /\ conn'[q] = conn[q]
      BY <1>t, <2>1 DEF CallType
    <2> QED BY <1>t, <2>2, <2>3, WireKept
  <1>4. ASSUME NEW r \in Requests, NEW c \in Conns, Open(r, c)
        PROVE  WireOwned'
    <2>1. /\ pc[r] = "open" /\ pc' = [pc EXCEPT ![r] = "send"] /\ conn' = [conn EXCEPT ![r] = c]
          /\ UNCHANGED <<wire, reply>>
      BY <1>4 DEF Open, Goto
    <2> QED BY <1>1, <1>t, <2>1 DEF CallType
  <1>5. ASSUME NEW r \in Requests, pc[r] \in {"send", "read", "return"}, ShutdownClose({conn[r]}),
               conn' = [conn EXCEPT ![r] = None], \A q \in Requests : q # r => pc'[q] = pc[q]
        PROVE  WireOwned'
    <2>1. conn[r] \in Conns
      BY <1>5, HolderFacts
    <2>2. /\ \A d \in Conns : wire'[d] \in {wire[d], None} /\ reply'[d] \in {reply[d], None}
          /\ wire'[conn[r]] = None /\ reply'[conn[r]] = None
      BY <1>t, <1>5, <2>1, ShutdownFacts
    <2>3. \A q \in Requests : q # r => pc'[q] = pc[q] /\ conn'[q] = conn[q]
      BY <1>t, <1>5 DEF CallType
    <2> QED BY <1>t, <2>2, <2>3, WireKept
  <1>6. ASSUME NEW r \in Requests, SendFails(r) \/ ReadFails(r)
        PROVE  WireOwned'
    <2>1. PICK retry \in BOOLEAN : pc[r] \in {"send", "read"} /\ AttemptFails(r, retry)
      BY <1>6, FailureCases
    <2>2. /\ ShutdownClose({conn[r]}) /\ conn' = [conn EXCEPT ![r] = None]
          /\ \A q \in Requests : q # r => pc'[q] = pc[q]
      BY <1>t, <2>1 DEF AttemptFails, Goto, CallType
    <2> QED BY <1>5, <2>1, <2>2
  <1>7. ASSUME NEW r \in Requests, NEW keepalive \in BOOLEAN, Read(r, keepalive)
        PROVE  WireOwned'
    <2>1. pc[r] = "read" /\ reply[conn[r]] # None
      BY <1>7 DEF Read
    <2>2. CASE keepalive
      <3>1. conn[r] \in Conns
        BY <2>1, HolderFacts
      <3>2. wire[conn[r]] = None
        BY <2>1, <3>1, WireNow
      <3>3. /\ reply' = [reply EXCEPT ![conn[r]] = None] /\ pc' = [pc EXCEPT ![r] = "return"]
            /\ UNCHANGED <<wire, conn>>
        BY <1>7, <2>2 DEF Read, Goto
      <3>4. /\ \A d \in Conns : wire'[d] \in {wire[d], None} /\ reply'[d] \in {reply[d], None}
            /\ wire'[conn[r]] = None /\ reply'[conn[r]] = None
        BY <1>t, <3>1, <3>2, <3>3 DEF NetType
      <3>5. \A q \in Requests : q # r => pc'[q] = pc[q] /\ conn'[q] = conn[q]
        BY <1>t, <3>3 DEF CallType
      <3> QED BY <1>t, <3>4, <3>5, WireKept
    <2>3. CASE ~keepalive
      <3>1. /\ ShutdownClose({conn[r]}) /\ conn' = [conn EXCEPT ![r] = None]
            /\ \A q \in Requests : q # r => pc'[q] = pc[q]
        BY <1>t, <1>7, <2>3 DEF Read, Goto, CallType
      <3> QED BY <1>5, <2>1, <3>1
    <2> QED BY <2>2, <2>3
  <1>8. ASSUME NEW r \in Requests, Send(r)
        PROVE  WireOwned'
    <2>1. /\ pc[r] = "send" /\ pc' = [pc EXCEPT ![r] = "read"] /\ UNCHANGED <<reply, conn>>
          /\ wire' = IF conn[r] \in peerUp THEN [wire EXCEPT ![conn[r]] = r] ELSE wire
      BY <1>8 DEF Send, Goto, call
    <2>2. conn[r] \in Conns /\ \A q \in Requests : q # r => conn[q] # conn[r]
      BY <2>1, HolderFacts
    <2>3. reply[conn[r]] = None
      BY <2>1, <2>2, WireNow
    <2>4. \A q \in Requests : pc[q] = "read" => pc'[q] = "read"
      BY <1>t, <2>1 DEF CallType
    <2> SUFFICES ASSUME NEW c \in Conns
                 PROVE  /\ wire'[c] # None => /\ conn'[wire'[c]] = c /\ pc'[wire'[c]] = "read"
                                              /\ reply'[c] = None
                        /\ reply'[c] # None => conn'[reply'[c]] = c /\ pc'[reply'[c]] = "read"
      BY DEF WireOwned
    <2>5. CASE wire'[c] = wire[c]
      BY <2>1, <2>4, <2>5, WireNow
    <2>6. CASE wire'[c] # wire[c]
      <3>1. c = conn[r] /\ wire'[c] = r
        BY <1>t, <2>1, <2>2, <2>6 DEF NetType
      <3> QED BY <1>t, <2>1, <2>3, <3>1 DEF CallType
    <2> QED BY <2>5, <2>6
  <1>9. ASSUME NEW r \in Requests, ReturnIdle(r)
        PROVE  WireOwned'
    <2>1. /\ pc[r] = "return" /\ pc' = [pc EXCEPT ![r] = "close"] /\ conn' = [conn EXCEPT ![r] = None]
          /\ UNCHANGED <<wire, reply>>
      BY <1>9 DEF ReturnIdle, Goto, net
    <2> QED BY <1>1, <1>t, <2>1 DEF CallType
  <1>10. ASSUME NEW r \in Requests, CloseDisplaced(r)
         PROVE  WireOwned'
    <2>1. /\ pc[r] = "close" /\ pc' = [pc EXCEPT ![r] = "answered"] /\ conn' = conn
          /\ ShutdownClose(toClose[r])
      BY <1>10 DEF CloseDisplaced, Goto
    <2>2. \A d \in Conns : wire'[d] \in {wire[d], None} /\ reply'[d] \in {reply[d], None}
      BY <1>t, <2>1, ShutdownFacts
    <2>3. \A q \in Requests : pc[q] = "read" => pc'[q] = "read" /\ conn'[q] = conn[q]
      BY <1>t, <2>1 DEF CallType
    <2> QED BY <1>t, <2>2, <2>3, WireKept
  <1>11. ASSUME NEW r \in Requests,
                Refuse(r) \/ NothingIdle(r) \/ OpenFails(r) \/ Return(r) \/ RedirectFails(r)
         PROVE  WireOwned'
    <2>1. pc[r] # "read" /\ UNCHANGED <<wire, reply, conn>> /\ \E step : pc' = [pc EXCEPT ![r] = step]
      BY <1>11 DEF Refuse, NothingIdle, OpenFails, Return, RedirectFails, Goto, net
    <2> QED BY <1>1, <1>t, <2>1 DEF CallType
  <1>12. ASSUME NEW r \in Requests, NEW k \in Keys,
                Begin(r, k) \/ \E m \in {"safe", "unsafe"} : Redirect(r, k, m)
         PROVE  WireOwned'
    <2>1. pc[r] # "read" /\ UNCHANGED <<wire, reply, conn>> /\ \E step : pc' = [pc EXCEPT ![r] = step]
      BY <1>12 DEF Begin, Redirect, Goto, net
    <2> QED BY <1>1, <1>t, <2>1 DEF CallType
  <1>13. CASE Close
    <2>1. ShutdownClose(ConnsOf(idleList)) /\ UNCHANGED <<pc, conn>>
      BY <1>13 DEF Close
    <2>2. \A d \in Conns : wire'[d] \in {wire[d], None} /\ reply'[d] \in {reply[d], None}
      BY <1>t, <2>1, ShutdownFacts
    <2> QED BY <1>t, <2>1, <2>2, WireKept
  <1>14. ASSUME NEW i \in DOMAIN idleList, Expire(i)
         PROVE  WireOwned'
    BY <1>2, <1>14 DEF Expire, net, call
  <1>15. ASSUME NEW c \in Conns, PeerCloses(c)
         PROVE  WireOwned'
    BY <1>2, <1>15 DEF PeerCloses, call
  <1>16. ASSUME NEW c \in Conns, NEW answers \in BOOLEAN, Serve(c, answers)
         PROVE  WireOwned'
    <2>1. /\ wire[c] # None /\ wire' = [wire EXCEPT ![c] = None] /\ UNCHANGED <<pc, conn>>
          /\ reply' = IF answers THEN [reply EXCEPT ![c] = wire[c]] ELSE reply
      BY <1>16 DEF Serve
    <2>2. conn[wire[c]] = c /\ pc[wire[c]] = "read"
      BY <2>1, WireNow
    <2> SUFFICES ASSUME NEW d \in Conns
                 PROVE  /\ wire'[d] # None => /\ conn'[wire'[d]] = d /\ pc'[wire'[d]] = "read"
                                              /\ reply'[d] = None
                        /\ reply'[d] # None => conn'[reply'[d]] = d /\ pc'[reply'[d]] = "read"
      BY DEF WireOwned
    <2> QED BY <1>t, <2>1, <2>2, WireNow DEF NetType
  <1>17. CASE UNCHANGED vars
    BY <1>2, <1>17 DEF vars
  <1>18. ASSUME NEW r \in Requests, Step(r)
         PROVE  WireOwned'
    BY <1>3, <1>4, <1>6, <1>7, <1>8, <1>9, <1>10, <1>11, <1>12, <1>18 DEF Step
  <1> QED BY <1>11, <1>12, <1>13, <1>14, <1>15, <1>16, <1>17, <1>18 DEF Next

-----------------------------------------------------------------------------
(* What a call was given and how often a server processed it.                *)

BeforeSending == {"idle", "take", "open", "send"}

\* OwnResponse, Committed and AttemptsBounded for one request.
CallExact(r) ==
  /\ got[r] \in {None, r}
  /\ method[r] = "unsafe" /\ served[r] > 0 =>
       served[r] = 1 /\ pc[r] \notin BeforeSending /\ \A c \in Conns : wire[c] # r
  /\ pc[r] \notin {"failed", "exhausted"} => attempt[r] <= 1
  /\ served[r] <= attempt[r] + 1
  /\ served[r] = attempt[r] + 1 => pc[r] \notin BeforeSending /\ \A c \in Conns : wire[c] # r

LEMMA CallsExactNow ==
  ASSUME IInv, NEW r \in Requests
  PROVE  /\ CallExact(r) /\ attempt[r] \in Nat /\ served[r] \in Nat
         /\ method[r] \in {"safe", "unsafe"}
  BY TypesNow DEF IInv, OwnResponse, Committed, AttemptsBounded, CallExact, CallType, BeforeSending

\* A step that is not the request's own, or that leaves alone what was sent.
LEMMA CallExactKept ==
  ASSUME IInv, NEW r \in Requests,
         method'[r] = method[r], served'[r] = served[r], attempt'[r] = attempt[r],
         got'[r] \in {got[r], r},
         \A c \in Conns : wire'[c] = r => wire[c] = r,
         pc'[r] \in BeforeSending => pc[r] \in BeforeSending,
         pc[r] \in {"failed", "exhausted"} => pc'[r] \in {"failed", "exhausted"}
  PROVE  CallExact(r)'
  BY CallsExactNow DEF CallExact

LEMMA CallsStep ==
  ASSUME IInv, [Next]_vars, NEW q \in Requests
  PROVE  CallExact(q)'
  <1>t. CallType /\ NetType /\ None \notin Conns /\ None \notin Requests
    BY TypesNow, SessionAssumption
  <1>k. CallExact(q) /\ attempt[q] \in Nat /\ served[q] \in Nat /\ method[q] \in {"safe", "unsafe"}
    BY CallsExactNow
  <1>1. CASE UNCHANGED <<method, served, attempt, got, wire, pc>>
    BY <1>1, CallExactKept
  <1>2. ASSUME NEW r \in Requests, TakeIdle(r)
        PROVE  CallExact(q)'
    <2>1. PICK c \in Conns :
            /\ pc[r] = "take" /\ UNCHANGED <<method, served, attempt, got>>
            /\ \/ pc' = [pc EXCEPT ![r] = "send"] /\ UNCHANGED net
               \/ pc' = [pc EXCEPT ![r] = "open"] /\ ShutdownClose({c})
      BY <1>2, TakeIdleFacts
    <2>2. \A d \in Conns : wire'[d] = q => wire[d] = q
      BY <1>t, <2>1, ShutdownFacts DEF net
    <2>3. /\ pc'[q] \in BeforeSending => pc[q] \in BeforeSending
          /\ pc[q] \in {"failed", "exhausted"} => pc'[q] \in {"failed", "exhausted"}
      BY <1>t, <2>1 DEF CallType, BeforeSending
    <2> QED BY <2>1, <2>2, <2>3, CallExactKept
  <1>3. ASSUME NEW r \in Requests, NEW c \in Conns, Open(r, c)
        PROVE  CallExact(q)'
    <2>1. /\ pc[r] = "open" /\ pc' = [pc EXCEPT ![r] = "send"]
          /\ UNCHANGED <<method, served, attempt, got, wire>>
      BY <1>3 DEF Open, Goto
    <2>2. /\ pc'[q] \in BeforeSending => pc[q] \in BeforeSending
          /\ pc[q] \in {"failed", "exhausted"} => pc'[q] \in {"failed", "exhausted"}
      BY <1>t, <2>1 DEF CallType, BeforeSending
    <2> QED BY <2>1, <2>2, CallExactKept
  <1>4. ASSUME NEW r \in Requests, Send(r)
        PROVE  CallExact(q)'
    <2>1. /\ pc[r] = "send" /\ pc' = [pc EXCEPT ![r] = "read"]
          /\ UNCHANGED <<method, served, attempt, got>>
          /\ wire' = IF conn[r] \in peerUp THEN [wire EXCEPT ![conn[r]] = r] ELSE wire
      BY <1>4 DEF Send, Goto, call
    <2>2. conn[r] \in Conns
      BY <2>1, HolderFacts
    <2>3. CASE q = r
      <3>1. pc[q] \in BeforeSending /\ pc[q] \notin {"failed", "exhausted"} /\ pc'[q] = "read"
        BY <1>t, <2>1, <2>3 DEF BeforeSending, CallType
      <3> QED BY <1>k, <2>1, <3>1 DEF CallExact, BeforeSending
    <2>4. CASE q # r
      <3>1. pc'[q] = pc[q] /\ \A d \in Conns : wire'[d] = q => wire[d] = q
        BY <1>t, <2>1, <2>2, <2>4 DEF CallType, NetType
      <3> QED BY <2>1, <3>1, CallExactKept
    <2> QED BY <2>3, <2>4
  <1>5. ASSUME NEW r \in Requests, SendFails(r) \/ ReadFails(r)
        PROVE  CallExact(q)'
    <2>1. PICK retry \in BOOLEAN :
            /\ pc[r] \in {"send", "read"} /\ AttemptFails(r, retry)
            /\ pc[r] = "read" /\ retry => method[r] = "safe"
      BY <1>5, FailureCases
    <2>2. /\ ShutdownClose({conn[r]}) /\ attempt' = [attempt EXCEPT ![r] = attempt[r] + 1]
          /\ UNCHANGED <<method, served, got>>
      BY <2>1, AttemptFailsFacts
    <2>3. PICK step \in {"take", "failed", "exhausted"} :
            /\ pc' = [pc EXCEPT ![r] = step]
            /\ step = "take" => retry /\ attempt[r] = 0
      BY <2>1, AttemptFailsFacts
    <2>4. \A d \in Conns : wire'[d] = q => wire[d] = q
      BY <1>t, <2>2, ShutdownFacts
    <2>5. CASE q = r
      <3>1. attempt'[q] = attempt[q] + 1 /\ pc'[q] = step
        BY <1>t, <2>2, <2>3, <2>5 DEF CallType
      <3>2. /\ served'[q] <= attempt'[q] + 1 /\ served'[q] # attempt'[q] + 1
            /\ pc'[q] \notin {"failed", "exhausted"} => attempt'[q] <= 1
        BY <1>k, <2>2, <2>3, <2>5, <3>1 DEF CallExact
      <3>3. ASSUME method'[q] = "unsafe", served'[q] > 0
            PROVE  served'[q] = 1 /\ pc'[q] \notin BeforeSending /\ \A c \in Conns : wire'[c] # q
        <4>1. served[q] = 1 /\ pc[q] \notin BeforeSending /\ \A c \in Conns : wire[c] # q
          BY <1>k, <2>2, <3>3 DEF CallExact
        <4>2. step # "take"
          BY <2>1, <2>2, <2>3, <2>5, <3>3, <4>1 DEF BeforeSending
        <4> QED BY <2>2, <2>4, <3>1, <4>1, <4>2 DEF BeforeSending
      <3> QED BY <1>k, <2>2, <3>2, <3>3 DEF CallExact
    <2>6. CASE q # r
      <3>1. pc'[q] = pc[q] /\ attempt'[q] = attempt[q]
        BY <1>t, <2>2, <2>3, <2>6 DEF CallType
      <3> QED BY <2>2, <2>4, <3>1, CallExactKept
    <2> QED BY <2>5, <2>6
  <1>6. ASSUME NEW r \in Requests, NEW keepalive \in BOOLEAN, Read(r, keepalive)
        PROVE  CallExact(q)'
    <2>1. /\ pc[r] = "read" /\ reply[conn[r]] # None /\ got' = [got EXCEPT ![r] = reply[conn[r]]]
          /\ UNCHANGED <<method, served, attempt>>
          /\ \/ pc' = [pc EXCEPT ![r] = "return"] /\ UNCHANGED wire
             \/ pc' = [pc EXCEPT ![r] = "answered"] /\ ShutdownClose({conn[r]})
      BY <1>6 DEF Read, Goto
    <2>2. reply[conn[r]] = r
      <3>1. conn[r] \in Conns /\ \A p \in Requests : p # r => conn[p] # conn[r]
        BY <2>1, HolderFacts
      <3>2. reply[conn[r]] \in Requests /\ conn[reply[conn[r]]] = conn[r]
        BY <2>1, <3>1, WireNow
      <3> QED BY <3>1, <3>2
    <2>3. got'[q] \in {got[q], q}
      BY <1>t, <2>1, <2>2 DEF CallType
    <2>4. \A d \in Conns : wire'[d] = q => wire[d] = q
      BY <1>t, <2>1, ShutdownFacts
    <2>5. /\ pc'[q] \in BeforeSending => pc[q] \in BeforeSending
          /\ pc[q] \in {"failed", "exhausted"} => pc'[q] \in {"failed", "exhausted"}
      BY <1>t, <2>1 DEF CallType, BeforeSending
    <2> QED BY <2>1, <2>3, <2>4, <2>5, CallExactKept
  <1>7. ASSUME NEW r \in Requests, ReturnIdle(r) \/ CloseDisplaced(r)
        PROVE  CallExact(q)'
    <2>1. /\ pc[r] \in {"return", "close"} /\ UNCHANGED <<method, served, attempt, got>>
          /\ pc' = [pc EXCEPT ![r] = "close"] \/ pc' = [pc EXCEPT ![r] = "answered"]
          /\ wire' = wire \/ ShutdownClose(toClose[r])
      BY <1>7 DEF ReturnIdle, CloseDisplaced, Goto, call, net
    <2>2. \A d \in Conns : wire'[d] = q => wire[d] = q
      BY <1>t, <2>1, ShutdownFacts
    <2>3. /\ pc'[q] \in BeforeSending => pc[q] \in BeforeSending
          /\ pc[q] \in {"failed", "exhausted"} => pc'[q] \in {"failed", "exhausted"}
      BY <1>t, <2>1 DEF CallType, BeforeSending
    <2> QED BY <2>1, <2>2, <2>3, CallExactKept
  <1>8. ASSUME NEW r \in Requests, NEW k \in Keys, NEW m \in {"safe", "unsafe"}, Redirect(r, k, m)
        PROVE  CallExact(q)'
    <2>1. /\ pc' = [pc EXCEPT ![r] = "take"] /\ method' = [method EXCEPT ![r] = m] /\ wire' = wire
          /\ attempt' = [attempt EXCEPT ![r] = 0] /\ got' = [got EXCEPT ![r] = None]
          /\ served' = [served EXCEPT ![r] = 0]
      BY <1>8 DEF Redirect, Goto, net
    <2>2. CASE q = r
      <3>1. attempt'[q] = 0 /\ got'[q] = None /\ served'[q] = 0
        BY <1>t, <2>1, <2>2 DEF CallType
      <3> QED BY <3>1 DEF CallExact
    <2>3. CASE q # r
      <3>1. /\ pc'[q] = pc[q] /\ method'[q] = method[q] /\ attempt'[q] = attempt[q]
            /\ got'[q] = got[q] /\ served'[q] = served[q]
        BY <1>t, <2>1, <2>3 DEF CallType
      <3> QED BY <2>1, <3>1, CallExactKept
    <2> QED BY <2>2, <2>3
  <1>9. ASSUME NEW r \in Requests,
               \/ Refuse(r) \/ NothingIdle(r) \/ OpenFails(r) \/ Return(r) \/ RedirectFails(r)
               \/ \E k \in Keys : Begin(r, k)
        PROVE  CallExact(q)'
    <2>1. /\ UNCHANGED <<method, served, attempt, got, wire>>
          /\ \/ pc' = [pc EXCEPT ![r] = "failed"]
             \/ pc[r] = "take" /\ pc' = [pc EXCEPT ![r] = "open"]
             \/ pc[r] = "answered" /\ pc' = [pc EXCEPT ![r] = "ok"]
             \/ pc[r] = "idle" /\ pc' = [pc EXCEPT ![r] = "take"]
      BY <1>9 DEF Refuse, NothingIdle, OpenFails, Return, RedirectFails, Begin, Goto, net, call
    <2>2. /\ pc'[q] \in BeforeSending => pc[q] \in BeforeSending
          /\ pc[q] \in {"failed", "exhausted"} => pc'[q] \in {"failed", "exhausted"}
      BY <1>t, <2>1 DEF CallType, BeforeSending
    <2> QED BY <2>1, <2>2, CallExactKept
  <1>10. CASE Close
    <2>1. ShutdownClose(ConnsOf(idleList)) /\ UNCHANGED <<pc, method, served, attempt, got>>
      BY <1>10 DEF Close, call
    <2>2. \A d \in Conns : wire'[d] = q => wire[d] = q
      BY <1>t, <2>1, ShutdownFacts
    <2> QED BY <2>1, <2>2, CallExactKept
  <1>11. ASSUME NEW i \in DOMAIN idleList, Expire(i)
         PROVE  CallExact(q)'
    BY <1>1, <1>11 DEF Expire, net, call
  <1>12. ASSUME NEW c \in Conns, PeerCloses(c)
         PROVE  CallExact(q)'
    BY <1>1, <1>12 DEF PeerCloses, call
  <1>13. ASSUME NEW c \in Conns, NEW answers \in BOOLEAN, Serve(c, answers)
         PROVE  CallExact(q)'
    <2>1. /\ wire[c] # None /\ wire' = [wire EXCEPT ![c] = None]
          /\ served' = [served EXCEPT ![wire[c]] = served[wire[c]] + 1]
          /\ UNCHANGED <<pc, method, attempt, got>>
      BY <1>13 DEF Serve
    <2>2. \A d \in Conns : wire'[d] = q => wire[d] = q
      BY <1>t, <2>1 DEF NetType
    <2>3. CASE q # wire[c]
      <3>1. served'[q] = served[q]
        BY <1>t, <2>1, <2>3 DEF CallType
      <3> QED BY <2>1, <2>2, <3>1, CallExactKept
    <2>4. CASE q = wire[c]
      <3>1. conn[q] = c /\ pc[q] = "read"
        BY <2>1, <2>4, WireNow
      <3>2. \A d \in Conns : wire'[d] # q
        <4>1. ASSUME NEW d \in Conns, wire'[d] = q
              PROVE  FALSE
          <5>1. wire[d] = q
            BY <2>2, <4>1
          <5>2. d = c
            BY <1>t, <3>1, <5>1, WireNow
          <5> QED BY <1>t, <2>1, <2>4, <4>1, <5>2 DEF NetType
        <4> QED BY <4>1
      <3>3. served'[q] = served[q] + 1
        BY <1>t, <2>1, <2>4 DEF CallType
      <3>4. served[q] # attempt[q] + 1 /\ (method[q] = "unsafe" => served[q] = 0)
        BY <1>k, <2>4 DEF CallExact
      <3> QED BY <1>k, <2>1, <3>1, <3>2, <3>3, <3>4 DEF CallExact, BeforeSending
    <2> QED BY <2>3, <2>4
  <1>14. CASE UNCHANGED vars
    BY <1>1, <1>14 DEF vars
  <1>15. ASSUME NEW r \in Requests, Step(r)
         PROVE  CallExact(q)'
    BY <1>2, <1>3, <1>4, <1>5, <1>6, <1>7, <1>8, <1>9, <1>15 DEF Step
  <1> QED BY <1>9, <1>10, <1>11, <1>12, <1>13, <1>14, <1>15 DEF Next

-----------------------------------------------------------------------------
(* The invariant holds throughout.                                           *)

LEMMA InitInvariant ==
  ASSUME Init
  PROVE  IInv
  <1>1. DOMAIN idleList = {} /\ Len(idleList) = 0 /\ ConnsOf(idleList) = {} /\ KeysOf(idleList) = {}
    BY DEF Init, ConnsOf, KeysOf
  <1>2. TypeOK
    <2>1. /\ open = {} /\ peerUp = {} /\ fresh = {} /\ closed = FALSE /\ idleIndex = {}
          /\ idleList \in Seq([key : Keys, conn : Conns, old : BOOLEAN])
          /\ madeFor \in [Conns -> Keys \cup {None}]
          /\ wire \in [Conns -> Requests \cup {None}] /\ reply \in [Conns -> Requests \cup {None}]
      BY DEF Init
    <2>2. /\ key \in [Requests -> Keys \cup {None}] /\ conn \in [Requests -> Conns \cup {None}]
          /\ got \in [Requests -> Requests \cup {None}] /\ toClose \in [Requests -> SUBSET Conns]
          /\ method \in [Requests -> {"safe", "unsafe"}] /\ pc \in [Requests -> Steps]
      BY DEF Init, Steps
    <2>3. /\ attempt \in [Requests -> 0 .. 2] /\ served \in [Requests -> 0 .. 2]
          /\ hops \in [Requests -> 0 .. MaxRedirects]
      BY SessionAssumption DEF Init
    <2> QED BY <2>1, <2>2, <2>3 DEF TypeOK
  <1>3. ConnectionsExact
    BY <1>1, SessionAssumption DEF Init, ConnectionsExact, OneOwner, NoLeak, RightPeer
  <1>4. PoolExact
    BY <1>1, SessionAssumption DEF Init, PoolExact, PoolBounded, ClosedIsEmpty
  <1>5. OwnResponse /\ Held /\ PooledPeer /\ WireOwned
    BY <1>1 DEF Init, OwnResponse, Held, PooledPeer, WireOwned
  <1>6. Committed /\ AttemptsBounded
    BY DEF Init, Committed, AttemptsBounded
  <1> QED BY <1>2, <1>3, <1>4, <1>5, <1>6 DEF IInv

LEMMA InvariantStep ==
  ASSUME IInv, [Next]_vars
  PROVE  IInv'
  <1>1. ListExact(idleList', idleIndex', closed') /\ NetType' /\ CallType'
    BY PoolStep, TypeStep
  <1>2. TypeOK'
    BY <1>1 DEF TypeOK, ListExact, Entries, NetType, CallType
  <1>3. PoolExact'
    BY <1>1 DEF ListExact, Distinct, PoolExact, PoolBounded, ClosedIsEmpty
  <1>4. OwnedApart(ConnsOf(idleList'), conn', toClose', open')
    <2>1. \A i \in DOMAIN idleList' : idleList'[i] \in Entries
      BY <1>1, LenProperties, ElementOfSeq DEF ListExact
    <2>2. ConnsOf(idleList') \subseteq Conns
      BY <2>1 DEF ConnsOf, Entries
    <2> QED BY <1>1, <2>2, DividedNext, DividedMeansOwned DEF CallType
  <1>5. OneOwner'
    <2>1. Distinct(idleList')
      BY <1>1 DEF ListExact
    <2> QED BY <1>4, <2>1 DEF OneOwner, OwnedApart, Distinct
  <1>6. NoLeak'
    BY <1>4 DEF NoLeak, OwnedApart
  <1>7. RightPeer' /\ PooledPeer'
    BY PeersStep DEF Peers
  <1>8. OwnResponse' /\ Committed' /\ AttemptsBounded'
    <2>1. \A r \in Requests : CallExact(r)'
      BY CallsStep
    <2>2. OwnResponse'
      BY <2>1 DEF CallExact, OwnResponse
    <2>3. Committed'
      BY <2>1 DEF CallExact, Committed, BeforeSending
    <2>4. AttemptsBounded'
      BY <2>1 DEF CallExact, AttemptsBounded, BeforeSending
    <2> QED BY <2>2, <2>3, <2>4
  <1>9. Held' /\ WireOwned'
    BY HeldStep, WireStep
  <1> QED BY <1>2, <1>3, <1>5, <1>6, <1>7, <1>8, <1>9 DEF IInv, ConnectionsExact

\* Whatever the threads, the servers and close() do, and in whatever order, the
\* invariant holds (http.session).
THEOREM Invariant == Spec => []IInv
  <1>1. Init => IInv
    BY InitInvariant
  <1>2. IInv /\ [Next]_vars => IInv'
    BY InvariantStep
  <1> QED BY <1>1, <1>2, PTL DEF Spec

\* The variables of the session have the types the code gives them.
THEOREM TypeCorrect == Spec => []TypeOK
  <1>1. IInv => TypeOK
    BY DEF IInv
  <1> QED BY <1>1, Invariant, PTL

\* Every open connection is idle, used by one request or about to be closed by
\* one, and a request talks to the peer its connection was opened for
\* (sessionTakeIdle, sessionReturnIdle, httpSessionClose).
THEOREM ConnectionsHaveOneOwner == Spec => []ConnectionsExact
  <1>1. IInv => ConnectionsExact
    BY DEF IInv
  <1> QED BY <1>1, Invariant, PTL

\* The list of idle connections and its index agree, within the limit, and a
\* closed session pools nothing (sessionReturnIdle, httpSessionClose).
THEOREM PoolStaysExact == Spec => []PoolExact
  <1>1. IInv => PoolExact
    BY DEF IInv
  <1> QED BY <1>1, Invariant, PTL

\* No request is given the response to another one (doOneHttpRequestImpl).
THEOREM ResponsesMatch == Spec => []OwnResponse
  <1>1. IInv => OwnResponse
    BY DEF IInv
  <1> QED BY <1>1, Invariant, PTL

\* A retry never makes a server process a request twice that is not idempotent
\* (HttpRetryOnFresh).
THEOREM CommitsOnce == Spec => []NoDoubleCommit
  <1>1. IInv => NoDoubleCommit
    <2> SUFFICES ASSUME IInv, NEW r \in Requests, method[r] = "unsafe"
                 PROVE  served[r] <= 1
      BY DEF NoDoubleCommit
    <2>1. served[r] \in Nat /\ CallExact(r)
      BY CallsExactNow
    <2> QED BY <2>1 DEF CallExact
  <1> QED BY <1>1, Invariant, PTL

-----------------------------------------------------------------------------
(* Progress.                                                                 *)

LEMMA RankFacts ==
  /\ Rank["idle"] = 0 /\ Rank["take"] = 1 /\ Rank["open"] = 2 /\ Rank["send"] = 3
  /\ Rank["read"] = 4 /\ Rank["return"] = 5 /\ Rank["close"] = 6 /\ Rank["answered"] = 7
  /\ Rank["ok"] = 8 /\ Rank["failed"] = 8 /\ Rank["exhausted"] = 8
  BY DEF Rank

\* A step forward within an attempt.
LEMMA NearerInAttempt ==
  ASSUME IInv, NEW r \in Requests, NEW from \in Steps, NEW to \in Steps, pc[r] = from,
         pc' = [pc EXCEPT ![r] = to], Rank[from] \in Nat, Rank[to] \in Nat, Rank[to] > Rank[from],
         UNCHANGED <<hops, attempt>>
  PROVE  Distance(r)' > Distance(r)
  <1>1. pc'[r] = to /\ hops[r] \in Nat /\ attempt[r] \in Nat
    BY TypesNow, SessionAssumption DEF CallType
  <1>2. Distance(r) = 30 * hops[r] + 9 * attempt[r] + Rank[from]
    BY DEF Distance
  <1>3. Distance(r)' = 30 * hops[r] + 9 * attempt[r] + Rank'[to]
    BY <1>1 DEF Distance
  <1>4. Rank' = Rank
    BY DEF Rank
  <1> QED BY <1>1, <1>2, <1>3, <1>4

LEMMA CallsNearer ==
  ASSUME IInv, [Next]_vars, NEW q \in Requests, pc'[q] # pc[q]
  PROVE  Distance(q)' > Distance(q)
  <1>t. /\ pc \in [Requests -> Steps] /\ hops \in [Requests -> 0 .. MaxRedirects] /\ attempt \in [Requests -> 0 .. 2]
        /\ MaxRedirects \in Nat
    BY TypesNow, SessionAssumption DEF CallType
  <1>r. Rank' = Rank
    BY DEF Rank
  <1> DEFINE Moves(from, to) == /\ pc[q] = from /\ pc' = [pc EXCEPT ![q] = to]
                                /\ UNCHANGED <<hops, attempt>>
  <1>1. ASSUME Moves("idle", "take") \/ Moves("idle", "failed") \/ Moves("take", "open") \/ Moves("take", "send")
               \/ Moves("open", "send") \/ Moves("open", "failed") \/ Moves("send", "read")
        PROVE  Distance(q)' > Distance(q)
    BY <1>1, RankFacts, NearerInAttempt DEF Steps, Ended
  <1>2. ASSUME Moves("read", "return") \/ Moves("read", "answered") \/ Moves("return", "close")
               \/ Moves("close", "answered") \/ Moves("answered", "ok") \/ Moves("answered", "failed")
        PROVE  Distance(q)' > Distance(q)
    BY <1>2, RankFacts, NearerInAttempt DEF Steps, Ended
  <1>3. ASSUME NEW r \in Requests, TakeIdle(r)
        PROVE  Distance(q)' > Distance(q)
    <2>1. /\ pc[r] = "take" /\ UNCHANGED <<hops, attempt>>
          /\ pc' = [pc EXCEPT ![r] = "send"] \/ pc' = [pc EXCEPT ![r] = "open"]
      BY <1>3, TakeIdleFacts
    <2>2. r = q
      BY <1>t, <2>1
    <2> QED BY <1>1, <2>1, <2>2
  <1>4. ASSUME NEW r \in Requests, SendFails(r) \/ ReadFails(r)
        PROVE  Distance(q)' > Distance(q)
    <2>1. PICK retry \in BOOLEAN : pc[r] \in {"send", "read"} /\ AttemptFails(r, retry)
      BY <1>4, FailureCases
    <2>2. attempt' = [attempt EXCEPT ![r] = attempt[r] + 1] /\ hops' = hops
      BY <2>1, AttemptFailsFacts
    <2>3. PICK step \in {"take", "failed", "exhausted"} : pc' = [pc EXCEPT ![r] = step]
      BY <2>1, AttemptFailsFacts
    <2>4. r = q /\ pc'[q] = step /\ attempt'[q] = attempt[q] + 1
      BY <1>t, <2>2, <2>3
    <2>5. Rank[pc[q]] \in {3, 4} /\ Rank[step] \in {1, 8}
      BY <2>1, <2>3, <2>4, RankFacts
    <2>6. Distance(q) = 30 * hops[q] + 9 * attempt[q] + Rank[pc[q]]
      BY DEF Distance
    <2>7. Distance(q)' = 30 * hops[q] + 9 * (attempt[q] + 1) + Rank[step]
      BY <1>r, <2>2, <2>4 DEF Distance
    <2>8. hops[q] \in Nat /\ attempt[q] \in Nat
      BY <1>t
    <2> QED BY <2>5, <2>6, <2>7, <2>8
  <1>5. ASSUME NEW r \in Requests, NEW k \in Keys, NEW m \in {"safe", "unsafe"}, Redirect(r, k, m)
        PROVE  Distance(q)' > Distance(q)
    <2>1. /\ pc[r] = "answered" /\ pc' = [pc EXCEPT ![r] = "take"]
          /\ hops' = [hops EXCEPT ![r] = hops[r] + 1] /\ attempt' = [attempt EXCEPT ![r] = 0]
      BY <1>5 DEF Redirect, Goto, NextHop
    <2>2. r = q /\ pc'[q] = "take" /\ hops'[q] = hops[q] + 1 /\ attempt'[q] = 0
      BY <1>t, <2>1
    <2>3. attempt[q] \in {0, 1} /\ hops[q] \in Nat
      BY <1>t, <2>1, <2>2 DEF IInv, AttemptsBounded
    <2>4. Distance(q) = 30 * hops[q] + 9 * attempt[q] + 7
      BY <2>1, <2>2, RankFacts DEF Distance
    <2>5. Distance(q)' = 30 * (hops[q] + 1) + 9 * 0 + 1
      BY <1>r, <2>2, RankFacts DEF Distance
    <2> QED BY <2>3, <2>4, <2>5
  <1>6. ASSUME NEW r \in Requests,
               Refuse(r) \/ NothingIdle(r) \/ OpenFails(r) \/ Send(r) \/ \E k \in Keys : Begin(r, k)
        PROVE  Distance(q)' > Distance(q)
    <2>1. /\ UNCHANGED <<hops, attempt>>
          /\ \/ pc[r] = "idle" /\ pc' = [pc EXCEPT ![r] = "failed"]
             \/ pc[r] = "take" /\ pc' = [pc EXCEPT ![r] = "open"]
             \/ pc[r] = "open" /\ pc' = [pc EXCEPT ![r] = "failed"]
             \/ pc[r] = "send" /\ pc' = [pc EXCEPT ![r] = "read"]
             \/ pc[r] = "idle" /\ pc' = [pc EXCEPT ![r] = "take"]
      BY <1>6 DEF Refuse, NothingIdle, OpenFails, Send, Begin, Goto, call
    <2>2. r = q
      BY <1>t, <2>1
    <2> QED BY <1>1, <2>1, <2>2
  <1>7. ASSUME NEW r \in Requests, NEW c \in Conns, Open(r, c)
        PROVE  Distance(q)' > Distance(q)
    <2>1. pc[r] = "open" /\ pc' = [pc EXCEPT ![r] = "send"] /\ UNCHANGED <<hops, attempt>>
      BY <1>7 DEF Open, Goto
    <2>2. r = q
      BY <1>t, <2>1
    <2> QED BY <1>1, <2>1, <2>2
  <1>8. ASSUME NEW r \in Requests,
               \/ \E keepalive \in BOOLEAN : Read(r, keepalive)
               \/ ReturnIdle(r) \/ CloseDisplaced(r) \/ Return(r) \/ RedirectFails(r)
        PROVE  Distance(q)' > Distance(q)
    <2>1. /\ UNCHANGED <<hops, attempt>>
          /\ \/ pc[r] = "read" /\ pc' = [pc EXCEPT ![r] = "return"]
             \/ pc[r] = "read" /\ pc' = [pc EXCEPT ![r] = "answered"]
             \/ pc[r] = "return" /\ pc' = [pc EXCEPT ![r] = "close"]
             \/ pc[r] = "close" /\ pc' = [pc EXCEPT ![r] = "answered"]
             \/ pc[r] = "answered" /\ pc' = [pc EXCEPT ![r] = "ok"]
             \/ pc[r] = "answered" /\ pc' = [pc EXCEPT ![r] = "failed"]
      BY <1>8 DEF Read, ReturnIdle, CloseDisplaced, Return, RedirectFails, Goto, call
    <2>2. r = q
      BY <1>t, <2>1
    <2> QED BY <1>2, <2>1, <2>2
  <1>9. ASSUME UNCHANGED pc
        PROVE  Distance(q)' > Distance(q)
    BY <1>9
  <1>10. CASE Close \/ UNCHANGED vars
    BY <1>9, <1>10 DEF Close, vars
  <1>11. ASSUME NEW i \in DOMAIN idleList, Expire(i)
         PROVE  Distance(q)' > Distance(q)
    BY <1>9, <1>11 DEF Expire
  <1>12. ASSUME NEW c \in Conns, PeerCloses(c) \/ \E answers \in BOOLEAN : Serve(c, answers)
         PROVE  Distance(q)' > Distance(q)
    BY <1>9, <1>12 DEF PeerCloses, Serve
  <1>13. ASSUME NEW r \in Requests, Step(r)
         PROVE  Distance(q)' > Distance(q)
    BY <1>3, <1>4, <1>5, <1>6, <1>7, <1>8, <1>13 DEF Step
  <1> QED BY <1>6, <1>10, <1>11, <1>12, <1>13 DEF Next

\* Every step of a call brings it nearer to its end, whatever is retried and
\* wherever it is redirected (the loops of httpSessionRequest).
THEOREM CallsOnlyAdvance == Spec => CallsAdvance
  <1>1. IInv /\ [Next]_vars => [\A r \in Requests : pc'[r] # pc[r] => Distance(r)' > Distance(r)]_vars
    BY CallsNearer
  <1> QED BY <1>1, Invariant, PTL DEF Spec, CallsAdvance

\* How far a call can come at most.
CallsShort == \A r \in Requests : Distance(r) <= 30 * MaxRedirects + 26

\* With CallsOnlyAdvance: a call of session.request makes a bounded number of
\* steps, whatever the servers do.
THEOREM CallsAreShort == Spec => []CallsShort
  <1>1. IInv => CallsShort
    <2> SUFFICES ASSUME IInv, NEW r \in Requests
                 PROVE  Distance(r) <= 30 * MaxRedirects + 26
      BY DEF CallsShort
    <2>1. hops[r] \in 0 .. MaxRedirects /\ attempt[r] \in 0 .. 2 /\ MaxRedirects \in Nat /\ pc[r] \in Steps
      BY TypesNow, SessionAssumption DEF CallType
    <2>2. Rank[pc[r]] \in 0 .. 8
      BY <2>1, RankFacts DEF Steps, Ended
    <2> QED BY <2>1, <2>2 DEF Distance
  <1> QED BY <1>1, Invariant, PTL
=============================================================================
