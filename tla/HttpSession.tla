----------------------------- MODULE HttpSession -----------------------------
(***************************************************************************)
(* The keep-alive pool of http.session and the requests that share it      *)
(* (builtins/http.cpp).                                                    *)
(*                                                                         *)
(* A session keeps at most PoolMaxSize idle connections, one per pool key, *)
(* in LRU order, under a mutex that is never held around network I/O.  A   *)
(* request takes an idle connection or opens one, sends, reads, and        *)
(* returns the connection or closes it; a failure on a reused connection   *)
(* may be retried once.  Servers close connections whenever they like.     *)
(*                                                                         *)
(* Left out: the stateless client, streams, and what is in requests and    *)
(* responses.  A server sends nothing but answers.                         *)
(***************************************************************************)
EXTENDS Naturals, Sequences, SequencesExt

CONSTANTS
  Requests,      \* calls of session.request, each in a thread of its own
  Idempotent,    \* the requests whose method isIdempotentMethod accepts
  Keys,          \* pool keys: scheme, host, port and TLS identity
  Conns,         \* identities of connections, reused after they are closed
  PoolMaxSize,   \* capacity of the pool
  MaxRedirects   \* redirects a request follows

None == "none"

ASSUME SessionAssumption ==
  /\ Idempotent \subseteq Requests
  /\ PoolMaxSize \in Nat \ {0}
  /\ MaxRedirects \in Nat
  /\ None \notin Requests \cup Conns

VARIABLES
  closed,     \* HttpSession::closed
  idleList,   \* sequence of [key, conn, old], most recently used first
  idleIndex,  \* keys the index has an iterator for
  open,       \* connections this side has not closed
  madeFor,    \* connection |-> key it was opened for
  peerUp,     \* connections whose server has not closed them
  wire,       \* connection |-> request sent and not yet processed
  reply,      \* connection |-> request whose response can be read
  pc,         \* request |-> where it is
  key,        \* request |-> pool key of its current URL
  conn,       \* request |-> the connection it uses
  fresh,      \* requests whose connection is a fresh one
  attempt,    \* request |-> attempts made on the current URL
  hops,       \* request |-> redirects followed
  method,     \* request |-> "safe" (idempotent) or "unsafe"
  toClose,    \* request |-> displaced connections it has yet to close
  got,        \* history: request |-> request whose response it was given
  served      \* history: request |-> times a server processed its current URL

vars == <<closed, idleList, idleIndex, open, madeFor, peerUp, wire, reply, pc, key,
          conn, fresh, attempt, hops, method, toClose, got, served>>
pool == <<closed, idleList, idleIndex>>
net == <<open, madeFor, peerUp, wire, reply>>
call == <<key, fresh, attempt, hops, method, got, served>>

Ended == {"ok", "failed", "exhausted"}
Steps == {"idle", "take", "open", "send", "read", "return", "close", "answered"} \cup Ended

TypeOK ==
  /\ closed \in BOOLEAN
  /\ idleList \in Seq([key : Keys, conn : Conns, old : BOOLEAN])
  /\ idleIndex \subseteq Keys
  /\ open \subseteq Conns /\ peerUp \subseteq Conns
  /\ madeFor \in [Conns -> Keys \cup {None}]
  /\ wire \in [Conns -> Requests \cup {None}]
  /\ reply \in [Conns -> Requests \cup {None}]
  /\ pc \in [Requests -> Steps]
  /\ key \in [Requests -> Keys \cup {None}]
  /\ conn \in [Requests -> Conns \cup {None}]
  /\ fresh \subseteq Requests
  /\ attempt \in [Requests -> 0..2]
  /\ hops \in [Requests -> 0..MaxRedirects]
  /\ method \in [Requests -> {"safe", "unsafe"}]
  /\ toClose \in [Requests -> SUBSET Conns]
  /\ got \in [Requests -> Requests \cup {None}]
  /\ served \in [Requests -> 0..2]

Init ==
  /\ closed = FALSE
  /\ idleList = <<>>
  /\ idleIndex = {}
  /\ open = {} /\ peerUp = {}
  /\ madeFor = [c \in Conns |-> None]
  /\ wire = [c \in Conns |-> None]
  /\ reply = [c \in Conns |-> None]
  /\ pc = [r \in Requests |-> "idle"]
  /\ key = [r \in Requests |-> None]
  /\ conn = [r \in Requests |-> None]
  /\ fresh = {}
  /\ attempt = [r \in Requests |-> 0]
  /\ hops = [r \in Requests |-> 0]
  /\ method = [r \in Requests |-> IF r \in Idempotent THEN "safe" ELSE "unsafe"]
  /\ toClose = [r \in Requests |-> {}]
  /\ got = [r \in Requests |-> None]
  /\ served = [r \in Requests |-> 0]

Goto(r, step) == pc' = [pc EXCEPT ![r] = step]

\* shutdown_close of a set of connections: nothing of them is left.
ShutdownClose(cs) ==
  /\ open' = open \ cs
  /\ peerUp' = peerUp \ cs
  /\ madeFor' = [c \in Conns |-> IF c \in cs THEN None ELSE madeFor[c]]
  /\ wire' = [c \in Conns |-> IF c \in cs THEN None ELSE wire[c]]
  /\ reply' = [c \in Conns |-> IF c \in cs THEN None ELSE reply[c]]

-----------------------------------------------------------------------------
(* httpSessionRequest: refused on a closed session.                        *)

Begin(r, k) ==
  /\ pc[r] = "idle"
  /\ ~closed
  /\ key' = [key EXCEPT ![r] = k]
  /\ Goto(r, "take")
  /\ UNCHANGED <<pool, net, conn, fresh, attempt, hops, method, toClose, got, served>>

Refuse(r) ==
  /\ pc[r] = "idle"
  /\ closed
  /\ Goto(r, "failed")
  /\ UNCHANGED <<pool, net, call, conn, toClose>>

-----------------------------------------------------------------------------
(* sessionTakeIdle: an entry leaves the pool whatever comes of it; an old  *)
(* connection and one the server has closed are discarded.                 *)

\* The entry a key selects.
Found(k) == {i \in DOMAIN idleList : k \in idleIndex /\ idleList[i].key = k}

Usable(e) == ~e.old /\ e.conn \in peerUp

LeavesPool(i) ==
  /\ idleList' = RemoveAt(idleList, i)
  /\ idleIndex' = idleIndex \ {idleList[i].key}

TakeIdle(r) ==
  /\ pc[r] = "take"
  /\ \E i \in Found(key[r]) :
       LET e == idleList[i] IN
       /\ LeavesPool(i)
       /\ IF Usable(e)
          THEN /\ conn' = [conn EXCEPT ![r] = e.conn]
               /\ Goto(r, "send")
               /\ UNCHANGED net
          ELSE /\ ShutdownClose({e.conn})
               /\ Goto(r, "open")
               /\ UNCHANGED conn
  /\ fresh' = fresh \ {r}
  /\ UNCHANGED <<closed, key, attempt, hops, method, toClose, got, served>>

NothingIdle(r) ==
  /\ pc[r] = "take"
  /\ Found(key[r]) = {}
  /\ Goto(r, "open")
  /\ UNCHANGED <<pool, net, call, conn, toClose>>

\* openSocketAndTls; a failure closes what it opened and ends the call.
Open(r, c) ==
  /\ pc[r] = "open"
  /\ c \notin open
  /\ open' = open \cup {c}
  /\ peerUp' = peerUp \cup {c}
  /\ madeFor' = [madeFor EXCEPT ![c] = key[r]]
  /\ conn' = [conn EXCEPT ![r] = c]
  /\ fresh' = fresh \cup {r}
  /\ Goto(r, "send")
  /\ UNCHANGED <<pool, wire, reply, key, attempt, hops, method, toClose, got, served>>

OpenFails(r) ==
  /\ pc[r] = "open"
  /\ Goto(r, "failed")
  /\ UNCHANGED <<pool, net, call, conn, toClose>>

-----------------------------------------------------------------------------
(* doOneHttpRequestImpl.                                                   *)

Send(r) ==
  /\ pc[r] = "send"
  /\ wire' = IF conn[r] \in peerUp THEN [wire EXCEPT ![conn[r]] = r] ELSE wire
  /\ Goto(r, "read")
  /\ UNCHANGED <<pool, open, madeFor, peerUp, reply, call, conn, toClose>>

\* A mutant: any failure on a reused connection is retried.
Retryable_Any(r) == r \notin fresh

\* A failure to read is retried on a reused connection, idempotent methods only.
Retryable(r) == r \notin fresh /\ method[r] = "safe"

\* A mutant: the connection of a failed attempt goes back to the pool.
AttemptFails_Keeps(r, retry) ==
  /\ Goto(r, "return")
  /\ UNCHANGED <<pool, net, call, conn, toClose>>

\* The connection is closed and the attempt is over: HttpRetryOnFresh goes
\* on with the loop, anything else ends the call.
AttemptFails(r, retry) ==
  /\ ShutdownClose({conn[r]})
  /\ conn' = [conn EXCEPT ![r] = None]
  /\ attempt' = [attempt EXCEPT ![r] = @ + 1]
  /\ Goto(r, IF ~retry THEN "failed" ELSE IF attempt[r] < 1 THEN "take" ELSE "exhausted")
  /\ UNCHANGED <<pool, key, fresh, hops, method, toClose, got, served>>

\* A write that fails has not delivered the whole request: any method
\* retries on a reused connection.
SendFails(r) ==
  /\ pc[r] = "send"
  /\ AttemptFails(r, r \notin fresh)

\* Timeout, end of file or a malformed response.
ReadFails(r) ==
  /\ pc[r] = "read"
  /\ AttemptFails(r, Retryable(r))

\* The whole framed response is read; keepalive as responseAllowsKeepalive.
Read(r, keepalive) ==
  /\ pc[r] = "read"
  /\ reply[conn[r]] # None
  /\ got' = [got EXCEPT ![r] = reply[conn[r]]]
  /\ IF keepalive
     THEN /\ reply' = [reply EXCEPT ![conn[r]] = None]
          /\ Goto(r, "return")
          /\ UNCHANGED <<open, madeFor, peerUp, wire, conn>>
     ELSE /\ ShutdownClose({conn[r]})
          /\ conn' = [conn EXCEPT ![r] = None]
          /\ Goto(r, "answered")
  /\ UNCHANGED <<pool, key, fresh, attempt, hops, method, toClose, served>>

-----------------------------------------------------------------------------
(* sessionReturnIdle: the data structures under the mutex, the closing of  *)
(* displaced connections after it.                                         *)

\* A mutant: a closed session pools the connection.
ClosedToReturn_No == FALSE

ClosedToReturn == closed

\* LRU eviction off the back.
Kept(list) == SubSeq(list, 1, IF Len(list) <= PoolMaxSize THEN Len(list) ELSE PoolMaxSize)

ConnsOf(list) == {list[i].conn : i \in DOMAIN list}
KeysOf(list) == {list[i].key : i \in DOMAIN list}

\* A mutant: the connection a new one replaces is forgotten.
Displaced_Forgets(r, list) == {conn[r]} \ ConnsOf(list)

Displaced(r, list) == (ConnsOf(idleList) \cup {conn[r]}) \ ConnsOf(list)

\* The list without the entry of a key, whose place a new one takes.
Others(k) == IF Found(k) = {} THEN idleList ELSE RemoveAt(idleList, CHOOSE i \in Found(k) : TRUE)

ReturnIdle(r) ==
  LET entry == [key |-> key[r], conn |-> conn[r], old |-> FALSE]
      others == Others(key[r])
      list == IF ClosedToReturn THEN idleList ELSE Kept(<<entry>> \o others)
  IN /\ pc[r] = "return"
     /\ idleList' = list
     /\ idleIndex' = IF ClosedToReturn THEN idleIndex
                     ELSE (idleIndex \cup {key[r]}) \ (KeysOf(others) \ KeysOf(list))
     /\ toClose' = [toClose EXCEPT ![r] = Displaced(r, list)]
     /\ conn' = [conn EXCEPT ![r] = None]
     /\ Goto(r, "close")
     /\ UNCHANGED <<closed, net, call>>

CloseDisplaced(r) ==
  /\ pc[r] = "close"
  /\ ShutdownClose(toClose[r])
  /\ toClose' = [toClose EXCEPT ![r] = {}]
  /\ Goto(r, "answered")
  /\ UNCHANGED <<pool, call, conn>>

-----------------------------------------------------------------------------
(* The redirect loop of httpSessionRequest.  Total and per-request         *)
(* timeouts are failures of Open and Read, or of the loop itself.          *)

Return(r) ==
  /\ pc[r] = "answered"
  /\ Goto(r, "ok")
  /\ UNCHANGED <<pool, net, call, conn, toClose>>

\* A mutant: redirects are not counted.
NextHop_Uncounted(r) == hops[r]

\* The next URL's count of redirects.
NextHop(r) == hops[r] + 1

\* A redirect to a URL with key k; m is "safe" when it turns the method into GET.
Redirect(r, k, m) ==
  /\ pc[r] = "answered"
  /\ NextHop(r) <= MaxRedirects
  /\ m \in {method[r], "safe"}
  /\ hops' = [hops EXCEPT ![r] = NextHop(r)]
  /\ method' = [method EXCEPT ![r] = m]
  /\ key' = [key EXCEPT ![r] = k]
  /\ attempt' = [attempt EXCEPT ![r] = 0]
  /\ got' = [got EXCEPT ![r] = None]
  /\ served' = [served EXCEPT ![r] = 0]
  /\ Goto(r, "take")
  /\ UNCHANGED <<pool, net, conn, fresh, toClose>>

\* Redirect limit, total timeout, refused downgrade.
RedirectFails(r) ==
  /\ pc[r] = "answered"
  /\ Goto(r, "failed")
  /\ UNCHANGED <<pool, net, call, conn, toClose>>

-----------------------------------------------------------------------------
(* httpSessionClose, under the mutex.                                      *)

Close ==
  /\ ~closed
  /\ closed' = TRUE
  /\ ShutdownClose(ConnsOf(idleList))
  /\ idleList' = <<>>
  /\ idleIndex' = {}
  /\ UNCHANGED <<pc, conn, call, toClose>>

-----------------------------------------------------------------------------
(* The servers and the clock.                                              *)

\* An idle connection grows older than poolIdleMs.
Expire(i) ==
  /\ i \in DOMAIN idleList
  /\ ~idleList[i].old
  /\ idleList' = [idleList EXCEPT ![i].old = TRUE]
  /\ UNCHANGED <<closed, idleIndex, net, pc, conn, call, toClose>>

PeerCloses(c) ==
  /\ c \in peerUp
  /\ peerUp' = peerUp \ {c}
  /\ UNCHANGED <<pool, open, madeFor, wire, reply, pc, conn, call, toClose>>

\* The server processes a request, and answers or hangs up.
Serve(c, answers) ==
  LET r == wire[c] IN
  /\ c \in peerUp
  /\ r # None
  /\ wire' = [wire EXCEPT ![c] = None]
  /\ served' = [served EXCEPT ![r] = @ + 1]
  /\ reply' = IF answers THEN [reply EXCEPT ![c] = r] ELSE reply
  /\ peerUp' = IF answers THEN peerUp ELSE peerUp \ {c}
  /\ UNCHANGED <<pool, open, madeFor, pc, conn, key, fresh, attempt, hops, method,
                 toClose, got>>

\* The call's own steps.
Step(r) ==
  \/ TakeIdle(r) \/ NothingIdle(r)
  \/ \E c \in Conns : Open(r, c)
  \/ OpenFails(r)
  \/ Send(r) \/ SendFails(r)
  \/ \E keepalive \in BOOLEAN : Read(r, keepalive)
  \/ ReadFails(r)
  \/ ReturnIdle(r) \/ CloseDisplaced(r)
  \/ Return(r) \/ RedirectFails(r)
  \/ \E k \in Keys, m \in {"safe", "unsafe"} : Redirect(r, k, m)

Next ==
  \/ \E r \in Requests : Step(r) \/ Refuse(r) \/ \E k \in Keys : Begin(r, k)
  \/ Close
  \/ \E i \in DOMAIN idleList : Expire(i)
  \/ \E c \in Conns : PeerCloses(c) \/ \E answers \in BOOLEAN : Serve(c, answers)

Spec == Init /\ [][Next]_vars

-----------------------------------------------------------------------------
(* Properties.                                                             *)

\* The threads of a session never share a connection: one that is idle, in
\* use by a request, or about to be closed has one owner.
OneOwner ==
  /\ \A i, j \in DOMAIN idleList : i # j => idleList[i].conn # idleList[j].conn
  /\ \A r \in Requests :
       /\ conn[r] \notin ConnsOf(idleList)
       /\ toClose[r] \cap ConnsOf(idleList) = {}
       /\ \A q \in Requests \ {r} :
            /\ conn[r] # None => conn[q] # conn[r] /\ conn[r] \notin toClose[q]
            /\ toClose[r] \cap toClose[q] = {}

\* Every connection that is open is idle in the pool, in use, or on a list
\* to be closed: errors, displacement and close() leak none, and none is
\* used after it was closed.
NoLeak ==
  open = ConnsOf(idleList)
           \cup {c \in Conns : \E r \in Requests : c = conn[r] \/ c \in toClose[r]}

\* Whatever requests were under way at close(), a closed session pools
\* nothing.
ClosedIsEmpty == closed => idleList = <<>>

\* The pool has at most PoolMaxSize connections, one per key, and the index
\* knows exactly these.
PoolBounded ==
  /\ Len(idleList) <= PoolMaxSize
  /\ \A i, j \in DOMAIN idleList : i # j => idleList[i].key # idleList[j].key
  /\ idleIndex = KeysOf(idleList)

\* A request runs on a connection that was opened for its scheme, host,
\* port and TLS identity.
RightPeer == \A r \in Requests : conn[r] # None => madeFor[conn[r]] = key[r]

\* Each open connection has one owner, who uses it for the peer it was opened for.
ConnectionsExact == OneOwner /\ NoLeak /\ RightPeer

\* List and index of idle connections agree, within the limit, and are empty for
\* good once the session is closed.
PoolExact == PoolBounded /\ ClosedIsEmpty

\* A request is given the response to itself, never one left on a reused
\* connection by an earlier request.
OwnResponse == \A r \in Requests : got[r] \in {None, r}

\* No retry makes a server process a request that is not idempotent twice.
NoDoubleCommit == \A r \in Requests : method[r] = "unsafe" => served[r] <= 1

\* The second attempt never fails in a way that asks for a third.
RetrySuffices == \A r \in Requests : pc[r] # "exhausted"

\* How far a call has come, read as a number with one digit for redirects,
\* one for attempts and one for the step.
Rank == [idle |-> 0, take |-> 1, open |-> 2, send |-> 3, read |-> 4, return |-> 5,
         close |-> 6, answered |-> 7, ok |-> 8, failed |-> 8, exhausted |-> 8]

Distance(r) == 30 * hops[r] + 9 * attempt[r] + Rank[pc[r]]

\* Every step of a call brings it nearer to its end, across retries on other
\* connections and redirects: session.request cannot go round in circles.
CallsAdvance == [][\A r \in Requests : pc'[r] # pc[r] => Distance(r)' > Distance(r)]_vars
=============================================================================
